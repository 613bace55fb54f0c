---------------------------- MODULE ConsumerProofs ----------------------------
(***************************************************************************)
(* Proofs about ConsumerLoop.  A message is lost or repeated only by way   *)
(* of a crash because the batches never overlap, none is both fetched and  *)
(* running, and a message past the position has been processed at most     *)
(* once by each process that has died.                                     *)
(***************************************************************************)
EXTENDS ConsumerLoop, FiniteSetTheorems, TLAPS

(* Batches wait only while consume() has a result at hand. *)
Staged ==
    /\ stage # "spawn" => fetched = {}
    /\ stage \in Starting => running = {}
    /\ fetched \cap running = {}

Disjoint ==
    \A b, c \in InHand : \A i \in Offsets :
        Holds(b, b.partition, i) /\ Holds(c, b.partition, i) => b = c

(* Only a message behind the position that no batch holds may have been *)
(* processed by this process.                                           *)
Counted ==
    \A p \in Partitions : \A i \in Offsets :
        /\ finished[p][i] <= crashes + 1
        /\ i > position[p] \/ Held(p, i) => finished[p][i] <= crashes

Limited ==
    /\ IsFiniteSet(running)
    /\ running # {} => BaseTasks + Cardinality(running) <= MAXIMUM_RUNNING_TASKS

Inv == TypeOK /\ Staged /\ Disjoint /\ Counted /\ LossOnlyByCrash /\ Limited

(* The batch that follows b after its next message. *)
Shorter(b) == [b EXCEPT !.first = @ + 1]

-----------------------------------------------------------------------------
(* The empty process satisfies the invariant. *)
LEMMA InitInv == Init => Inv
<1> SUFFICES ASSUME Init PROVE Inv
  OBVIOUS
<1> USE ConsumerAssumption
<1>1. TypeOK
  BY DEF Init, TypeOK, Stages, Batch, Offsets
<1>2. Staged /\ Disjoint
  BY DEF Init, Staged, Disjoint, InHand
<1>3. Counted
  BY DEF Init, Counted, Held, InHand, Offsets
<1>4. LossOnlyByCrash
  BY DEF Init, LossOnlyByCrash
<1>5. Limited
  BY FS_EmptySet DEF Init, Limited
<1> QED
  BY <1>1, <1>2, <1>3, <1>4, <1>5 DEF Inv

(* What the type invariant says of each variable. *)
LEMMA Types ==
  ASSUME TypeOK
  PROVE  /\ position \in [Partitions -> Nat] /\ committed \in [Partitions -> Nat]
         /\ resumed \in [Partitions -> Nat]
         /\ finished \in [Partitions -> [Offsets -> Nat]]
         /\ crashes \in Nat /\ others \in Nat /\ requests \in Nat
         /\ \A p \in Partitions : /\ resumed[p] <= committed[p]
                                  /\ committed[p] <= position[p]
                                  /\ position[p] <= LogLength
         /\ \A b \in InHand : /\ b \in Batch /\ b.partition \in Partitions
                              /\ b.first \in Nat /\ b.last \in Nat
                              /\ 1 <= b.first /\ b.first <= b.last
                              /\ b.last <= position[b.partition]
  BY DEF TypeOK, InHand, Batch

(* A step that moves no message, or only from fetched to running, keeps *)
(* what the invariant says of the batches.                              *)
LEMMA SameBatches ==
  ASSUME Inv, InHand' = InHand, UNCHANGED <<position, resumed, finished, crashes>>
  PROVE  Disjoint' /\ Counted' /\ LossOnlyByCrash'
  BY DEF Inv, Disjoint, Counted, LossOnlyByCrash, Held, Excused

(* Every action but GetMany, Spawn, Process and Crash. *)
LEMMA OtherSteps ==
  ASSUME Inv,
         \/ Start \/ EndConsume \/ Wait \/ Request \/ EndOther
         \/ (\E p \in Partitions : AutoCommit(p)) \/ UNCHANGED vars
  PROVE  Inv'
<1> USE ConsumerAssumption
<1>1. UNCHANGED <<position, resumed, fetched, running, finished, crashes>>
  BY DEF Start, EndConsume, Wait, Request, EndOther, AutoCommit, vars, kafka, memory
<1>2. TypeOK'
  <2>1. stage' \in Stages
    BY DEF Inv, TypeOK, Stages, Starting, Start, Begin, EndConsume, Wait, Request, EndOther, AutoCommit, vars
  <2>2. /\ committed' \in [Partitions -> Nat]
        /\ \A p \in Partitions : resumed[p] <= committed'[p] /\ committed'[p] <= position[p]
    <3>1. CASE \E p \in Partitions : AutoCommit(p)
      BY <3>1, Types DEF Inv, AutoCommit
    <3>2. CASE UNCHANGED committed
      BY <3>2, Types DEF Inv
    <3> QED
      BY <3>1, <3>2 DEF Start, EndConsume, Wait, Request, EndOther, vars, kafka
  <2>3. others' \in Nat /\ requests' \in 0..MaxRequests
    BY DEF Inv, TypeOK, Start, EndConsume, Wait, Request, EndOther, AutoCommit, vars, memory
  <2> QED
    BY <1>1, <2>1, <2>2, <2>3 DEF Inv, TypeOK
<1>3. Staged'
  <2>1. CASE Start
    BY <1>1, <2>1 DEF Inv, Staged, Start, Begin, Starting
  <2>2. CASE EndConsume
    BY <1>1, <2>2 DEF Inv, Staged, EndConsume, Starting
  <2>3. CASE UNCHANGED stage
    BY <1>1, <2>3 DEF Inv, Staged
  <2> QED
    BY <2>1, <2>2, <2>3 DEF Wait, Request, EndOther, AutoCommit, vars
<1>4. Disjoint' /\ Counted' /\ LossOnlyByCrash'
  BY <1>1, SameBatches DEF InHand
<1>5. Limited'
  BY <1>1 DEF Inv, Limited
<1> QED
  BY <1>2, <1>3, <1>4, <1>5 DEF Inv

(* getmany(): the new batches begin past every batch there is. *)
LEMMA GetManyStep ==
  ASSUME Inv, GetMany
  PROVE  Inv'
<1> USE ConsumerAssumption
<1>1. PICK n \in [Partitions -> 0..LogLength] :
         /\ \A p \in Partitions : position[p] <= n[p]
         /\ fetched' = {Upto(p, n[p]) : p \in {q \in Partitions : n[q] > position[q]}}
         /\ position' = n
  BY DEF GetMany, Advance
<1>2. /\ stage = "getmany" /\ stage' = "spawn" /\ fetched = {}
      /\ UNCHANGED <<committed, resumed, running, others, finished, requests, crashes>>
  BY DEF Inv, Staged, GetMany
<1>3. \A c \in fetched' :
         /\ c \in Batch /\ c.partition \in Partitions
         /\ c.first = position[c.partition] + 1 /\ c.last = n[c.partition]
         /\ c.first \in Nat /\ c.last \in Nat
         /\ c.first <= c.last
  BY <1>1, Types DEF Inv, Upto, Batch
<1>4. \A p \in Partitions : n[p] > position[p] => Upto(p, n[p]) \in fetched'
  BY <1>1
<1>5. \A c, d \in fetched' : c.partition = d.partition => c = d
  BY <1>1 DEF Upto
<1>6. /\ InHand = running /\ InHand' = running \cup fetched'
      /\ position' \in [Partitions -> Nat]
      /\ \A p \in Partitions : position[p] <= position'[p] /\ position'[p] <= LogLength
  BY <1>1, <1>2 DEF InHand
<1>7. TypeOK'
  <2>1. \A b \in running : b \in Batch /\ b.last <= position'[b.partition] /\ 1 <= b.first /\ b.first <= b.last
    BY <1>6, Types DEF Inv
  <2>2. \A b \in fetched' : 1 <= b.first /\ b.first <= b.last /\ b.last <= position'[b.partition]
    BY <1>1, <1>3, Types DEF Inv
  <2>3. \A p \in Partitions : resumed[p] <= committed[p] /\ committed[p] <= position'[p]
    BY <1>6, Types DEF Inv
  <2> QED
    BY <1>2, <1>3, <1>6, <2>1, <2>2, <2>3 DEF Inv, TypeOK, Stages
<1>8. Staged'
  <2>1. \A b \in running : b \notin fetched'
    BY <1>3, <1>6, Types DEF Inv
  <2> QED
    BY <1>2, <2>1 DEF Staged, Starting
<1>9. Disjoint'
  <2> SUFFICES ASSUME NEW b \in InHand', NEW c \in InHand', NEW i \in Offsets,
                      Holds(b, b.partition, i), Holds(c, b.partition, i)
               PROVE  b = c
    BY DEF Disjoint
  <2>1. CASE b \in running /\ c \in running
    BY <2>1, <1>6 DEF Inv, Disjoint
  <2>2. CASE b \in fetched' /\ c \in fetched'
    BY <2>2, <1>5 DEF Holds
  <2>0. \A d \in running, e \in fetched' : d.partition = e.partition => d.last < e.first
    BY <1>3, <1>6, Types DEF Inv
  <2>3. CASE b \in running /\ c \in fetched'
    <3>1. b.last < c.first /\ i \in Nat /\ b.last \in Nat /\ c.first \in Nat
      BY <2>0, <2>3, <1>3, <1>6, Types DEF Inv, Holds, Offsets
    <3> QED
      BY <3>1 DEF Holds
  <2>4. CASE b \in fetched' /\ c \in running
    <3>1. c.last < b.first /\ i \in Nat /\ c.last \in Nat /\ b.first \in Nat
      BY <2>0, <2>4, <1>3, <1>6, Types DEF Inv, Holds, Offsets
    <3> QED
      BY <3>1 DEF Holds
  <2> QED
    BY <1>6, <2>1, <2>2, <2>3, <2>4
<1>10. Counted'
  <2> SUFFICES ASSUME NEW p \in Partitions, NEW i \in Offsets
               PROVE  /\ finished[p][i] <= crashes + 1
                      /\ i > position'[p] \/ Held(p, i)' => finished[p][i] <= crashes
    BY <1>2 DEF Counted
  <2>1. i > position'[p] => i > position[p]
    BY <1>6, Types DEF Inv, Offsets
  <2>2. ASSUME NEW b \in InHand', Holds(b, p, i)
        PROVE  Held(p, i) \/ i > position[p]
    <3>1. CASE b \in running
      BY <2>2, <3>1, <1>6 DEF Held
    <3>2. CASE b \in fetched'
      <4>1. b.first = position[p] + 1 /\ b.first <= i
        BY <2>2, <3>2, <1>3 DEF Holds
      <4> QED
        BY <4>1, Types DEF Inv, Offsets
    <3> QED
      BY <3>1, <3>2, <1>6
  <2>3. Held(p, i)' => Held(p, i) \/ i > position[p]
    BY <2>2 DEF Held
  <2> QED
    BY <2>1, <2>3 DEF Inv, Counted
<1>11. LossOnlyByCrash'
  <2> SUFFICES ASSUME NEW p \in Partitions, NEW i \in 1..position'[p]
               PROVE  (finished[p][i] > 0 \/ Held(p, i) \/ Excused(p, i))'
    BY DEF LossOnlyByCrash
  <2>1. CASE i <= position[p]
    <3>1. i \in 1..position[p]
      BY <2>1, Types DEF Inv
    <3>2. finished[p][i] > 0 \/ Held(p, i) \/ Excused(p, i)
      BY <3>1 DEF Inv, LossOnlyByCrash
    <3> QED
      BY <1>2, <1>6, <3>2 DEF Held, Excused
  <2>2. CASE i > position[p]
    <3>1. Upto(p, n[p]) \in fetched' /\ n[p] = position'[p]
      BY <1>1, <1>4, <1>6, <2>2, Types DEF Inv
    <3>2. Holds(Upto(p, n[p]), p, i)
      BY <2>2, <3>1, Types DEF Inv, Holds, Upto
    <3> QED
      BY <1>6, <3>1, <3>2 DEF Held
  <2> QED
    BY <1>6, <2>1, <2>2, Types DEF Inv
<1>12. Limited'
  BY <1>2 DEF Inv, Limited
<1> QED
  BY <1>7, <1>8, <1>9, <1>10, <1>11, <1>12 DEF Inv

(* A fetched batch gets its coroutine while there is room for a task. *)
LEMMA SpawnStep ==
  ASSUME Inv, Spawn
  PROVE  Inv'
<1> USE ConsumerAssumption
<1>1. PICK b \in fetched : running' = running \cup {b} /\ fetched' = fetched \ {b}
  BY DEF Spawn, Taken
<1>2. /\ stage = "spawn" /\ HasRoom
      /\ UNCHANGED <<stage, kafka, others, finished, requests, crashes>>
  BY DEF Spawn
<1>3. InHand' = InHand
  BY <1>1 DEF InHand
<1>4. TypeOK'
  BY <1>1, <1>2 DEF Inv, TypeOK, kafka
<1>5. Staged'
  BY <1>1, <1>2 DEF Inv, Staged, Starting
<1>6. Disjoint' /\ Counted' /\ LossOnlyByCrash'
  BY <1>2, <1>3, SameBatches DEF kafka
<1>7. Limited'
  <2>1. IsFiniteSet(running') /\ Cardinality(running') = Cardinality(running) + 1
    BY <1>1, FS_AddElement DEF Inv, Limited, Staged
  <2>2. Cardinality(running) \in Nat
    BY FS_CardinalityType DEF Inv, Limited
  <2> QED
    BY <1>2, <2>1, <2>2, Types DEF Inv, Limited, HasRoom, get_running_tasks
<1> QED
  BY <1>4, <1>5, <1>6, <1>7 DEF Inv

(* A killed process has nothing in hand and resumes at what is committed. *)
LEMMA CrashStep ==
  ASSUME Inv, Crash
  PROVE  Inv'
<1> USE ConsumerAssumption
<1>1. /\ stage' = "db" /\ crashes' = crashes + 1 /\ crashes < MaxCrashes
      /\ position' = committed /\ resumed' = committed
      /\ fetched' = {} /\ running' = {} /\ others' = 0
      /\ UNCHANGED <<committed, finished, requests>>
  BY DEF Crash
<1>2. TypeOK'
  BY <1>1, Types DEF Inv, TypeOK, Stages
<1>3. Staged' /\ Disjoint'
  BY <1>1 DEF Staged, Disjoint, InHand
<1>4. Counted'
  BY <1>1, Types DEF Inv, Counted, Held, InHand, Offsets
<1>5. LossOnlyByCrash'
  BY <1>1, Types DEF Inv, LossOnlyByCrash, Excused
<1>6. Limited'
  BY <1>1, FS_EmptySet DEF Limited
<1> QED
  BY <1>2, <1>3, <1>4, <1>5, <1>6 DEF Inv

(* The batch after its next message is a batch of the same partition. *)
LEMMA ShorterBatch ==
  ASSUME NEW b \in Batch, b.first < b.last
  PROVE  /\ Shorter(b) \in Batch
         /\ Shorter(b).partition = b.partition
         /\ Shorter(b).first = b.first + 1 /\ Shorter(b).last = b.last
  BY DEF Shorter, Batch

(* Every message of a batch in hand has an offset. *)
LEMMA HeldOffsets ==
  ASSUME TypeOK, NEW b \in InHand, NEW p, NEW i \in Nat, Holds(b, p, i)
  PROVE  i \in Offsets /\ p \in Partitions /\ i <= position[p]
<1>1. /\ b.partition \in Partitions /\ b.first \in Nat /\ b.last \in Nat
      /\ 1 <= b.first /\ b.last <= position[b.partition]
      /\ position[b.partition] \in Nat /\ position[b.partition] <= LogLength
  BY Types
<1> QED
  BY <1>1, ConsumerAssumption DEF Holds, Offsets

(* A message is done: its batch is shorter by it, and it alone is no longer held. *)
LEMMA ProcessStep ==
  ASSUME Inv, NEW b \in running, Process(b)
  PROVE  Inv'
<1> USE ConsumerAssumption
<1> DEFINE p == b.partition
           k == b.first
<1>1. /\ b \in InHand /\ b \in Batch /\ p \in Partitions /\ k \in Nat /\ b.last \in Nat
      /\ 1 <= k /\ k <= b.last /\ b.last <= position[p] /\ position[p] <= LogLength
      /\ position[p] \in Nat
  BY Types DEF Inv, InHand
<1>2. k \in Offsets /\ Holds(b, p, k) /\ Held(p, k)
  BY <1>1 DEF Offsets, Holds, Held
<1>3. UNCHANGED <<stage, position, committed, resumed, fetched, requests, crashes>>
  BY DEF Process, kafka
<1>4. others' \in Nat
  BY Types DEF Inv, Process
<1>5. /\ finished' \in [Partitions -> [Offsets -> Nat]]
      /\ \A q \in Partitions : \A i \in Offsets :
            finished'[q][i] = IF q = p /\ i = k /\ <<p, k>> \notin Poison
                              THEN finished[q][i] + 1 ELSE finished[q][i]
  <2>1. CASE <<p, k>> \notin Poison
    <3>1. finished' = [finished EXCEPT ![p][k] = @ + 1]
      BY <2>1 DEF Process
    <3> QED
      BY <2>1, <3>1, <1>1, <1>2, Types DEF Inv
  <2>2. CASE <<p, k>> \in Poison
    BY <2>2, Types DEF Inv, Process
  <2> QED
    BY <2>1, <2>2
<1>6. \A c \in InHand, i \in Offsets : Holds(c, p, i) /\ Holds(b, p, i) => c = b
  BY <1>1 DEF Inv, Disjoint
<1>7. \A c \in running' : \/ c \in running /\ c # b
                          \/ c = Shorter(b) /\ k < b.last /\ <<p, k>> \notin Poison
  <2>1. CASE <<p, k>> \notin Poison
    BY <2>1 DEF Process, Rest, Shorter
  <2>2. CASE <<p, k>> \in Poison
    BY <2>2 DEF Process
  <2> QED
    BY <2>1, <2>2
<1>8. /\ running \ {b} \subseteq running'
      /\ k < b.last /\ <<p, k>> \notin Poison => Shorter(b) \in running'
  BY DEF Process, Rest, Shorter
<1>9. k < b.last => /\ Shorter(b) \in Batch /\ Shorter(b).partition = p
                    /\ Shorter(b).first = k + 1 /\ Shorter(b).last = b.last
  BY <1>1, ShorterBatch
<1>10. b \notin fetched
  BY DEF Inv, Staged
<1>11. \A c \in InHand' : \/ c \in InHand /\ c # b
                          \/ c = Shorter(b) /\ k < b.last
  BY <1>3, <1>7, <1>10 DEF InHand
<1>12. ASSUME NEW c \in InHand', NEW q, NEW i \in Nat, Holds(c, q, i)
       PROVE  \E d \in InHand : /\ Holds(d, q, i)
                                /\ c # d => d = b /\ c = Shorter(b) /\ k < i
                                /\ ~(q = p /\ i = k)
  <2>1. CASE c \in InHand /\ c # b
    <3>1. i \in Offsets
      BY <2>1, <1>12, HeldOffsets DEF Inv
    <3>2. ~(q = p /\ i = k)
      BY <2>1, <3>1, <1>2, <1>6, <1>12
    <3> QED
      BY <2>1, <3>2, <1>12
  <2>2. CASE c = Shorter(b) /\ k < b.last
    BY <2>2, <1>1, <1>9, <1>12 DEF Holds
  <2> QED
    BY <2>1, <2>2, <1>11
<1>13. TypeOK'
  <2>1. \A c \in running' : c \in Batch /\ 1 <= c.first /\ c.first <= c.last /\ c.last <= position[c.partition]
    <3> SUFFICES ASSUME NEW c \in running'
                 PROVE  c \in Batch /\ 1 <= c.first /\ c.first <= c.last /\ c.last <= position[c.partition]
      OBVIOUS
    <3>1. CASE c \in running
      BY <3>1, Types DEF Inv, InHand
    <3>2. CASE c = Shorter(b) /\ k < b.last
      BY <3>2, <1>1, <1>9
    <3> QED
      BY <3>1, <3>2, <1>7
  <2> QED
    BY <1>3, <1>4, <1>5, <2>1 DEF Inv, TypeOK
<1>14. Staged'
  <2>1. k < b.last => Shorter(b) \notin fetched
    <3> SUFFICES ASSUME k < b.last, Shorter(b) \in fetched PROVE FALSE
      OBVIOUS
    <3>1. Holds(Shorter(b), p, k + 1) /\ Holds(b, p, k + 1) /\ k + 1 \in Offsets
      BY <1>1, <1>9 DEF Holds, Offsets
    <3>2. Shorter(b) \in InHand
      BY DEF InHand
    <3> QED
      BY <3>1, <3>2, <1>1, <1>6, <1>9
  <2> QED
    BY <2>1, <1>3, <1>7 DEF Inv, Staged
<1>15. Disjoint'
  <2> SUFFICES ASSUME NEW c \in InHand', NEW d \in InHand', NEW i \in Offsets,
                      Holds(c, c.partition, i), Holds(d, c.partition, i)
               PROVE  c = d
    BY DEF Disjoint
  <2>1. i \in Nat
    BY DEF Offsets
  <2>2. PICK x \in InHand : Holds(x, c.partition, i) /\ (c # x => x = b /\ c = Shorter(b) /\ k < i)
    BY <2>1, <1>12
  <2>3. PICK y \in InHand : Holds(y, c.partition, i) /\ (d # y => y = b /\ d = Shorter(b) /\ k < i)
    BY <2>1, <1>12
  <2>4. x = y
    BY <2>2, <2>3 DEF Inv, Disjoint, Holds
  <2>5. c # b /\ d # b
    BY <1>9, <1>1, <1>11
  <2> QED
    BY <2>2, <2>3, <2>4, <2>5
<1>16. Counted'
  <2> SUFFICES ASSUME NEW q \in Partitions, NEW i \in Offsets
               PROVE  /\ finished'[q][i] <= crashes + 1
                      /\ i > position[q] \/ Held(q, i)' => finished'[q][i] <= crashes
    BY <1>3 DEF Counted
  <2>1. /\ finished[q][i] \in Nat /\ finished[q][i] <= crashes + 1 /\ crashes \in Nat
        /\ i > position[q] \/ Held(q, i) => finished[q][i] <= crashes
    BY Types DEF Inv, Counted
  <2>2. Held(q, i)' => Held(q, i) /\ ~(q = p /\ i = k)
    BY <1>12 DEF Held, Offsets
  <2>3. CASE q = p /\ i = k
    BY <2>1, <2>2, <2>3, <1>1, <1>2, <1>5
  <2>4. CASE ~(q = p /\ i = k)
    BY <2>1, <2>2, <2>4, <1>5
  <2> QED
    BY <2>3, <2>4
<1>17. LossOnlyByCrash'
  <2> SUFFICES ASSUME NEW q \in Partitions, NEW i \in 1..position[q]
               PROVE  (finished[q][i] > 0 \/ Held(q, i) \/ Excused(q, i))'
    BY <1>3 DEF LossOnlyByCrash
  <2>1. i \in Offsets /\ i \in Nat
    BY Types DEF Inv, Offsets
  <2>2. Excused(q, i)' <=> Excused(q, i)
    BY <1>3 DEF Excused
  <2>3. CASE finished[q][i] > 0
    BY <2>1, <2>3, <1>5, Types DEF Inv
  <2>4. CASE Excused(q, i)
    BY <2>2, <2>4
  <2>5. ASSUME NEW c \in InHand, Holds(c, q, i)
        PROVE  (finished[q][i] > 0 \/ Held(q, i) \/ Excused(q, i))'
    <3>1. CASE c # b
      <4>1. c \in InHand'
        BY <3>1, <1>3, <1>8 DEF InHand
      <4> QED
        BY <4>1, <2>5 DEF Held
    <3>2. CASE c = b /\ <<p, k>> \in Poison
      <4>1. q = p /\ k \in 1..i
        BY <3>2, <2>1, <2>5, <1>1 DEF Holds
      <4> QED
        BY <3>2, <4>1, <2>2 DEF Excused
    <3>3. CASE c = b /\ <<p, k>> \notin Poison /\ i = k
      BY <3>3, <2>1, <2>5, <1>5, Types DEF Inv, Holds
    <3>4. CASE c = b /\ <<p, k>> \notin Poison /\ i # k
      <4>1. q = p /\ k < b.last /\ k + 1 <= i /\ i <= b.last
        BY <3>4, <2>1, <2>5, <1>1 DEF Holds
      <4>2. Shorter(b) \in InHand'
        BY <3>4, <4>1, <1>8 DEF InHand
      <4>3. Holds(Shorter(b), q, i)
        BY <4>1, <1>9 DEF Holds
      <4> QED
        BY <4>2, <4>3 DEF Held
    <3> QED
      BY <3>1, <3>2, <3>3, <3>4
  <2> QED
    BY <2>3, <2>4, <2>5 DEF Inv, LossOnlyByCrash, Held
<1>18. Limited'
  <2> DEFINE R == running \ {b}
  <2>1. IsFiniteSet(running) /\ IsFiniteSet(R) /\ Cardinality(R) = Cardinality(running) - 1
    BY FS_RemoveElement DEF Inv, Limited
  <2>2. Cardinality(running) \in Nat /\ Cardinality(R) \in Nat
    BY <2>1, FS_CardinalityType
  <2>3. BaseTasks + Cardinality(running) <= MAXIMUM_RUNNING_TASKS
    BY DEF Inv, Limited
  <2>4. CASE running' = R
    BY <2>1, <2>2, <2>3, <2>4 DEF Limited
  <2>5. CASE running' = R \cup {Shorter(b)}
    <3>1. /\ IsFiniteSet(running')
          /\ Cardinality(running') = Cardinality(R) \/ Cardinality(running') = Cardinality(R) + 1
      BY <2>1, <2>5, FS_AddElement
    <3> QED
      BY <2>1, <2>2, <2>3, <3>1 DEF Limited
  <2> QED
    BY <2>4, <2>5 DEF Process, Rest, Shorter
<1> QED
  BY <1>13, <1>14, <1>15, <1>16, <1>17, <1>18 DEF Inv

(* Every step keeps the invariant. *)
LEMMA NextInv == Inv /\ [Next]_vars => Inv'
<1> SUFFICES ASSUME Inv, [Next]_vars PROVE Inv'
  OBVIOUS
<1> QED
  BY OtherSteps, GetManyStep, SpawnStep, CrashStep, ProcessStep DEF Next, Consume

-----------------------------------------------------------------------------
(* The types hold, and every message count stays within its bound. *)
THEOREM ConsumerInvariant == Spec => []Inv
  BY InitInv, NextInv, PTL DEF Spec

(* Whatever the numbers of partitions and messages, a message that was handed *)
(* out is processed, held by a batch, or lost in one of the two known ways.   *)
THEOREM LossTheorem == Spec => []LossOnlyByCrash
<1>1. Inv => LossOnlyByCrash
  BY DEF Inv
<1> QED
  BY <1>1, ConsumerInvariant, PTL

(* However often the process dies, a message is processed at most once more. *)
THEOREM DuplicatesTheorem == Spec => []DuplicatesOnlyByCrash
<1>1. Inv => DuplicatesOnlyByCrash
  <2> SUFFICES ASSUME Inv PROVE DuplicatesOnlyByCrash
    OBVIOUS
  <2>1. \A p \in Partitions : \A i \in Offsets :
          finished[p][i] + (IF Held(p, i) THEN 1 ELSE 0) <= crashes + 1
    BY Types DEF Inv, Counted
  <2> QED
    BY <2>1 DEF Inv, Disjoint, DuplicatesOnlyByCrash
<1> QED
  BY <1>1, ConsumerInvariant, PTL

(* For every limit: nothing is taken too early, and the batches keep to it. *)
THEOREM LimitsTheorem == Spec => []WithinLimits
<1>1. Inv => WithinLimits
  BY DEF Inv, Staged, Limited, WithinLimits, InHand, Starting
<1> QED
  BY <1>1, ConsumerInvariant, PTL
=============================================================================
