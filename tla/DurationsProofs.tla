--------------------------- MODULE DurationsProofs ---------------------------
(***************************************************************************)
(* Proofs about Durations.  The invariant says what the set of triples     *)
(* knows of the rows placed so far: all of their dates, all of their       *)
(* buckets, and, where no date is shared, the dates of every bucket.       *)
(***************************************************************************)
EXTENDS Durations, WellFoundedInduction, TLAPS

LOCAL INSTANCE FiniteSetsExt

(* What holds of the rows before the next one. *)
Placed ==
    /\ DatesIn(services_by_source) = {r.date : r \in Before(next)}
    /\ KeysIn(services_by_source) = {KeyOf(r) : r \in Before(next)}
    /\ \A t \in services_by_source : \E r \in Before(next) : t = [key |-> KeyOf(r), date |-> r.date]

(* The dates placed so far have a last one: Max is taken of a bounded set. *)
Bounded == \E b \in Nat : \A r \in Before(next) : r.date <= b

(* What the call has returned was computed from all rows. *)
Returned ==
    Answered =>
        /\ next = Len(payloads) + 1
        /\ durations = [buckets |-> [k \in KeysIn(services_by_source) |->
                                        Span(DatesOf(services_by_source, k))],
                        total_time_in_services |->
                            SumOf([k \in KeysIn(services_by_source) |->
                                       Span(DatesOf(services_by_source, k))]),
                        total_time |-> Span(DatesIn(services_by_source))]

IInv == TypeOK /\ Placed /\ Bounded /\ Returned

-----------------------------------------------------------------------------
(* A set of naturals that is not empty has a least element, and a greatest *)
(* one when it is bounded.                                                 *)
LEMMA LeastDate ==
    ASSUME NEW S, S \subseteq Nat, S # {}
    PROVE  \E m \in S : \A d \in S : m <= d
<1> DEFINE R == {ss \in Nat \X Nat : ss[1] < ss[2]}
<1>1. IsWellFoundedOn(R, Nat)
  BY NatLessThanWellFounded DEF OpToRel
<1> HIDE DEF R
<1>2. PICK m \in S : \A d \in S : ~(<<d, m>> \in R)
  BY <1>1, WFMin
<1>3. \A d \in S : ~(d < m)
  BY <1>2 DEF R
<1> QED
  BY <1>3

LEMMA GreatestDate ==
    ASSUME NEW S, S \subseteq Nat, S # {}, NEW b \in Nat, \A d \in S : d <= b
    PROVE  \E m \in S : \A d \in S : d <= m
<1> DEFINE T == {u \in Nat : \A d \in S : d <= u}
<1>1. PICK m \in T : \A u \in T : m <= u
  BY LeastDate
<1>2. PICK x \in S : TRUE
  OBVIOUS
<1>3. m \in S
  <2> SUFFICES ASSUME m \notin S PROVE FALSE
    OBVIOUS
  <2>1. \A d \in S : d \in Nat /\ d <= m - 1
    BY <1>1
  <2>2. m - 1 \in Nat
    BY <1>1, <1>2, <2>1
  <2>3. m - 1 \in T
    BY <2>1, <2>2
  <2> QED
    BY <1>1, <2>2, <2>3
<1> QED
  BY <1>1, <1>3

(* Span is the distance of the last date from the first. *)
LEMMA SpanIs ==
    ASSUME NEW S, S \subseteq Nat, NEW m \in S, NEW n \in S, \A d \in S : m <= d /\ d <= n
    PROVE  Span(S) = n - m
<1>1. Max(S) = n
  <2> DEFINE P(x) == \A d \in S : x >= d
  <2>1. P(n) /\ \A x \in S : P(x) => x = n
    OBVIOUS
  <2> HIDE DEF P
  <2>2. (CHOOSE x \in S : P(x)) = n
    BY <2>1
  <2> QED
    BY <2>2 DEF Max, P
<1>2. Min(S) = m
  <2> DEFINE P(x) == \A d \in S : x <= d
  <2>1. P(m) /\ \A x \in S : P(x) => x = m
    OBVIOUS
  <2> HIDE DEF P
  <2>2. (CHOOSE x \in S : P(x)) = m
    BY <2>1
  <2> QED
    BY <2>2 DEF Min, P
<1> QED
  BY <1>1, <1>2 DEF Span

(* Leaving out dates can only shorten a duration. *)
LEMMA SpanMonotone ==
    ASSUME NEW S, NEW T, S \subseteq T, T \subseteq Nat, S # {}, NEW b \in Nat, \A d \in T : d <= b
    PROVE  Span(S) \in 0..Span(T)
<1>1. PICK sl \in S : \A d \in S : sl <= d
  BY LeastDate
<1>2. PICK su \in S : \A d \in S : d <= su
  BY GreatestDate
<1>3. PICK tl \in T : \A d \in T : tl <= d
  BY LeastDate
<1>4. PICK tu \in T : \A d \in T : d <= tu
  BY GreatestDate
<1>5. Span(S) = su - sl /\ Span(T) = tu - tl
  BY <1>1, <1>2, <1>3, <1>4, SpanIs
<1>6. sl \in Nat /\ su \in Nat /\ tl \in Nat /\ tu \in Nat /\ tl <= sl /\ sl <= su /\ su <= tu
  BY <1>1, <1>2, <1>3, <1>4
<1> QED
  BY <1>5, <1>6

LEMMA RowsAreRows ==
    ASSUME TypeOK, NEW i \in 1..Len(payloads)
    PROVE  /\ payloads[i] \in Row
           /\ KeyOf(payloads[i]) \in Keys
           /\ payloads[i].date \in Nat
<1>1. payloads \in Seq(Row)
  BY DEF TypeOK
<1>2. payloads[i] \in Row
  BY <1>1
<1> QED
  BY <1>2 DEF Row, KeyOf, Keys

(* Placing one row extends the rows placed so far by that row. *)
LEMMA BeforeGrows ==
    ASSUME TypeOK, NEW n \in 1..Len(payloads)
    PROVE  Before(n + 1) = Before(n) \cup {payloads[n]}
<1>1. 1..(n + 1 - 1) = (1..(n - 1)) \cup {n}
  <2>1. payloads \in Seq(Row)
    BY DEF TypeOK
  <2> QED
    BY <2>1
<1> QED
  BY <1>1 DEF Before

LEMMA InitInv == Init => IInv
<1> SUFFICES ASSUME Init PROVE IInv
  OBVIOUS
<1>1. payloads \in Seq(Row)
  BY InputsAssumption DEF Init
<1>2. TypeOK
  BY <1>1 DEF Init, TypeOK, Answered
<1>3. Before(next) = {}
  BY DEF Init, Before
<1>4. Placed
  BY <1>3 DEF Init, Placed, DatesIn, KeysIn
<1>5. Returned
  BY DEF Init, Returned, Answered
<1>6. Bounded
  BY <1>3 DEF Bounded
<1> QED
  BY <1>2, <1>4, <1>5, <1>6 DEF IInv

LEMMA PlaceInv == IInv /\ Place => IInv'
<1> SUFFICES ASSUME IInv, Place PROVE IInv'
  OBVIOUS
<1> DEFINE row == payloads[next]
           t == [key |-> KeyOf(row), date |-> row.date]
<1>1. TypeOK /\ Placed
  BY DEF IInv
<1>2. next \in 1..Len(payloads) /\ payloads' = payloads /\ next' = next + 1 /\ pc' = "place"
  <2>1. payloads \in Seq(Row)
    BY <1>1 DEF TypeOK
  <2> QED
    BY <1>1, <2>1 DEF Place, TypeOK
<1>3. row \in Row /\ t \in Triple
  BY <1>1, <1>2, RowsAreRows DEF Triple
<1>4. services_by_source' =
        IF IsNew(services_by_source, t) THEN services_by_source \cup {t} ELSE services_by_source
  BY DEF Place
<1>5. TypeOK'
  <2>1. payloads \in Seq(Row)
    BY <1>1 DEF TypeOK
  <2> QED
    BY <1>1, <1>2, <1>3, <1>4, <2>1 DEF TypeOK, Place, Answered
<1>6. Before(next)' = Before(next) \cup {row}
  BY <1>1, <1>2, BeforeGrows DEF Before
<1>7. DatesIn(services_by_source)' = DatesIn(services_by_source) \cup {row.date}
  <2>1. t.date = row.date
    OBVIOUS
  <2>2. DatesIn(services_by_source \cup {t}) = DatesIn(services_by_source) \cup {t.date}
    BY DEF DatesIn
  <2>3. ~IsNew(services_by_source, t) => t.date \in DatesIn(services_by_source)
    BY DEF IsNew
  <2>4. CASE IsNew(services_by_source, t)
    BY <1>4, <2>1, <2>2, <2>4 DEF DatesIn
  <2>5. CASE ~IsNew(services_by_source, t)
    BY <1>4, <2>1, <2>3, <2>5 DEF DatesIn
  <2> QED
    BY <2>4, <2>5
<1>8. KeysIn(services_by_source)' = KeysIn(services_by_source) \cup {KeyOf(row)}
  <2>1. t.key = KeyOf(row)
    OBVIOUS
  <2>2. KeysIn(services_by_source \cup {t}) = KeysIn(services_by_source) \cup {t.key}
    BY DEF KeysIn
  <2>3. ~IsNew(services_by_source, t) => t.key \in KeysIn(services_by_source)
    BY DEF IsNew
  <2>4. CASE IsNew(services_by_source, t)
    BY <1>4, <2>1, <2>2, <2>4 DEF KeysIn
  <2>5. CASE ~IsNew(services_by_source, t)
    BY <1>4, <2>1, <2>3, <2>5 DEF KeysIn
  <2> QED
    BY <2>4, <2>5
<1>9. Placed'
  <2>1. DatesIn(services_by_source)' = {r.date : r \in Before(next)'}
    BY <1>1, <1>6, <1>7 DEF Placed
  <2>2. KeysIn(services_by_source)' = {KeyOf(r) : r \in Before(next)'}
    BY <1>1, <1>6, <1>8 DEF Placed
  <2>3. \A u \in services_by_source' :
           \E r \in Before(next)' : u = [key |-> KeyOf(r), date |-> r.date]
    BY <1>1, <1>4, <1>6 DEF Placed
  <2> QED
    BY <2>1, <2>2, <2>3 DEF Placed, DatesIn, KeysIn
<1>10. Returned'
  BY <1>2 DEF Returned, Answered
<1>11. Bounded'
  <2>1. PICK b \in Nat : \A r \in Before(next) : r.date <= b
    BY DEF IInv, Bounded
  <2>2. row.date \in Nat /\ \A r \in Before(next) : r.date \in Nat
    <3>1. payloads \in Seq(Row) /\ next \in Nat
      BY <1>1 DEF TypeOK
    <3>2. \A i \in 1..(next - 1) : i \in 1..Len(payloads)
      BY <1>2, <3>1
    <3> QED
      BY <1>1, <1>3, <3>2, RowsAreRows DEF Before, Row
  <2>3. \A r \in Before(next)' : r.date <= b + row.date
    BY <1>6, <2>1, <2>2
  <2> QED
    BY <2>2, <2>3 DEF Bounded
<1> QED
  BY <1>5, <1>9, <1>10, <1>11 DEF IInv

(* The dates of a dump that is not empty, and those of each bucket, have a span. *)
LEMMA SpansAreNat ==
    ASSUME IInv, payloads # <<>>, next = Len(payloads) + 1
    PROVE  /\ Span(DatesIn(services_by_source)) \in Nat
           /\ \A k \in KeysIn(services_by_source) : Span(DatesOf(services_by_source, k)) \in Nat
<1> DEFINE all == DatesIn(services_by_source)
<1>1. TypeOK /\ Placed
  BY DEF IInv
<1>2. PICK b \in Nat : \A r \in Before(next) : r.date <= b
  BY DEF IInv, Bounded
<1>3. all \subseteq Nat /\ \A d \in all : d <= b
  BY <1>1, <1>2 DEF TypeOK, Triple, DatesIn, Placed
<1>4. all # {}
  <2>1. payloads \in Seq(Row)
    BY <1>1 DEF TypeOK
  <2>2. Len(payloads) # 0 /\ Len(payloads) \in Nat
    BY <2>1
  <2>3. 1 \in 1..(next - 1)
    BY <2>2
  <2>4. payloads[1] \in Before(next)
    BY <2>3 DEF Before
  <2>5. all = {r.date : r \in Before(next)}
    BY <1>1 DEF Placed
  <2>6. payloads[1].date \in all
    BY <2>4, <2>5
  <2> QED
    BY <2>6
<1>5. ASSUME NEW S, S \subseteq all, S # {} PROVE Span(S) \in Nat
  <2>1. Span(S) \in 0..Span(S)
    BY <1>2, <1>3, <1>5, SpanMonotone
  <2> QED
    BY <2>1
<1>6. ASSUME NEW k \in KeysIn(services_by_source)
      PROVE  DatesOf(services_by_source, k) \subseteq all /\ DatesOf(services_by_source, k) # {}
  BY DEF DatesOf, DatesIn, KeysIn
<1> QED
  BY <1>4, <1>5, <1>6

LEMMA ComputeInv == IInv /\ Compute => IInv'
<1> SUFFICES ASSUME IInv, Compute PROVE IInv'
  OBVIOUS
<1>1. TypeOK /\ Placed
  BY DEF IInv
<1>2. payloads' = payloads /\ next' = next /\ services_by_source' = services_by_source
  BY DEF Compute
<1>3. next = Len(payloads) + 1
  <2>1. payloads \in Seq(Row)
    BY <1>1 DEF TypeOK
  <2> QED
    BY <1>1, <2>1 DEF Compute, TypeOK
<1>4. TypeOK'
  <2>1. CASE payloads = <<>>
    BY <1>1, <1>2, <2>1 DEF Compute, TypeOK, Answered
  <2>2. CASE payloads # <<>>
    <3> DEFINE computed == [k \in KeysIn(services_by_source) |-> Span(DatesOf(services_by_source, k))]
               total == Span(DatesIn(services_by_source))
    <3>1. durations' = [buckets |-> computed, total_time_in_services |-> SumOf(computed),
                        total_time |-> total]
      BY <2>2 DEF Compute
    <3>2. computed \in [DOMAIN computed -> Nat] /\ total \in Nat
      BY <1>3, <2>2, SpansAreNat
    <3>3. DOMAIN computed \subseteq Keys
      BY <1>1 DEF TypeOK, KeysIn, Triple
    <3> HIDE DEF computed, total
    <3> DEFINE a == durations'
    <3>4. a.buckets = computed
      BY <3>1
    <3>5. a \in [buckets : [DOMAIN computed -> Nat],
                 total_time_in_services : {SumOf(computed)}, total_time : Nat]
      BY <3>1, <3>2
    <3>6. /\ DOMAIN durations'.buckets \subseteq Keys
          /\ durations' \in [buckets : [DOMAIN durations'.buckets -> Nat],
                             total_time_in_services : {SumOf(durations'.buckets)},
                             total_time : Nat]
      BY <3>3, <3>4, <3>5
    <3>7. SumOf(durations.buckets)' = SumOf(durations'.buckets)
      OBVIOUS
    <3>8. Answered' /\ pc' = "returned"
      BY <1>2, <2>2 DEF Compute, Answered
    <3> QED
      BY <1>1, <1>2, <3>6, <3>7, <3>8 DEF TypeOK
  <2> QED
    BY <2>1, <2>2
<1>5. Placed'
  BY <1>1, <1>2 DEF Placed, Before
<1>6. Returned'
  BY <1>2, <1>3 DEF Returned, Answered, Compute
<1>7. Bounded'
  BY <1>2 DEF IInv, Bounded, Before
<1> QED
  BY <1>4, <1>5, <1>6, <1>7 DEF IInv

(* The triples of a call that has returned stand for all rows of the dump. *)
LEMMA Always == Spec => []IInv
<1>1. IInv /\ UNCHANGED vars => IInv'
  <2> SUFFICES ASSUME IInv, UNCHANGED vars PROVE IInv'
    OBVIOUS
  <2>1. TypeOK'
    BY DEF vars, IInv, TypeOK, Answered
  <2>2. Placed'
    BY DEF vars, IInv, Placed, Before
  <2>3. Returned'
    BY DEF vars, IInv, Returned, Answered
  <2>4. Bounded'
    BY DEF vars, IInv, Bounded, Before
  <2> QED
    BY <2>1, <2>2, <2>3, <2>4 DEF IInv
<1>2. IInv /\ [Next]_vars => IInv'
  BY <1>1, PlaceInv, ComputeInv DEF Next
<1> QED
  BY InitInv, <1>2, PTL DEF Spec

-----------------------------------------------------------------------------
(* total_time is exact for every dump, in whatever order the rows come.     *)
THEOREM TotalTimeAlways == Spec => []TotalTime
<1>1. IInv => TotalTime
  <2> SUFFICES ASSUME IInv, Answered PROVE durations.total_time = Span(Dates)
    BY DEF TotalTime
  <2>1. durations.total_time = Span(DatesIn(services_by_source)) /\ next = Len(payloads) + 1
    BY DEF IInv, Returned
  <2>2. DatesIn(services_by_source) = Dates
    BY <2>1 DEF IInv, Placed, Dates, Rows
  <2> QED
    BY <2>1, <2>2
<1> QED
  BY <1>1, Always, PTL

(* Without a date that two buckets share, the dates of each bucket are all there. *)
LEMMA BucketComplete ==
    ASSUME IInv, Answered, NoSharedDate, NEW k \in Buckets
    PROVE  DatesOf(services_by_source, k) = BucketDates(k)
<1>1. Before(next) = Rows
  BY DEF IInv, Returned, Rows
<1>2. DatesIn(services_by_source) = Dates
  BY <1>1 DEF IInv, Placed, Dates
<1>3. \A u \in services_by_source : \E r \in Rows : u = [key |-> KeyOf(r), date |-> r.date]
  BY <1>1 DEF IInv, Placed
<1>4. ASSUME NEW d \in DatesOf(services_by_source, k) PROVE d \in BucketDates(k)
  BY <1>3 DEF DatesOf, DatesIn, BucketDates
<1>5. ASSUME NEW r \in Rows, KeyOf(r) = k PROVE r.date \in DatesOf(services_by_source, k)
  <2>1. PICK u \in services_by_source : u.date = r.date
    BY <1>2 DEF DatesIn, Dates
  <2>2. PICK s \in Rows : u = [key |-> KeyOf(s), date |-> s.date]
    BY <1>3
  <2>3. u.key = k
    BY <1>5, <2>1, <2>2 DEF NoSharedDate
  <2> QED
    BY <2>1, <2>3 DEF DatesOf, DatesIn
<1> QED
  BY <1>4, <1>5 DEF BucketDates

(* The durations are exact for every dump in which no two buckets share a date. *)
THEOREM ExactUnlessSharedAlways == Spec => []ExactUnlessShared
<1>1. IInv => ExactUnlessShared
  <2> SUFFICES ASSUME IInv, Answered, NoSharedDate
               PROVE  /\ durations.buckets = Spans
                      /\ durations.total_time_in_services = SumOf(Spans)
    BY DEF ExactUnlessShared
  <2> DEFINE computed == [k \in KeysIn(services_by_source) |->
                              Span(DatesOf(services_by_source, k))]
  <2>1. durations.buckets = computed /\ durations.total_time_in_services = SumOf(computed)
    BY DEF IInv, Returned
  <2>2. KeysIn(services_by_source) = Buckets
    BY DEF IInv, Returned, Placed, Buckets, Rows
  <2>3. \A k \in Buckets : DatesOf(services_by_source, k) = BucketDates(k)
    BY BucketComplete
  <2>4. computed = Spans
    BY <2>2, <2>3 DEF Spans
  <2> QED
    BY <2>1, <2>4
<1> QED
  BY <1>1, Always, PTL

-----------------------------------------------------------------------------
(* Every variable has its type; what the function answers are natural numbers *)
(* for some of the keys, their sum, and another natural number.               *)
THEOREM TypeAlways == Spec => []TypeOK
<1>1. IInv => TypeOK
  BY DEF IInv
<1> QED
  BY <1>1, Always, PTL

(* Every bucket of the dump has a duration, and none is longer than the time *)
(* between its first and its last status, whatever dates were left out.      *)
THEOREM NeverTooLongAlways == Spec => []NeverTooLong
<1>1. IInv => NeverTooLong
  <2> SUFFICES ASSUME IInv, Answered
               PROVE  /\ DOMAIN durations.buckets = Buckets
                      /\ \A k \in Buckets : durations.buckets[k] \in 0..Spans[k]
    BY DEF NeverTooLong
  <2>1. /\ Before(next) = Rows /\ Placed
        /\ durations.buckets = [k \in KeysIn(services_by_source) |-> Span(DatesOf(services_by_source, k))]
    BY DEF IInv, Returned, Rows
  <2>2. KeysIn(services_by_source) = Buckets
    BY <2>1 DEF Placed, Buckets
  <2>3. PICK b \in Nat : \A r \in Rows : r.date <= b
    BY <2>1 DEF IInv, Bounded
  <2>4. \A r \in Rows : r.date \in Nat
    <3>1. payloads \in Seq(Row)
      BY DEF IInv, TypeOK
    <3> QED
      BY <3>1, RowsAreRows DEF IInv, Rows, Before
  <2>5. ASSUME NEW k \in Buckets PROVE Span(DatesOf(services_by_source, k)) \in 0..Spans[k]
    <3>1. DatesOf(services_by_source, k) \subseteq BucketDates(k)
      BY <2>1 DEF Placed, DatesOf, DatesIn, BucketDates
    <3>2. DatesOf(services_by_source, k) # {}
      <4>1. PICK t \in services_by_source : t.key = k
        BY <2>2 DEF KeysIn
      <4> QED
        BY <4>1 DEF DatesOf, DatesIn
    <3>3. BucketDates(k) \subseteq Nat /\ \A d \in BucketDates(k) : d <= b
      BY <2>3, <2>4 DEF BucketDates
    <3>4. Span(DatesOf(services_by_source, k)) \in 0..Span(BucketDates(k))
      BY <3>1, <3>2, <3>3, SpanMonotone
    <3> QED
      BY <3>4 DEF Spans
  <2> QED
    BY <2>1, <2>2, <2>5
<1> QED
  BY <1>1, Always, PTL
=============================================================================
