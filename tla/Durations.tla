------------------------------ MODULE Durations ------------------------------
(***************************************************************************)
(* _get_durations (api/payloads.py): how long each service and source      *)
(* worked on a request, computed from the dump of its stored statuses.  The *)
(* TripleSet of utils.py is a list, but no triple enters it twice and its  *)
(* order is lost in the sorting, so that a set stands for it here.         *)
(***************************************************************************)
EXTENDS Integers, Sequences

LOCAL INSTANCE FiniteSetsExt
LOCAL INSTANCE Functions

CONSTANTS
    Services, Sources,
    Undefined,   \* the source that stands for a missing one
    None,        \* an absent value
    Inputs       \* the dumps that may be handed over, in the order of the query

Row == [service : Services, source : Sources \cup {None}, date : Nat]

ASSUME InputsAssumption == None \notin Sources /\ Inputs \subseteq Seq(Row)

VARIABLES
    payloads,    \* the dump
    next,        \* the row that the loop places next
    services_by_source,
    durations,
    pc

vars == <<payloads, next, services_by_source, durations, pc>>

(* Mutant of KeyOf: payload.get('source') without a default. *)
KeyWithNone(row) == <<row.service, row.source>>

(* The bucket of a row. *)
KeyOf(row) == <<row.service, IF row.source = None THEN Undefined ELSE row.source>>

Keys == Services \X (Sources \cup {Undefined})
Triple == [key : Keys, date : Nat]

KeysIn(triples) == {t.key : t \in triples}
DatesIn(triples) == {t.date : t \in triples}
DatesOf(triples, key) == DatesIn({t \in triples : t.key = key})

(* values[-1] - values[0] of the sorted values. *)
Span(dates) == Max(dates) - Min(dates)

(* The sum of the values of a function. *)
SumOf(f) == FoldFunction(+, 0, f)

(* The function has nothing to answer before Compute, and for an empty dump. *)
Nothing == [buckets |-> <<>>, total_time_in_services |-> None, total_time |-> None]

Init ==
    /\ payloads \in Inputs
    /\ next = 1
    /\ services_by_source = {}
    /\ durations = Nothing
    /\ pc = "place"

(* Mutant of IsNew: `and` between the two tests. *)
IsNewInBoth(triples, t) == t.key \notin KeysIn(triples) /\ t.date \notin DatesIn(triples)

(* Mutant of IsNew: the test of the key is missing. *)
IsNewDate(triples, t) == t.date \notin DatesIn(triples)

(* Mutant of IsNew: the test of the date is missing. *)
IsNewKey(triples, t) == t.key \notin KeysIn(triples)

(* payloads.py:88: a new bucket, or a date that no bucket has. *)
IsNew(triples, t) == t.key \notin KeysIn(triples) \/ t.date \notin DatesIn(triples)

(* One iteration of the loop that places the rows into buckets. *)
Place ==
    LET t == [key |-> KeyOf(payloads[next]), date |-> payloads[next].date]
    IN
    /\ pc = "place"
    /\ next <= Len(payloads)
    /\ services_by_source' = IF IsNew(services_by_source, t)
                             THEN services_by_source \cup {t} ELSE services_by_source
    /\ next' = next + 1
    /\ UNCHANGED <<payloads, durations, pc>>

(* The rest of the function; nothing is computed for an empty dump. *)
Compute ==
    LET buckets == [k \in KeysIn(services_by_source) |-> Span(DatesOf(services_by_source, k))]
    IN
    /\ pc = "place"
    /\ next > Len(payloads)
    /\ IF payloads = <<>>
       THEN UNCHANGED durations
       ELSE durations' = [buckets |-> buckets,
                          total_time_in_services |-> SumOf(buckets),
                          total_time |-> Span(DatesIn(services_by_source))]
    /\ pc' = "returned"
    /\ UNCHANGED <<payloads, next, services_by_source>>

Next == Place \/ Compute

Spec == Init /\ [][Next]_vars

-----------------------------------------------------------------------------
(* What the dump says, without the buckets: the definition to compare with. *)
Before(n) == {payloads[i] : i \in 1..(n - 1)}
Rows == Before(Len(payloads) + 1)
Buckets == {KeyOf(r) : r \in Rows}
Dates == {r.date : r \in Rows}
BucketDates(key) == {r.date : r \in {s \in Rows : KeyOf(s) = key}}
Spans == [k \in Buckets |-> Span(BucketDates(k))]

Answered == pc = "returned" /\ payloads # <<>>

(* Every variable has its type.  What is answered gives a natural number to *)
(* some of the keys, the sum of these numbers, and another natural number;  *)
(* the code's subtractions of dates never go below zero.                    *)
TypeOK ==
    /\ payloads \in Seq(Row)
    /\ next \in 1..(Len(payloads) + 1)
    /\ services_by_source \subseteq Triple
    /\ pc \in {"place", "returned"}
    /\ IF Answered
       THEN /\ DOMAIN durations.buckets \subseteq Keys
            /\ durations \in [buckets : [DOMAIN durations.buckets -> Nat],
                              total_time_in_services : {SumOf(durations.buckets)},
                              total_time : Nat]
       ELSE durations = Nothing

(***************************************************************************)
(* total_time is the time between the first and the last status of the     *)
(* request, although rows whose date is already there may be left out.     *)
(***************************************************************************)
TotalTime == Answered => durations.total_time = Span(Dates)

(***************************************************************************)
(* Every service and source with a status has a duration, no other has     *)
(* one, and it is never negative and never longer than the time between    *)
(* the first and the last status of that bucket.                           *)
(***************************************************************************)
NeverTooLong ==
    Answered =>
        /\ DOMAIN durations.buckets = Buckets
        /\ \A k \in Buckets : durations.buckets[k] \in 0..Spans[k]

(* No two buckets have a status of the same date. *)
NoSharedDate == \A r, s \in Rows : r.date = s.date => KeyOf(r) = KeyOf(s)

(***************************************************************************)
(* The durations are exact when no two buckets share a date: then leaving  *)
(* out the dates seen before removes nothing but repetitions.              *)
(***************************************************************************)
ExactUnlessShared ==
    Answered /\ NoSharedDate =>
        /\ durations.buckets = Spans
        /\ durations.total_time_in_services = SumOf(Spans)

(***************************************************************************)
(* "compute duration for each bucket of service and source"                *)
(* (payloads.py:93): the duration of a bucket is the time between its      *)
(* first and its last status.  The code does not keep this, because dates  *)
(* are looked up among those of all buckets.                               *)
(***************************************************************************)
BucketDurations == Answered => durations.buckets = Spans
=============================================================================
