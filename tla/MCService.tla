------------------------------- MODULE MCService -------------------------------
(* A small instance of HealthCheck, ReadApi and Retention beside the pipeline. *)
EXTENDS HealthCheck, TLC

CONSTANTS r1, r2, old, new, v1, t1, p1, probe, user

OneProcess == [t \in Tasks |-> p1]
OneSeed == [c \in Columns |-> {[id |-> 1, name |-> old]}]

Of(r, sv, so, st, d) ==
    [kind |-> "good", request_id |-> r, attrs |-> [a \in Attrs |-> None], day |-> d,
     name |-> ("service" :> sv @@ "source" :> so @@ "status" :> st)]

(* Statuses of tomorrow and of yesterday, or of today; FirstDay is 2. *)
ServiceBatches == {<<Of(r1, new, None, old, 3), Of(r1, old, None, old, 1)>>, <<Of(r2, old, new, new, 2)>>}

Query1(op, r, sv, d) ==
    [op |-> op, request_id |-> r, attrs |-> [a \in Attrs |-> None], days |-> d, page |-> 0, page_size |-> 2,
     name |-> ("service" :> sv @@ "source" :> None @@ "status" :> None)]

UserQueries == {Query1("get", r1, None, Days), Query1("statuses", None, new, {1, 3})}

Days4 == 1..4
FirstTwo == 1..2
=============================================================================
