-------------------------- MODULE MCCachedPipeline --------------------------
(* Small instances of CachedPipeline for TLC. *)
EXTENDS CachedPipeline, TLC

CONSTANTS r1, r2, old, new, received, success, v1, t1, t2, p1

OneProcess == [t \in Tasks |-> p1]

(* The statuses are known, the services and sources are the old one. *)
Known1 == ("service" :> {[id |-> 1, name |-> old]})
          @@ ("source" :> {[id |-> 1, name |-> old]})
          @@ ("status" :> {[id |-> 1, name |-> received], [id |-> 2, name |-> success]})

Of(r, sv, so, st, a, d) ==
    [kind |-> "good", request_id |-> r, attrs |-> [x \in Attrs |-> a], day |-> d,
     name |-> ("service" :> sv @@ "source" :> so @@ "status" :> st)]

Start == Of(r1, new, None, received, None, 1)
End == Of(r1, new, None, success, v1, 3)
Elsewhere1 == Of(r1, new, old, received, None, 4)
SameDate == Of(r1, old, None, success, None, 1)
OtherRequest == Of(r2, old, None, received, v1, 2)

(* One message for each of two coroutines: one request, or two. *)
RaceBatches == {<<Start>>, <<End>>, <<OtherRequest>>}

(* Several statuses of a request, for one coroutine and its metrics tasks. *)
SerialBatches == {<<Start, End>>, <<Elsewhere1, End>>, <<Start, SameDate>>}

Days4 == 1..4
Tasks12 == Permutations({t1, t2})
=============================================================================
