-------------------------- MODULE MCStatusPipeline --------------------------
(* Small instances of StatusPipeline for TLC. *)
EXTENDS StatusPipelineInv, TLC, FiniteSets

CONSTANTS r1, r2, old, new, v1, v2, t1, t2, t3, p1, p2, today, other

(* Every name table holds one name that the processes have cached. *)
OneSeed == [c \in Columns |-> {[id |-> 1, name |-> old]}]

TwoProcesses == [t \in Tasks |-> IF t = t1 THEN p1 ELSE p2]
SameProcess == [t \in Tasks |-> p1]
ThreeInTwo == [t \in Tasks |-> IF t = t3 THEN p2 ELSE p1]

Of(k, r, sv, so, st, a, d) ==
    [kind |-> k, request_id |-> r, attrs |-> a, day |-> d,
     name |-> ("service" :> sv @@ "source" :> so @@ "status" :> st)]

NoAttrs == [a \in Attrs |-> None]
With(v) == [a \in Attrs |-> v]

(* One request; new names in one, two or no tables; open and missing days. *)
NewService == Of("good", r1, new, None, old, With(v1), today)
NewSource == Of("good", r1, old, new, old, With(v2), other)
AllNew == Of("good", r1, new, new, new, NoAttrs, other)
NewStatus == Of("good", r1, old, None, new, NoAttrs, other)
AllOld == Of("good", r1, old, old, old, With(v2), today)
OtherRequest == Of("good", r2, new, None, new, With(v1), other)

RaceBatches == {<<NewSource>>, <<NewStatus>>, <<OtherRequest>>}
FaultBatches == {<<NewService>>, <<AllNew>>, <<OtherRequest>>}

(* Exchanging two tasks of the same process changes nothing. *)
Interchangeable == Permutations({t1, t2})

(* Batches of several values, with those that the validation turns away. *)
Turned(k) == [AllOld EXCEPT !.kind = k]
MixedBatches ==
    {<<NewSource, NewService>>, <<NewService, Turned("bad_date"), AllOld>>,
     <<Turned("falsy"), AllOld, Turned("not_an_object"), NewService>>}
       \cup {<<Turned(k)>> : k \in Ignored}

LiveBatches == {<<AllNew>>, <<AllOld, Turned("not_an_object"), AllOld>>, <<NewSource>>}
=============================================================================
