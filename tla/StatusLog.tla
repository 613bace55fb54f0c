------------------------------ MODULE StatusLog ------------------------------
(***************************************************************************)
(* What process_payload_status promises its caller: the messages of each   *)
(* batch are settled in order and once each, a value that fails validation *)
(* is ignored, and a message is a success at the moment its status is      *)
(* recorded and only then.  A value that raises at app.py:104 stops its    *)
(* batch.                                                                  *)
(***************************************************************************)
EXTENDS Naturals, Sequences

CONSTANTS Tasks, Batches, Ignored

VARIABLES batch, settled, recorded

vars == <<batch, settled, recorded>>

Init ==
    /\ batch \in [Tasks -> Batches]
    /\ settled = [t \in Tasks |-> 0]
    /\ recorded = {}

(* The task deals with its next message, whose kind satisfies K. *)
Settle(t, K) ==
    /\ settled[t] < Len(batch[t])
    /\ batch[t][settled[t] + 1].kind \in K
    /\ settled' = [settled EXCEPT ![t] = @ + 1]
    /\ UNCHANGED batch

Ignore(t) == Settle(t, Ignored) /\ UNCHANGED recorded
Reject(t) == Settle(t, {"good", "bad_date"}) /\ UNCHANGED recorded
Record(t) == Settle(t, {"good"}) /\ recorded' = recorded \cup {<<t, settled'[t]>>}

Next == \E t \in Tasks : Ignore(t) \/ Reject(t) \/ Record(t)

Spec == Init /\ [][Next]_vars
=============================================================================
