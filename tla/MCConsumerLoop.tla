--------------------------- MODULE MCConsumerLoop ---------------------------
(* A small instance of ConsumerLoop for TLC. *)
EXTENDS ConsumerLoop

CONSTANTS p1, p2

(* The first message of the second partition ends its batch's coroutine. *)
FirstOfSecond == {<<p2, 1>>}
=============================================================================
