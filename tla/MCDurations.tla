---------------------------- MODULE MCDurations ----------------------------
(* Small dumps for Durations. *)
EXTENDS Durations

CONSTANTS MaxRows, LastDate

(* Every dump of at most MaxRows rows, in every order. *)
SmallRows == [service : Services, source : Sources \cup {None}, date : 0..LastDate]
SmallDumps == UNION {[1..n -> SmallRows] : n \in 0..MaxRows}
=============================================================================
