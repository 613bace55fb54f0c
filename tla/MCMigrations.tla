----------------------------- MODULE MCMigrations -----------------------------
(* A small instance of Migrations: a month that ends, two statuses, one new name. *)
EXTENDS Migrations

CONSTANTS ingress, success, extra

TwoServices == <<ingress, success>>
OneSource == <<ingress>>
OneStatus == <<success>>

(* The 30th and 31st of January, the 1st and 2nd of February. *)
MonthEnd == <<20200130, 20200131, 20200201, 20200202>>
=============================================================================
