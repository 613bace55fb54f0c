------------------------------- MODULE ReadApi -------------------------------
(***************************************************************************)
(* The read API (api/payloads.py, api/statuses.py) beside the pipeline and *)
(* the cleanup.  A handler is a coroutine whose queries are transactions   *)
(* of their own: the rows are read first, the name tables that translate   *)
(* their ids after them.  Values come back by reference to their rows;     *)
(* which rows a page shows of those that match is left open.               *)
(***************************************************************************)
EXTENDS Retention, FiniteSets

CONSTANTS
    Clients,    \* those that send requests, one at a time
    Queries,    \* the requests they send
    MaxOutages  \* bound on failed queries and checks

(* GET /payloads, /payloads/{request_id} and /statuses with their filters. *)
Query == [op : {"payloads", "get", "statuses"}, request_id : RequestIds \cup {None},
          name : [Columns -> Names \cup {None}], attrs : [Attrs -> Values \cup {None}],
          days : SUBSET Days, page : Nat, page_size : Nat]

(* The filters that an endpoint does not have are left open. *)
Accepts(q) ==
    /\ q.op = "get" => q.days = Days /\ \A k \in Columns : q.name[k] = None
    /\ q.op = "statuses" => q.request_id = None

ASSUME ApiAssumption ==
    /\ Queries \subseteq Query /\ \A q \in Queries : Accepts(q)
    /\ MaxOutages \in Nat

VARIABLES
    api,      \* the request of each client
    outages   \* how many queries and checks have failed

NoQuery == [op |-> "none"]
Quiet == [at |-> "idle", query |-> NoQuery, pending |-> {}, ids |-> [c \in Columns |-> NoId],
          count |-> 0, rows |-> {}, entries |-> {}]

ApiInit == RetentionInit /\ api = [c \in Clients |-> Quiet] /\ outages = 0

(* The ways in which a request can have ended: 200, or 500. *)
Ended == {"ok", "raised", "failed"}

Becomes(c, r) == api' = [api EXCEPT ![c] = r]
Outage == outages < MaxOutages /\ outages' = outages + 1

-----------------------------------------------------------------------------
(* get only reads; search counts first, and a filter by name needs its id. *)
Ask(c, q) ==
    LET filters == IF q.op = "statuses" THEN {k \in Columns : q.name[k] # None} ELSE {}
    IN /\ api[c].at = "idle"
       /\ Becomes(c, [Quiet EXCEPT !.query = q, !.pending = filters,
                         !.at = IF q.op = "get" THEN "rows"
                                ELSE IF filters = {} THEN "count" ELSE "filter"])

(* statuses.py:40-55: a name that no table lists is answered at once. *)
ReadFilter(c) ==
    /\ api[c].at = "filter"
    /\ \E k \in api[c].pending :
          LET name == api[c].query.name[k]
          IN \/ /\ ~Lists(names[k], name)
                /\ Becomes(c, [api[c] EXCEPT !.at = "ok"])
             \/ /\ Lists(names[k], name)
                /\ Becomes(c, [api[c] EXCEPT !.ids[k] = IdOf(names[k], name),
                                  !.pending = @ \ {k},
                                  !.at = IF api[c].pending = {k} THEN "count" ELSE @])

(* Mutant of Matching: the filters by name are not added to the query. *)
MatchingDays(c) ==
    LET q == api[c].query
    IN CASE q.op = "payloads" -> {p \in payloads : \A a \in Attrs : q.attrs[a] \in {None, p.attrs[a]}}
         [] q.op = "get" -> {s \in statuses : \E p \in payloads :
                               p.id = s.payload_id /\ p.request_id = q.request_id}
         [] q.op = "statuses" -> {s \in statuses : s.day \in q.days}

(* The rows that the query's WHERE clauses select. *)
Matching(c) ==
    LET q == api[c].query
    IN CASE q.op = "payloads" -> {p \in payloads : \A a \in Attrs : q.attrs[a] \in {None, p.attrs[a]}}
         [] q.op = "get" -> {s \in statuses : \E p \in payloads :
                               p.id = s.payload_id /\ p.request_id = q.request_id}
         [] q.op = "statuses" -> {s \in statuses : /\ s.day \in q.days
                                                   /\ \A k \in Columns : api[c].ids[k] \in {NoId, s.ids[k]}}

CountRows(c) ==
    /\ api[c].at = "count"
    /\ Becomes(c, [api[c] EXCEPT !.at = "rows", !.count = Cardinality(Matching(c))])

(* LIMIT and OFFSET; get has neither. *)
PageLength(c) ==
    LET q == api[c].query
        left == Cardinality(Matching(c)) - q.page * q.page_size
    IN IF q.op = "get" THEN Cardinality(Matching(c))
       ELSE IF left < 0 THEN 0 ELSE IF left < q.page_size THEN left ELSE q.page_size

ReadRows(c) ==
    /\ api[c].at = "rows"
    /\ \E page \in {S \in SUBSET Matching(c) : Cardinality(S) = PageLength(c)} :
          IF page = {} \/ api[c].query.op = "payloads"
          THEN Becomes(c, [api[c] EXCEPT !.at = "ok", !.entries = page])
          ELSE Becomes(c, [api[c] EXCEPT !.at = "translate", !.rows = page])

(* Mutant of Table: the names that the process has cached. *)
CachedTable(k) == cached[CHOOSE p \in Processes : TRUE][k]

(* exec_baked(table_name) *)
Table(k) == names[k]

(* An id that its table does not list raises KeyError. *)
Translate(c) ==
    /\ api[c].at = "translate"
    /\ \E s \in api[c].rows :
          LET named == {k \in Columns : s.ids[k] # NoId}
              name(k) == (CHOOSE n \in Table(k) : n.id = s.ids[k]).name
          IN \/ /\ \A k \in named : \E n \in Table(k) : n.id = s.ids[k]
                /\ Becomes(c, [api[c] EXCEPT !.rows = @ \ {s},
                      !.entries = @ \cup {[row |-> s,
                          name |-> [k \in Columns |-> IF k \in named THEN name(k) ELSE None]]},
                      !.at = IF api[c].rows = {s} THEN "ok" ELSE @])
             \/ /\ \E k \in named : \A n \in Table(k) : n.id # s.ids[k]
                /\ Becomes(c, [api[c] EXCEPT !.at = "raised"])

(* A query raises, and the handler with it. *)
QueryFails(c) ==
    /\ api[c].at \notin Ended \cup {"idle"}
    /\ Outage
    /\ Becomes(c, [api[c] EXCEPT !.at = "failed"])

ApiStep(c) ==
    \/ (ReadFilter(c) \/ CountRows(c) \/ ReadRows(c) \/ Translate(c)) /\ UNCHANGED outages
    \/ QueryFails(c)

-----------------------------------------------------------------------------
(* The message of a row, unless it has been deleted and stored again. *)
Told(e) == Source(e.row)

(***************************************************************************)
(* An answer shows each status under the service, source and status of the *)
(* message it was stored for, and only what was asked for, even of rows    *)
(* that new names were added for or that were deleted meanwhile.           *)
(***************************************************************************)
AnswersTrue ==
    \A c \in Clients : api[c].at = "ok" /\ api[c].query.op # "payloads" =>
        \A e \in api[c].entries :
            LET q == api[c].query
            IN /\ e.name = Told(e).name
               /\ q.request_id \in {None, Told(e).request_id}
               /\ Told(e).day \in q.days
               /\ \A k \in Columns : q.name[k] \in {None, e.name[k]}

(***************************************************************************)
(* No request ends in a KeyError: the names of the rows that a handler has *)
(* read are in the tables that it reads after them.                        *)
(***************************************************************************)
NoKeyError == \A c \in Clients : api[c].at # "raised"
=============================================================================
