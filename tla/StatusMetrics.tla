---------------------------- MODULE StatusMetrics ----------------------------
(***************************************************************************)
(* evaluate_status_metrics (app.py): the task that is spawned for every    *)
(* message when Redis and Prometheus are in use.  It polls the cache until *)
(* the service of its message appears, and observes an elapsed time once   *)
(* the service has both received and finished the request.                 *)
(***************************************************************************)
EXTENDS RequestCache

CONSTANTS
    METRIC_FETCH_RETRY_COUNT,
    DISABLE_PROMETHEUS,
    Received, Success      \* the status names 'received' and 'success'

ASSUME MetricsAssumption ==
    METRIC_FETCH_RETRY_COUNT \in Nat /\ DISABLE_PROMETHEUS \in BOOLEAN /\ Days \subseteq Int

VARIABLE metric   \* metric[m]: the metrics task of message m = <<t, i>>

Messages == Tasks \X (1..LastPosition)

MetricsInit ==
    metric = [m \in Messages |-> [at |-> "off", retries |-> 0, counted |-> FALSE, elapsed |-> None]]

Spawn(m) == metric' = IF DISABLE_PROMETHEUS THEN metric ELSE [metric EXCEPT ![m].at = "poll"]

MessageOf(m) == batch[m[1]][m[2]]

(* The entries of the message's service (BY_SERVICE), and those of its source. *)
OfService(m) == {e \in Entries(call[m].data) : e.name["service"] = MessageOf(m).name["service"]}
OfSource(m) == {e \in OfService(m) : e.name["source"] = MessageOf(m).name["source"]}

Passed(E) == {Received, Success} \subseteq {e.name["status"] : e \in E}

(* The time between the first and the last date, whatever the statuses. *)
Elapsed(E) ==
    LET dates == {e.date : e \in E}
    IN (CHOOSE d \in dates : \A x \in dates : x <= d)
       - (CHOOSE d \in dates : \A x \in dates : d <= x)

(* Mutant of Observed: the filter by source is dropped. *)
ObservedOfService(m) == IF Passed(OfService(m)) THEN Elapsed(OfService(m)) ELSE None

(* UPLOAD_TIME_ELAPSED_BY_SERVICE, or None when the stage is not finished. *)
Observed(m) == IF Passed(OfSource(m)) THEN Elapsed(OfSource(m)) ELSE None

(* app.py:53: poll again while the service is not there. *)
Poll(m) == OfService(m) = {} /\ metric[m].retries < METRIC_FETCH_RETRY_COUNT

(* Mutant of CountRetry: the increment is missing. *)
ForgetRetry(m) == UNCHANGED metric

CountRetry(m) == metric' = [metric EXCEPT ![m].retries = @ + 1]

(* The counter is incremented before data[service], which may raise KeyError. *)
EvaluateStatusMetrics(m) ==
    /\ metric[m].at = "poll"
    /\ call' = [call EXCEPT ![m] = NoCall]
    /\ \/ /\ At(m, "done") /\ Poll(m)
          /\ CountRetry(m)
       \/ /\ At(m, "done") /\ ~Poll(m)
          /\ metric' = [metric EXCEPT ![m].at = IF call[m].data # <<>> /\ OfService(m) = {}
                                                THEN "raised" ELSE "end",
                                      ![m].counted = call[m].data # <<>>,
                                      ![m].elapsed = Observed(m)]
       \/ /\ At(m, "failed")
          /\ metric' = [metric EXCEPT ![m].at = "raised"]

MetricsTypeOK ==
    metric \in [Messages -> [at : {"off", "poll", "raised", "end"},
                             retries : 0..METRIC_FETCH_RETRY_COUNT,
                             counted : BOOLEAN, elapsed : Int \cup {None}]]
=============================================================================
