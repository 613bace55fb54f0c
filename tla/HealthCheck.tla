----------------------------- MODULE HealthCheck -----------------------------
(***************************************************************************)
(* GET /health (api/health.py), which OpenShift asks: it tries in turn the *)
(* database, Kafka, Redis, the API's own endpoints and Prometheus, and     *)
(* each of them up to RETRY_MAX times before it reports a failure.         *)
(***************************************************************************)
EXTENDS ReadApi

CONSTANTS
    Probe,          \* the client that the check is for the API
    RETRY_MAX,      \* KAFKA_, DB_, REDIS_RETRY_MAX, MAX_ENDPOINT_CHECK_RETRY
    USE_REDIS, DISABLE_PROMETHEUS,
    MaxRequests     \* bound on the requests and checks of a behaviour

ASSUME HealthAssumption ==
    /\ Probe \in Clients
    /\ RETRY_MAX \in Nat \ {0}
    /\ USE_REDIS \in BOOLEAN /\ DISABLE_PROMETHEUS \in BOOLEAN
    /\ MaxRequests \in Nat

VARIABLE health   \* the stage of the check, its attempts, a payload of /payloads

serviceVars == <<retentionVars, api, outages, health>>

HealthInit ==
    ApiInit /\ health = [stage |-> "idle", tries |-> 0, request_id |-> None]

External == {"db", "kafka", "redis", "metrics"}
Endpoints == {"payloads", "payload", "statuses"}

(* The stages in their order, without those that are switched off; the second *)
(* endpoint is asked about a payload that the first has shown.                 *)
NextStage(shown) ==
    CASE health.stage = "db" -> "kafka"
      [] health.stage = "kafka" -> IF USE_REDIS THEN "redis" ELSE "payloads"
      [] health.stage = "redis" -> "payloads"
      [] health.stage = "payloads" -> IF shown = None THEN "statuses" ELSE "payload"
      [] health.stage = "payload" -> "statuses"
      [] health.stage = "statuses" -> IF DISABLE_PROMETHEUS THEN "passed" ELSE "metrics"
      [] health.stage = "metrics" -> "passed"

Pass(shown) ==
    health' = [stage |-> NextStage(shown), tries |-> 0, request_id |-> shown]

(* Mutant of LastTry: off by one. *)
LastButOne == health.tries = RETRY_MAX - 2

LastTry == health.tries = RETRY_MAX - 1

(* The attempt did not succeed; after a pause comes the next, if there is one. *)
Miss ==
    health' = IF LastTry THEN [health EXCEPT !.stage = "failed"]
              ELSE [health EXCEPT !.tries = @ + 1]

(* db.bind.acquire, consumer.topics, redis_client.info, and /metrics. *)
Attempt ==
    /\ health.stage \in External
    /\ \/ Pass(health.request_id) /\ UNCHANGED outages
       \/ Miss /\ Outage
    /\ UNCHANGED api

(* The options of check_endpoint: a page of one, statuses of the last minute. *)
ProbeQuery ==
    [op |-> CASE health.stage = "payloads" -> "payloads" [] health.stage = "payload" -> "get"
              [] health.stage = "statuses" -> "statuses",
     request_id |-> IF health.stage = "payload" THEN health.request_id ELSE None,
     name |-> [k \in Columns |-> None], attrs |-> [a \in Attrs |-> None],
     days |-> IF health.stage = "statuses" THEN {today} ELSE Days, page |-> 0, page_size |-> 1]

CheckEndpoint ==
    /\ health.stage \in Endpoints
    /\ Ask(Probe, ProbeQuery)
    /\ UNCHANGED <<health, outages>>

(* The endpoint has answered: 200 passes, and /payloads may show a payload. *)
EndpointAnswers ==
    /\ health.stage \in Endpoints
    /\ api[Probe].at \in Ended
    /\ Becomes(Probe, Quiet)
    /\ \/ /\ api[Probe].at = "ok"
          /\ IF health.stage = "payloads" /\ api[Probe].entries # {}
             THEN \E p \in api[Probe].entries : Pass(p.request_id)
             ELSE Pass(health.request_id)
       \/ api[Probe].at # "ok" /\ Miss
    /\ UNCHANGED outages

(* The answer does not come within TIMEOUT_SECONDS. *)
EndpointTimeout ==
    /\ api[Probe].at \notin Ended \cup {"idle"}
    /\ Outage /\ Miss
    /\ Becomes(Probe, Quiet)

Requested ==
    Cardinality({c \in Clients \ {Probe} : api[c].at # "idle"}) + (IF health.stage = "idle" THEN 0 ELSE 1)

StartCheck ==
    /\ health.stage = "idle" /\ Requested < MaxRequests
    /\ health' = [health EXCEPT !.stage = "db"]
    /\ UNCHANGED <<api, outages>>

Check == StartCheck \/ Attempt \/ CheckEndpoint \/ EndpointAnswers \/ EndpointTimeout

ServiceNext ==
    \/ RetentionStep /\ UNCHANGED <<api, outages, health>>
    \/ UNCHANGED <<retentionVars, health>> /\
          \E c \in Clients :
             \/ ApiStep(c)
             \/ /\ c # Probe /\ Requested < MaxRequests
                /\ \E q \in Queries : Ask(c, q)
                /\ UNCHANGED outages
    \/ Check /\ UNCHANGED retentionVars

ServiceSpec == HealthInit /\ [][ServiceNext]_serviceVars

-----------------------------------------------------------------------------
(***************************************************************************)
(* The check fails only when as many attempts as it has were lost to an    *)
(* outage: new names, new partitions and the deletion of the very payload  *)
(* that it asks about make no attempt fail.                                *)
(***************************************************************************)
HealthFailsOnOutage == health.stage = "failed" => outages >= RETRY_MAX
=============================================================================
