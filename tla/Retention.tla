------------------------------ MODULE Retention ------------------------------
(***************************************************************************)
(* cron-job.sh beside the tracker processes of StatusPipeline: six psql    *)
(* commands, each a transaction of its own, that delete what was created   *)
(* RETENTION_DAYS ago, create tomorrow's partition of payload_statuses and *)
(* drop the partition whose day has passed.  Partitions go by the date of  *)
(* a message, the deletions by the time at which a row was created.        *)
(***************************************************************************)
EXTENDS StatusPipeline

CONSTANTS
    RETENTION_DAYS,
    FirstDay, LastDay,  \* the days that pass
    MaxNights           \* bound on the runs of the job

ASSUME RetentionAssumption ==
    /\ RETENTION_DAYS \in Nat
    /\ Days \subseteq Int /\ FirstDay \in Days /\ LastDay \in Days
    /\ MaxNights \in Nat

VARIABLES
    today,
    born,    \* the day on which each row was created, also of deleted rows
    cron,    \* the next command of the job
    nights   \* how often the job has been started

jobVars == <<today, born, cron, nights>>
retentionVars == <<vars, jobVars>>

PayloadKey(p) == <<"payload", p.id, p.request_id>>
StatusKey(s) == <<"status", s.task, s.pos, s.try>>
Keys == {PayloadKey(p) : p \in payloads} \cup {StatusKey(s) : s \in statuses}

RetentionInit ==
    /\ Init
    /\ today = FirstDay /\ born = <<>>
    /\ cron = "idle" /\ nights = 0

(* created_at is set by default when a row is inserted. *)
Stamp ==
    /\ born' = [k \in DOMAIN born \cup Keys' |-> IF k \in DOMAIN born THEN born[k] ELSE today]
    /\ UNCHANGED <<today, cron, nights>>

-----------------------------------------------------------------------------
(* Mutant of Cutoff: one day short. *)
LateCutoff == today - RETENTION_DAYS + 1

(* NOW() - RETENTION_DAYS: rows of earlier days are deleted, and those of the *)
(* day itself that were created before the time of day.                       *)
Cutoff == today - RETENTION_DAYS

Outdated(key) ==
    LET rows == DOMAIN key
    IN {{x \in rows : born[key[x]] < Cutoff} \cup S : S \in SUBSET {x \in rows : born[key[x]] = Cutoff}}

(* Mutant of DropDay: the retention days are not subtracted. *)
DropToday == today

(* The day whose partition drop_partition names. *)
DropDay == today - RETENTION_DAYS

Follow == [idle |-> "statuses", statuses |-> "payloads", payloads |-> "create",
           create |-> "drop", drop |-> "idle"]

StartJob ==
    /\ cron = "idle" /\ nights < MaxNights
    /\ nights' = nights + 1
    /\ cron' = Follow[cron]
    /\ UNCHANGED <<vars, today, born>>

(* Each command of the job; VACUUM changes nothing that can be seen. *)
Command(payloads2, statuses2, partitions2) ==
    /\ payloads' = payloads2 /\ statuses' = statuses2 /\ partitions' = partitions2
    /\ UNCHANGED <<names, nextId, memVars, taskVars, logVars, faultVars>>

DeleteStatuses ==
    /\ cron = "statuses"
    /\ \E D \in Outdated([s \in statuses |-> StatusKey(s)]) : Command(payloads, statuses \ D, partitions)

(* ON DELETE CASCADE takes a payload's statuses with it. *)
DeletePayloads ==
    /\ cron = "payloads"
    /\ \E D \in Outdated([p \in payloads |-> PayloadKey(p)]) :
          Command(payloads \ D, {s \in statuses : \A p \in D : p.id # s.payload_id}, partitions)

CreateTomorrow ==
    /\ cron = "create"
    /\ Command(payloads, statuses, partitions \cup ({today + 1} \cap Days))

DropPartition ==
    /\ cron = "drop"
    /\ Command(payloads, {s \in statuses : s.day # DropDay}, partitions \ {DropDay})

(* The script goes on after a command that failed. *)
CommandFails == cron # "idle" /\ UNCHANGED vars

JobStep ==
    /\ DeleteStatuses \/ DeletePayloads \/ CreateTomorrow \/ DropPartition \/ CommandFails
    /\ cron' = Follow[cron]
    /\ UNCHANGED <<today, born, nights>>

Midnight ==
    /\ today < LastDay
    /\ today' = today + 1
    /\ UNCHANGED <<vars, born, cron, nights>>

PipelineStep == Next /\ Stamp

RetentionStep == PipelineStep \/ StartJob \/ JobStep \/ Midnight

RetentionSpec == RetentionInit /\ [][RetentionStep]_retentionVars

-----------------------------------------------------------------------------
Old(day) == day + RETENTION_DAYS <= today
OldPayload(r) == \E k \in DOMAIN born : k[1] = "payload" /\ k[3] = r /\ Old(born[k])

(***************************************************************************)
(* A status disappears only when it, its date or its payload is as old as  *)
(* the retention: DELETE, its cascade and the dropped partition spare the  *)
(* recent statuses of recent payloads, wherever the pipeline is.           *)
(***************************************************************************)
OnlyOldDeleted ==
    [][\A s \in statuses \ statuses' :
          Old(born[StatusKey(s)]) \/ Old(s.day) \/ OldPayload(Source(s).request_id)]_retentionVars

(***************************************************************************)
(* Cleaning up beside the pipeline costs a well-formed message whose calls *)
(* do not fail only if its date or a payload of its request is that old.   *)
(***************************************************************************)
CleanupLoss ==
    \A t \in Tasks : \A i \in DOMAIN batch[t] :
        /\ verdict[t][i] = "error" /\ batch[t][i].kind = "good" /\ <<t, i>> \notin faulted
        => Old(batch[t][i].day) \/ OldPayload(batch[t][i].request_id)
=============================================================================
