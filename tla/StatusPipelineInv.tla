-------------------------- MODULE StatusPipelineInv --------------------------
(* The inductive invariant behind the safety properties of StatusPipeline. *)
EXTENDS StatusPipeline

Storing == {"insert", "partition", "create_table"}
Naming == {"column", "add", "recheck", "refresh"} \cup Storing

(* What a process remembers of a name table is in the table. *)
MemoryInv ==
    /\ \A p \in Processes : \A c \in Columns : cached[p][c] \subseteq names[c]
    /\ \A t \in Tasks : pc[t] = "refresh" => snapshot[t] \subseteq names[Column(t)]

(* Every message from the current one on waits for its verdict. *)
PositionInv ==
    \A t \in Tasks : \A i \in DOMAIN batch[t] : i >= idx[t] => verdict[t][i] = "waiting"

(* The payload id a task holds is drawn, and is nobody else's. *)
PayloadIdInv ==
    \A t \in Tasks : pc[t] \notin Idle =>
        /\ sps[t].payload_id <= nextId["payloads"]
        /\ \A p \in payloads : p.id = sps[t].payload_id => p.request_id = Msg(t).request_id

(* The name ids of the columns before col are those of the message's names. *)
ColumnResolved(t, c) ==
    IF Name(t, c) = None THEN sps[t].ids[c] = NoId
    ELSE [id |-> sps[t].ids[c], name |-> Name(t, c)] \in names[c]

NameIdsInv ==
    \A t \in Tasks :
        /\ pc[t] \in Naming => \A i \in 1..(col[t] - 1) : ColumnResolved(t, ColumnOrder[i])
        /\ pc[t] \in Storing => col[t] = 4
        /\ pc[t] \notin Idle => \A c \in Columns : Name(t, c) = None => sps[t].ids[c] = NoId

AttributionInv ==
    /\ TypeOK /\ TablesInv /\ MemoryInv /\ PayloadIdInv /\ NameIdsInv /\ Attribution

(* As long as no call made for the current message has failed, the races it *)
(* loses leave behind what its next attempt needs.                          *)
UnfaultedInv ==
    \A t \in Tasks : Current(t) \notin faulted =>
        /\ pc[t] = "reget" => Known(t) # {}
        /\ pc[t] \in Naming => \E p \in payloads : p.id = sps[t].payload_id
        /\ pc[t] = "recheck" => Lists(names[Column(t)], Name(t, Column(t)))
        /\ pc[t] = "refresh" => Lists(snapshot[t], Name(t, Column(t)))
        /\ pc[t] = "insert" /\ try[t] > 1 => Msg(t).day \in partitions

(* An UPDATE under way is that of a message whose payload exists, and sets *)
(* nothing but columns of the message.                                     *)
UpdatesInv ==
    \A u \in updates :
        LET m == batch[u.task][u.pos]
        IN /\ u.pos \in DOMAIN batch[u.task]
           /\ u.request_id = m.request_id
           /\ \A a \in Attrs : u.attrs[a] \in {None, m.attrs[a]}
           /\ \E p \in payloads : p.request_id = u.request_id

(* From the names on, the payload has what the message supplies, or its own *)
(* UPDATE is under way: that of another message may still fail.             *)
ColumnStored(t, i, a) ==
    \/ \E p \in payloads : p.request_id = batch[t][i].request_id /\ p.attrs[a] # None
    \/ \E u \in updates : u.task = t /\ u.pos = i /\ u.attrs[a] # None

ColumnsInv ==
    \A t \in Tasks : \A i \in DOMAIN batch[t] : \A a \in Attrs :
        /\ verdict[t][i] = "success" \/ (i = idx[t] /\ pc[t] \in Naming)
        /\ batch[t][i].attrs[a] # None
        /\ <<t, i>> \notin faulted
        => ColumnStored(t, i, a)

IInv ==
    /\ AttributionInv /\ PositionInv /\ UnfaultedInv
    /\ UpdatesInv /\ ColumnsInv /\ PayloadsAttributed
=============================================================================
