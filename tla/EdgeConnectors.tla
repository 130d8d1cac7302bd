---------------------------- MODULE EdgeConnectors ----------------------------
(***************************************************************************)
(* The edge agent with a PostgreSQL and an OPC UA source: what a poll asks *)
(* for, what it accepts, and how far it moves the checkpoint.  The queue   *)
(* and its delivery are those of EdgeAgent.  Rows are committed and values *)
(* change while a poll waits; a poll that throws, fails or is killed       *)
(* leaves the checkpoint where it was.                                     *)
(*                                                                         *)
(* A checkpoint column is told by three functions of the value that the    *)
(* database orders by: what is stored of it, as the agent reads it, and    *)
(* the rank by which the agent compares what is stored.                    *)
(***************************************************************************)
EXTENDS Integers, SequencesExt

CONSTANTS Key,          \* values of the checkpoint column
          Column,       \* checkpoint columns: [stored, rank : Key -> Int]
          BatchSize,
          Node,         \* nodes that are read
          Time,         \* clocks of the devices and of the agent
          Value,        \* what a node may give: [source, server, usable]
          Null,
          MaxChanges,   \* bound: rows committed, values changed, clocks set
          MaxFaults     \* bound: failures and restarts

EdgeConnectorsAssumption ==
    /\ Key \subseteq Int /\ Time \subseteq Nat /\ Null \notin Key \cup Time
    /\ \A c \in Column : /\ c.stored \in [Key -> Key] /\ c.rank \in [Key -> Int]
                         /\ \A k \in Key : c.stored[k] <= k
    /\ Value \subseteq [source : Time \cup {Null}, server : Time \cup {Null}, usable : BOOLEAN]
    /\ BatchSize \in Nat \ {0} /\ {MaxChanges, MaxFaults} \subseteq Nat

VARIABLES column,       \* the checkpoint column of the query
          table,        \* rows as they were committed; `late' tells that a row
                        \* came behind what had been collected or asked for
          device,       \* value of each node, with its two timestamps
          clock,        \* of the agent
          checkpoint,   \* of the two sources
          poll,         \* the poll that runs, or whose turn it is
          queued,       \* batches queued, in order
          changes, faults

vars == <<column, table, device, clock, checkpoint, poll, queued, changes, faults>>

Connector == {"postgres", "opcua"}
Row == [key : Key, usable : BOOLEAN, late : BOOLEAN]
Points == UNION {[S -> Time] : S \in SUBSET Node}
Batch == [of : {"postgres"}, rows : SUBSET Nat, after : Key] \cup [of : {"opcua"}, points : Points]

Turn ==
    [of : Connector, phase : {"idle"}]
    \cup [of : Connector, phase : {"asked"}, observed : Time]
    \cup [of : {"postgres"}, phase : {"read", "archiving"}, rows : Seq(Nat)]
    \cup [of : {"opcua"}, phase : {"archiving"}, points : Points]

TypeOK ==
    /\ column \in Column
    /\ table \in Seq(Row)
    /\ device \in [Node -> Value] /\ clock \in Time
    /\ checkpoint \in [postgres : Key \cup {Null}, opcua : Points]
    /\ poll \in Turn
    /\ queued \in Seq(Batch)
    /\ changes \in 0..MaxChanges /\ faults \in 0..MaxFaults

Idle(source) == [of |-> source, phase |-> "idle"]

Init ==
    /\ column \in Column /\ table = <<>>
    /\ \E v \in Value : device = [n \in Node |-> v]
    /\ clock \in Time
    /\ checkpoint = [postgres |-> Null, opcua |-> <<>>]
    /\ poll = Idle("postgres") /\ queued = <<>> /\ changes = 0 /\ faults = 0

-----------------------------------------------------------------------------
(* The sources.                                                             *)
Changes == changes < MaxChanges /\ changes' = changes + 1

\* As far as the checkpoint is, or would be after what the poll has read.
Read == IF poll.of = "postgres" /\ poll.phase \in {"read", "archiving"} THEN poll.rows ELSE <<>>
Behind(k) ==
    \/ checkpoint.postgres # Null /\ k <= checkpoint.postgres
    \/ \E i \in DOMAIN Read : k <= table[Read[i]].key

Commit(k, usable) ==
    /\ Changes
    /\ table' = Append(table, [key |-> k, usable |-> usable, late |-> Behind(k)])
    /\ UNCHANGED <<column, device, clock, checkpoint, poll, queued, faults>>

Measure(n, v) ==
    /\ Changes /\ v # device[n] /\ device' = [device EXCEPT ![n] = v]
    /\ UNCHANGED <<column, table, clock, checkpoint, poll, queued, faults>>

SetClock(t) ==
    /\ Changes /\ t # clock /\ clock' = t
    /\ UNCHANGED <<column, table, device, checkpoint, poll, queued, faults>>

-----------------------------------------------------------------------------
(* The polls of the two connectors take turns.                              *)
Other(source) == IF source = "postgres" THEN "opcua" ELSE "postgres"
Over == poll' = Idle(Other(poll.of))

\* pollConnector, up to the answer of the source; the OPC UA connector takes
\* the time before it reads.
Start ==
    /\ poll.phase = "idle"
    /\ poll' = [of |-> poll.of, phase |-> "asked", observed |-> clock]
    /\ UNCHANGED <<column, table, device, clock, checkpoint, queued, changes, faults>>

\* The rows after the checkpoint in the order of the database, in which equal
\* ones come in any order, and no more than a batch.
Wanted == {r \in DOMAIN table : checkpoint.postgres = Null \/ table[r].key > checkpoint.postgres}

Query ==
    /\ poll.of = "postgres" /\ poll.phase = "asked"
    /\ \E rows \in SetToAllKPermutations(Wanted) :
         /\ Len(rows) = IF Cardinality(Wanted) < BatchSize THEN Cardinality(Wanted) ELSE BatchSize
         /\ \A i \in DOMAIN rows : \A r \in Wanted \ {rows[j] : j \in 1..i} :
              table[rows[i]].key <= table[r].key
         /\ IF rows = <<>> THEN Over
            ELSE poll' = [of |-> "postgres", phase |-> "read", rows |-> rows]
    /\ UNCHANGED <<column, table, device, clock, checkpoint, queued, changes, faults>>

\* checkpointValue and compareCheckpointValues
Stored(r) == column.stored[table[r].key]
Rank(k) == column.rank[k]

\* Variant: rows that the checkpoint had reached are accepted.
AnyFirst(r) == TRUE

\* The first row is beyond the checkpoint as it is stored.
FirstIsNew(r) == checkpoint.postgres # Null => Rank(Stored(r)) > Rank(checkpoint.postgres)

Increasing(rows) ==
    \A i \in 1 .. Len(rows) - 1 : Rank(Stored(rows[i])) < Rank(Stored(rows[i + 1]))

\* mapTabularRecords
AllUsable(rows) == \A i \in DOMAIN rows : table[rows[i]].usable

\* The checks of a poll: all of what was read is a batch, or the poll throws.
Accept ==
    /\ poll.of = "postgres" /\ poll.phase = "read"
    /\ IF FirstIsNew(poll.rows[1]) /\ Increasing(poll.rows) /\ AllUsable(poll.rows)
       THEN poll' = [poll EXCEPT !.phase = "archiving"] ELSE Over
    /\ UNCHANGED <<column, table, device, clock, checkpoint, queued, changes, faults>>

\* The time of a value: its source's, or its server's, or the agent's.
TimeOf(v) == IF v.source # Null THEN v.source
             ELSE IF v.server # Null THEN v.server ELSE poll.observed

Seen(n) == n \in DOMAIN checkpoint.opcua
Backwards(n) == Seen(n) /\ TimeOf(device[n]) < checkpoint.opcua[n]
Fresh == {n \in Node : ~Seen(n) \/ TimeOf(device[n]) > checkpoint.opcua[n]}

\* A time that went back, or a fresh value that is no number, stops the poll.
ReadNodes ==
    /\ poll.of = "opcua" /\ poll.phase = "asked"
    /\ IF (\E n \in Node : Backwards(n)) \/ (\E n \in Fresh : ~device[n].usable) \/ Fresh = {}
       THEN Over
       ELSE poll' = [of |-> "opcua", phase |-> "archiving",
                     points |-> [n \in Fresh |-> TimeOf(device[n])]]
    /\ UNCHANGED <<column, table, device, clock, checkpoint, queued, changes, faults>>

\* nextCheckpoint: the times of the new points replace the old ones.
Joined(old, points) == [n \in DOMAIN old \cup DOMAIN points |->
    IF n \in DOMAIN points THEN points[n] ELSE old[n]]

\* The records are archived, and in one transaction the batch is queued and
\* the checkpoint moved.
Enqueue ==
    /\ poll.phase = "archiving"
    /\ IF poll.of = "postgres"
       THEN LET after == Stored(Last(poll.rows))
            IN /\ queued' = Append(queued, [of |-> "postgres", rows |-> Range(poll.rows), after |-> after])
               /\ checkpoint' = [checkpoint EXCEPT !.postgres = after]
       ELSE /\ queued' = Append(queued, [of |-> "opcua", points |-> poll.points])
            /\ checkpoint' = [checkpoint EXCEPT !.opcua = Joined(@, poll.points)]
    /\ Over
    /\ UNCHANGED <<column, table, device, clock, changes, faults>>

\* A query, a read or the archive fails, or the agent is killed and restarts.
Lose ==
    /\ poll.phase # "idle" /\ faults < MaxFaults /\ faults' = faults + 1
    /\ Over \/ poll' = Idle("postgres")
    /\ UNCHANGED <<column, table, device, clock, checkpoint, queued, changes>>

Next ==
    \/ \E k \in Key, usable \in BOOLEAN : Commit(k, usable)
    \/ \E n \in Node, v \in Value : Measure(n, v)
    \/ \E t \in Time : SetClock(t)
    \/ Start \/ Query \/ Accept \/ ReadNodes \/ Enqueue \/ Lose

Spec == Init /\ [][Next]_vars

-----------------------------------------------------------------------------
QueuedIn(i) == IF queued[i].of = "postgres" THEN queued[i].rows ELSE {}
Collected == UNION {QueuedIn(i) : i \in DOMAIN queued}

(* A row is in one batch at most, however the column is stored and          *)
(* compared, and the batches of a source end at different checkpoints.      *)
RowsAreCollectedOnce ==
    \A i, j \in DOMAIN queued : i # j =>
        /\ QueuedIn(i) \cap QueuedIn(j) = {}
        /\ queued[i].of = "postgres" /\ queued[j].of = "postgres"
              => queued[i].after # queued[j].after

(* A row that the next query will not return is in a batch, unless it was   *)
(* committed behind what was collected or asked for, or it shares its value *)
(* with the row that a batch ended at.                                      *)
PassedRowsAreKnown ==
    checkpoint.postgres # Null =>
        \A r \in DOMAIN table \ (Wanted \cup Collected) :
            table[r].late \/ \E s \in Collected : table[s].key = table[r].key

(* The times of a node go up from batch to batch, and the checkpoint is the *)
(* last of them: no value is collected twice, and none under an older time. *)
TimesGoUp ==
    LET batches == {i \in DOMAIN queued : queued[i].of = "opcua"}
        with(n) == {i \in batches : n \in DOMAIN queued[i].points}
    IN \A n \in Node :
        /\ \A i, j \in with(n) : i < j => queued[i].points[n] < queued[j].points[n]
        /\ Seen(n) <=> with(n) # {}
        /\ \A i \in with(n) : queued[i].points[n] <= checkpoint.opcua[n]

(***************************************************************************)
(* The inductive invariant.  A batch has rows of the table, no further on  *)
(* by rank than where it ended, and that is no further than the checkpoint.*)
(* A poll that has read its rows left behind only rows that are late or no *)
(* less than its last; what it goes on with lies beyond the checkpoint.    *)
(***************************************************************************)
BatchesInv ==
    \A i \in DOMAIN queued : queued[i].of = "postgres" =>
        /\ queued[i].rows \subseteq DOMAIN table
        /\ \A r \in queued[i].rows : Rank(Stored(r)) <= Rank(queued[i].after)
        /\ checkpoint.postgres # Null
        /\ Rank(queued[i].after) <= Rank(checkpoint.postgres)

ReadInv ==
    poll.of = "postgres" /\ poll.phase \in {"read", "archiving"} =>
        /\ poll.rows # <<>> /\ Range(poll.rows) \subseteq DOMAIN table
        /\ \A i, j \in DOMAIN poll.rows : i < j => table[poll.rows[i]].key <= table[poll.rows[j]].key
        /\ \A r \in Wanted \ Range(poll.rows) :
              table[r].late \/ table[Last(poll.rows)].key <= table[r].key
        /\ poll.phase = "archiving" => FirstIsNew(poll.rows[1]) /\ Increasing(poll.rows)

PointsInv ==
    poll.of = "opcua" /\ poll.phase = "archiving" =>
        \A n \in DOMAIN poll.points : Seen(n) => poll.points[n] > checkpoint.opcua[n]

PollsInv ==
    /\ TypeOK /\ BatchesInv /\ ReadInv /\ PointsInv
    /\ RowsAreCollectedOnce /\ PassedRowsAreKnown /\ TimesGoUp
=============================================================================
