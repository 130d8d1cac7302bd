----------------------------- MODULE EdgeAgent -----------------------------
(***************************************************************************)
(* The edge agent with one CSV source: the checkpointed poll, the raw      *)
(* archive, the durable SQLite queue, the delivery loop, and the ingest    *)
(* endpoint that receives the batches.                                     *)
(*                                                                         *)
(*   - the poll loop and the delivery loop of one process interleave at    *)
(*     their awaits; SQLite statements and transactions are atomic;        *)
(*   - the file changes under the connector: rows are appended, rewritten  *)
(*     or cut off in place, or the file is replaced by another one;        *)
(*   - requests and replies are delayed or lost, the endpoint refuses,     *)
(*     the process crashes or is stopped, and starts again.                *)
(*                                                                         *)
(* A row is one value; the hash of a prefix of the file is the prefix.     *)
(* Time is abstracted: a lease may run out, and a back-off elapse, at any  *)
(* moment.  `line' keeps the order of available_at that the claim uses.    *)
(* The hash that makes the idempotency key also covers the archived rows   *)
(* and the time of the poll; checkpoint_after alone already tells queued   *)
(* batches apart, and stands for it.                                       *)
(***************************************************************************)
EXTENDS Integers, Sequences, FiniteSets

CONSTANTS
    Row,            \* contents of a row of the file
    BatchSize,      \* batchSize of the connector
    MaxRows,        \* bound on the length of the file
    MaxEdits,       \* bound on the changes of the file
    MaxFaults       \* bound on crashes, stops, failed calls, lost replies

ASSUME EdgeAssumption ==
    /\ BatchSize \in Nat \ {0}
    /\ MaxRows \in Nat
    /\ MaxEdits \in Nat
    /\ MaxFaults \in Nat

VARIABLES
    file,           \* the source: its identity (inode) and its rows
    edits,          \* changes of the file so far
    checkpoint,     \* source_checkpoints: file identity and processed prefix
    queue,          \* queued_batches, in order of created_at
    line,           \* batches waiting for a claim, by available_at
    due,            \* how many of them are available now
    archived,       \* raw payloads on disk
    poll,           \* the running poll: its phase and the rows seen so far
    sending,        \* the batch drainOne works on, and its next step
    requests,       \* ingest requests that the endpoint has not answered
    accepted,       \* completed ingestion runs, in order of completion
    agent,          \* "running", "stopping" (SIGTERM) or "stopped"
    faults          \* faults so far

sourceVars == <<file, edits>>
queueVars  == <<checkpoint, queue, line, due>>
vars == <<sourceVars, queueVars, archived, poll, sending, requests, accepted, agent, faults>>

NoFile == 0
NoCheckpoint == [file |-> NoFile, prefix |-> <<>>]
NoPoll == [phase |-> "idle", file |-> NoFile, seen |-> <<>>]
NoSending == [phase |-> "idle", batch |-> 0, attempt |-> 0, retried |-> FALSE]

Checkpoint == [file : Nat, prefix : Seq(Row)]
State == {"pending", "sending", "sent", "failed"}
Batch == [rows : Seq(Row), after : Checkpoint, state : State, attempts : Nat]

Values(s) == {s[i] : i \in DOMAIN s}
Distinct(s) == \A i, j \in DOMAIN s : s[i] = s[j] => i = j
Waiting == {b \in DOMAIN queue : queue[b].state \in {"pending", "failed"}}
Leased == {b \in DOMAIN queue : queue[b].state = "sending"}

TypeOK ==
    /\ file \in [id : Nat \ {NoFile}, rows : Seq(Row)]
    /\ edits \in 0 .. MaxEdits
    /\ checkpoint \in Checkpoint
    /\ queue \in Seq(Batch)
    /\ line \in Seq(Nat)
    /\ due \in 0 .. Len(line)
    /\ archived \subseteq [after : Checkpoint, rows : Seq(Row)]
    /\ poll \in [phase : {"idle", "reading", "read", "archived"}, file : Nat, seen : Seq(Row)]
    /\ sending \in [phase : {"idle", "post", "wait", "delivered", "failed"},
                    batch : Nat, attempt : Nat, retried : BOOLEAN]
    /\ requests \subseteq Nat \X Nat
    /\ accepted \in Seq(Nat)
    /\ agent \in {"running", "stopping", "stopped"}
    /\ faults \in 0 .. MaxFaults

Init ==
    /\ file = [id |-> 1, rows |-> <<>>]
    /\ edits = 0
    /\ checkpoint = NoCheckpoint
    /\ queue = <<>>
    /\ line = <<>>
    /\ due = 0
    /\ archived = {}
    /\ poll = NoPoll
    /\ sending = NoSending
    /\ requests = {}
    /\ accepted = <<>>
    /\ agent = "running"
    /\ faults = 0

Fault == faults < MaxFaults /\ faults' = faults + 1

-----------------------------------------------------------------------------
(* The owner of the source changes the file at any time. *)
Edit(newFile) ==
    /\ edits < MaxEdits
    /\ edits' = edits + 1
    /\ file' = newFile
    /\ UNCHANGED <<queueVars, archived, poll, sending, requests, accepted, agent, faults>>

AppendRow == \E r \in Row :
    /\ Len(file.rows) < MaxRows
    /\ Edit([file EXCEPT !.rows = Append(@, r)])

RewriteRow == \E i \in DOMAIN file.rows : \E r \in Row \ {file.rows[i]} :
    Edit([file EXCEPT !.rows[i] = r])

Truncate ==
    /\ file.rows # <<>>
    /\ Edit([file EXCEPT !.rows = SubSeq(@, 1, Len(@) - 1)])

\* A new file under the same path, with the same rows.
Replace == Edit([file EXCEPT !.id = @ + 1])

-----------------------------------------------------------------------------
(* The poll loop: pollConnector and CsvConnector.poll. *)

\* The rows past the checkpoint that a poll has read, and the checkpoint after them.
Records(p) == SubSeq(p.seen, Len(checkpoint.prefix) + 1, Len(p.seen))
After(p) == [file |-> p.file, prefix |-> p.seen]

\* The checkpoint is read, and the identity of the file compared with it.
PollStart ==
    /\ agent = "running"
    /\ poll.phase = "idle"
    /\ checkpoint = NoCheckpoint \/ checkpoint.file = file.id
    /\ poll' = [phase |-> "reading", file |-> file.id, seen |-> <<>>]
    /\ UNCHANGED <<sourceVars, queueVars, archived, sending, requests, accepted, agent, faults>>

\* Variant: rows before the checkpoint are skipped without a look.
PrefixUnchecked(seen) == TRUE

(* At the row count of the checkpoint the hash of the rows must be its hash. *)
PrefixMatches(seen) == Len(seen) = Len(checkpoint.prefix) => seen = checkpoint.prefix

\* The parser yields the next row of the stream.
ReadRow ==
    /\ poll.phase = "reading"
    /\ file.id = poll.file
    /\ Len(poll.seen) < Len(file.rows)
    /\ Len(Records(poll)) < BatchSize
    /\ LET seen == Append(poll.seen, file.rows[Len(poll.seen) + 1])
       IN  poll' = IF PrefixMatches(seen) THEN [poll EXCEPT !.seen = seen] ELSE NoPoll
    /\ UNCHANGED <<sourceVars, queueVars, archived, sending, requests, accepted, agent, faults>>

\* End of the file or of the batch.  Fewer rows than the checkpoint, no new row,
\* or another file than at the start: no batch.
ReadEnd ==
    /\ poll.phase = "reading"
    /\ \/ Len(poll.seen) >= Len(file.rows)
       \/ Len(Records(poll)) = BatchSize
       \/ file.id # poll.file
    /\ poll' = IF file.id = poll.file /\ Len(poll.seen) > Len(checkpoint.prefix)
               THEN [poll EXCEPT !.phase = "read"] ELSE NoPoll
    /\ UNCHANGED <<sourceVars, queueVars, archived, sending, requests, accepted, agent, faults>>

\* archiveRawPayload: the raw records are on disk before anything else happens.
Archive ==
    /\ poll.phase = "read"
    /\ archived' = archived \cup {[after |-> After(poll), rows |-> Records(poll)]}
    /\ poll' = [poll EXCEPT !.phase = "archived"]
    /\ UNCHANGED <<sourceVars, queueVars, sending, requests, accepted, agent, faults>>

\* Batches enter the line at a place; those available now, behind those due.
InsertAt(p, s) == SubSeq(line, 1, p) \o s \o SubSeq(line, p + 1, Len(line))
Insert(s) == InsertAt(due, s)

NewBatch(p) == [rows |-> Records(p), after |-> After(p), state |-> "pending", attempts |-> 0]

(* EdgeQueue.enqueue: one transaction inserts the batch and advances the   *)
(* checkpoint, unless its idempotency key is already there.                *)
Enqueue ==
    /\ poll.phase = "archived"
    /\ IF \E b \in DOMAIN queue : queue[b].after = After(poll)
       THEN UNCHANGED queueVars
       ELSE /\ queue' = Append(queue, NewBatch(poll))
            /\ checkpoint' = After(poll)
            /\ line' = Insert(<<Len(queue) + 1>>)
            /\ due' = due + 1
    /\ poll' = NoPoll
    /\ UNCHANGED <<sourceVars, archived, sending, requests, accepted, agent, faults>>

\* Reading, archiving or the transaction fails: the poll ends without effect.
PollFails ==
    /\ poll.phase # "idle"
    /\ Fault
    /\ poll' = NoPoll
    /\ UNCHANGED <<sourceVars, queueVars, archived, sending, requests, accepted, agent>>

-----------------------------------------------------------------------------
(* The delivery loop: drainOne. *)

\* The batches of E by created_at.
InOrder(E) == {s \in [1 .. Cardinality(E) -> E] :
    Values(s) = E /\ \A i, j \in DOMAIN s : i < j => s[i] < s[j]}

\* Variant: a lease has no end.
ExpiredNever(E) == E = {}

(* Any lease may have run out when claim looks. *)
Expired(E) == E \subseteq Leased

Lease(q) == [rows |-> q.rows, after |-> q.after, state |-> "sending", attempts |-> q.attempts + 1]

(* EdgeQueue.claim: expired leases go back into the line, then the first   *)
(* batch that is due is leased.                                            *)
Claim == \E E \in SUBSET DOMAIN queue : \E s \in InOrder(E) :
    /\ agent \in {"running", "stopping"}
    /\ sending.phase = "idle"
    /\ Expired(E)
    /\ due + Len(s) > 0
    /\ LET b == Head(Insert(s))
       IN  /\ queue' = [c \in DOMAIN queue |->
                  IF c = b THEN Lease(queue[c])
                  ELSE IF c \in E THEN [queue[c] EXCEPT !.state = "failed"] ELSE queue[c]]
           /\ sending' = [phase |-> "post", batch |-> b,
                          attempt |-> queue[b].attempts + 1, retried |-> FALSE]
    /\ line' = Tail(Insert(s))
    /\ due' = due + Len(s) - 1
    /\ UNCHANGED <<checkpoint, sourceVars, archived, poll, requests, accepted, agent, faults>>

\* A back-off has elapsed.
Elapse ==
    /\ due < Len(line)
    /\ due' = due + 1
    /\ UNCHANGED <<checkpoint, queue, line, sourceVars, archived, poll, sending, requests, accepted, agent, faults>>

Current == <<sending.batch, sending.attempt>>
MovesTo(phase) == sending' = [sending EXCEPT !.phase = phase]

\* deliver: with a token, the bundle is posted; without one the attempt fails.
Post ==
    /\ sending.phase = "post"
    /\ requests' = requests \cup {Current}
    /\ MovesTo("wait")
    /\ UNCHANGED <<sourceVars, queueVars, archived, poll, accepted, agent, faults>>

NoToken ==
    /\ sending.phase = "post"
    /\ Fault
    /\ MovesTo("failed")
    /\ UNCHANGED <<sourceVars, queueVars, archived, poll, requests, accepted, agent>>

Awaited(q) == sending.phase = "wait" /\ q = Current

(* The endpoint completes the run of a batch, or finds it completed. *)
Completed(b) == IF b \in Values(accepted) THEN accepted ELSE Append(accepted, b)

\* The ingest endpoint handles a request and its reply arrives.
Ingest(q) ==
    /\ q \in requests
    /\ requests' = requests \ {q}
    /\ accepted' = Completed(q[1])
    /\ IF Awaited(q) THEN MovesTo("delivered") ELSE UNCHANGED sending
    /\ UNCHANGED <<sourceVars, queueVars, archived, poll, agent, faults>>

\* The same, but the connection breaks before the reply.
IngestUnheard(q) ==
    /\ q \in requests
    /\ Awaited(q)
    /\ Fault
    /\ requests' = requests \ {q}
    /\ accepted' = Completed(q[1])
    /\ UNCHANGED <<sourceVars, queueVars, archived, poll, sending, agent>>

\* The endpoint refuses or fails.  The first 401 of an attempt is answered with
\* a new token and a second request, every other refusal ends the attempt.
Refuse(q) ==
    /\ q \in requests
    /\ Fault
    /\ requests' = requests \ {q}
    /\ \/ /\ Awaited(q)
          /\ ~sending.retried
          /\ sending' = [phase |-> "post", batch |-> sending.batch,
                         attempt |-> sending.attempt, retried |-> TRUE]
       \/ IF Awaited(q) THEN MovesTo("failed") ELSE UNCHANGED sending
    /\ UNCHANGED <<sourceVars, queueVars, archived, poll, accepted, agent>>

\* Variant: a timeout counts as delivered.
TimeoutIsSuccess ==
    /\ sending.phase = "wait"
    /\ IF Current \in requests THEN Fault ELSE UNCHANGED faults
    /\ MovesTo("delivered")
    /\ UNCHANGED <<sourceVars, queueVars, archived, poll, requests, accepted, agent>>

\* AbortSignal.timeout: the request may still be on its way.
Timeout ==
    /\ sending.phase = "wait"
    /\ IF Current \in requests THEN Fault ELSE UNCHANGED faults
    /\ MovesTo("failed")
    /\ UNCHANGED <<sourceVars, queueVars, archived, poll, requests, accepted, agent>>

Settle(state) == queue' = [queue EXCEPT ![sending.batch].state = state]

MarkSent ==
    /\ sending.phase = "delivered"
    /\ Settle("sent")
    /\ sending' = NoSending
    /\ UNCHANGED <<checkpoint, line, due, sourceVars, archived, poll, requests, accepted, agent, faults>>

\* markSent throws, and the catch clause goes on to release the batch.
MarkSentFails ==
    /\ sending.phase = "delivered"
    /\ Fault
    /\ MovesTo("failed")
    /\ UNCHANGED <<sourceVars, queueVars, archived, poll, requests, accepted, agent>>

(* EdgeQueue.release: the back-off puts the batch anywhere behind those due. *)
Release == \E p \in due .. Len(line) :
    /\ sending.phase = "failed"
    /\ Settle("failed")
    /\ line' = InsertAt(p, <<sending.batch>>)
    /\ sending' = NoSending
    /\ UNCHANGED <<checkpoint, due, sourceVars, archived, poll, requests, accepted, agent, faults>>

\* release throws as well: the batch stays leased until the lease runs out.
ReleaseFails ==
    /\ sending.phase = "failed"
    /\ Fault
    /\ sending' = NoSending
    /\ UNCHANGED <<sourceVars, queueVars, archived, poll, requests, accepted, agent>>

-----------------------------------------------------------------------------
(* The process. *)

\* A crash and the next start: everything that is not on disk is gone.
Crash ==
    /\ agent # "stopped"
    /\ Fault
    /\ poll' = NoPoll
    /\ sending' = NoSending
    /\ agent' = "running"
    /\ UNCHANGED <<sourceVars, queueVars, archived, requests, accepted>>

\* SIGTERM: no new poll; the queue drains until the deadline.
Stop ==
    /\ agent = "running"
    /\ Fault
    /\ agent' = "stopping"
    /\ UNCHANGED <<sourceVars, queueVars, archived, poll, sending, requests, accepted>>

Close ==
    /\ agent = "stopping"
    /\ poll.phase = "idle"
    /\ sending.phase = "idle"
    /\ agent' = "stopped"
    /\ UNCHANGED <<sourceVars, queueVars, archived, poll, sending, requests, accepted, faults>>

Start ==
    /\ agent = "stopped"
    /\ agent' = "running"
    /\ UNCHANGED <<sourceVars, queueVars, archived, poll, sending, requests, accepted, faults>>

-----------------------------------------------------------------------------
Source == AppendRow \/ RewriteRow \/ Truncate \/ Replace
Poll == PollStart \/ ReadRow \/ ReadEnd \/ Archive \/ Enqueue
Deliver == Claim \/ Elapse \/ Post \/ Timeout \/ MarkSent \/ Release
Endpoint == \E q \in requests : Ingest(q)
Trouble ==
    \/ PollFails \/ NoToken \/ MarkSentFails \/ ReleaseFails \/ Crash \/ Stop
    \/ \E q \in requests : IngestUnheard(q) \/ Refuse(q)
Next == Source \/ Poll \/ Deliver \/ Endpoint \/ Trouble \/ Close \/ Start

Spec == Init /\ [][Next]_vars

(* The loops of the process go on, leases and back-offs end, the endpoint  *)
(* answers, and a stopped agent is started again.  Nothing obliges the     *)
(* owner to edit the file, and nothing has to fail.                        *)
FairSpec == Spec
    /\ WF_vars(Claim) /\ WF_vars(Elapse) /\ WF_vars(Post)
    /\ WF_vars(Timeout) /\ WF_vars(MarkSent) /\ WF_vars(Release)
    /\ WF_vars(Endpoint) /\ WF_vars(Poll) /\ WF_vars(Close) /\ WF_vars(Start)

-----------------------------------------------------------------------------
(* Every row up to the checkpoint is in exactly one batch: batch b holds   *)
(* what came between the checkpoints of its predecessor and its own, and   *)
(* the stored checkpoint is the last one (queue.ts enqueue, csv.ts poll).  *)
Before(b) == IF b = 1 THEN <<>> ELSE queue[b - 1].after.prefix

CheckpointMatchesQueue ==
    /\ \A b \in DOMAIN queue :
        /\ queue[b].rows # <<>>
        /\ queue[b].after.prefix = Before(b) \o queue[b].rows
        /\ queue[b].after.file = checkpoint.file
    /\ checkpoint = IF queue = <<>> THEN NoCheckpoint ELSE queue[Len(queue)].after

(* A queued batch has its raw records in the archive, whatever crashes.    *)
QueuedWasArchived == \A b \in DOMAIN queue :
    [after |-> queue[b].after, rows |-> queue[b].rows] \in archived

(* Redelivery never makes the platform accept a batch twice, and the queue *)
(* forgets a batch only after the platform has accepted it.                *)
AcceptedOnce == Distinct(accepted)
SentWasAccepted == \A b \in DOMAIN queue : queue[b].state = "sent" => b \in Values(accepted)

(* Every batch that is not sent can still be claimed: it waits in the line *)
(* exactly once, or it is leased, and the process works on leased batches  *)
(* only.                                                                   *)
NothingStranded ==
    /\ Values(line) = Waiting
    /\ Distinct(line)
    /\ sending.phase # "idle" => sending.batch \in Leased

(* Batches are never dropped or rewritten, and the checkpoint never goes   *)
(* back, in any step: what was collected stays collected.                  *)
CollectedForGood == [][
    /\ Len(queue) <= Len(queue')
    /\ \A b \in DOMAIN queue : /\ queue'[b].rows = queue[b].rows
                               /\ queue[b].state = "sent" => queue'[b] = queue[b]
    /\ Len(checkpoint.prefix) <= Len(checkpoint'.prefix)
    /\ SubSeq(checkpoint'.prefix, 1, Len(checkpoint.prefix)) = checkpoint.prefix]_vars

(* The invariant the proofs use.  A poll that has read as far as the       *)
(* checkpoint has seen the rows of the checkpoint; what is requested or    *)
(* accepted is in the queue.                                               *)
PollKnows == poll.phase # "idle" =>
    /\ poll.file # NoFile
    /\ queue # <<>> => checkpoint.file = poll.file
    /\ Len(poll.seen) >= Len(checkpoint.prefix) =>
          SubSeq(poll.seen, 1, Len(checkpoint.prefix)) = checkpoint.prefix
    /\ poll.phase \in {"read", "archived"} => Len(poll.seen) > Len(checkpoint.prefix)
    /\ poll.phase = "archived" => [after |-> After(poll), rows |-> Records(poll)] \in archived

CollectInv == CheckpointMatchesQueue /\ QueuedWasArchived /\ PollKnows

DeliverInv ==
    /\ AcceptedOnce /\ SentWasAccepted /\ NothingStranded
    /\ Values(accepted) \subseteq DOMAIN queue
    /\ \A q \in requests : q[1] \in DOMAIN queue
    /\ sending.phase = "delivered" => sending.batch \in Values(accepted)

EdgeInv == TypeOK /\ CollectInv /\ DeliverInv

(* The agent implements the feed that accepts every batch exactly once.    *)
Feed == INSTANCE StoreAndForward WITH
    batches <- [b \in DOMAIN queue |-> queue[b].rows], done <- Values(accepted)
ImplementsStoreAndForward == Feed!FairSpec

(* Whatever fails a bounded number of times, every batch is sent.          *)
EveryBatchSent == \A b \in 1 .. MaxRows :
    b \in DOMAIN queue ~> (b \in DOMAIN queue /\ queue[b].state = "sent")
=============================================================================
