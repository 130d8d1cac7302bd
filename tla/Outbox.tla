------------------------------- MODULE Outbox -------------------------------
(***************************************************************************)
(* The transactional outbox of the PostgreSQL plane and the workers that   *)
(* drain it into the shared Redis stream.                                  *)
(*                                                                         *)
(*   - a row of odf.outbox_events appears when the domain transaction that *)
(*     wrote it commits;                                                   *)
(*   - several processes run OutboxPump.runOnce: one SQL statement leases  *)
(*     a batch, then each event of the batch is published, and marked or   *)
(*     released, in separate steps;                                        *)
(*   - an operator lists and requeues dead letters (recovery-cli.ts).      *)
(*                                                                         *)
(* An event is a number: its place in the durable order of its aggregate,  *)
(* the pair (occurred_at, event_id) of the claim query.  occurred_at is    *)
(* the START time of the writing transaction, so rows of one aggregate may *)
(* become visible out of that order.  Serialized names the aggregates      *)
(* whose writers cannot overlap (each transaction is started by somebody   *)
(* who saw the previous one commit, like the state changes of one run).    *)
(*                                                                         *)
(* Time is abstracted: a lease may run out and a back-off may elapse at    *)
(* any moment.  Everything that goes wrong in a worker (crash, stall past  *)
(* the lease, a failed call, a lost reply) spends one unit of MaxFaults.   *)
(***************************************************************************)
EXTENDS Integers, Sequences, FiniteSets

CONSTANTS
    Event,          \* rows that may be written, numbered by durable order
    Aggregate,      \* pairs (aggregate_type, aggregate_id)
    AggregateOf,    \* the aggregate of each event
    Serialized,     \* aggregates whose rows become visible in durable order
    Worker,         \* processes running the pump
    NoWorker,       \* lease_owner IS NULL
    BatchSize,      \* ODF_OUTBOX_BATCH_SIZE
    MaxAttempts,    \* maximumDeliveryAttempts
    MaxFaults       \* bound on the faults of one behaviour

ASSUME OutboxAssumption ==
    /\ Event \subseteq Nat
    /\ AggregateOf \in [Event -> Aggregate]
    /\ Serialized \subseteq Aggregate
    /\ NoWorker \notin Worker
    /\ BatchSize \in Nat \ {0}
    /\ MaxAttempts \in Nat \ {0}
    /\ MaxFaults \in Nat

VARIABLES
    committed,      \* visible rows of odf.outbox_events
    published,      \* rows whose published_at is set
    owner,          \* lease_owner
    expired,        \* leased rows whose lease_expires_at has passed
    available,      \* available_at: "now", "later" (back-off) or "infinity"
    attempts,       \* attempt_count, counted up to MaxAttempts
    batch,          \* per worker: the claimed events runOnce has not finished
    phase,          \* per worker: the step runOnce takes next
    stream,         \* the Redis stream
    faults          \* faults so far

rowVars    == <<published, owner, expired, available, attempts>>
workerVars == <<batch, phase>>
vars       == <<committed, rowVars, workerVars, stream, faults>>

Phase == {"publish", "mark", "settle"}

TypeOK ==
    /\ committed \subseteq Event
    /\ published \subseteq committed
    /\ owner \in [Event -> Worker \cup {NoWorker}]
    /\ expired \subseteq Event
    /\ available \in [Event -> {"now", "later", "infinity"}]
    /\ attempts \in [Event -> 0 .. MaxAttempts]
    /\ batch \in [Worker -> SUBSET committed]
    /\ phase \in [Worker -> Phase]
    /\ stream \in Seq(Event)
    /\ faults \in 0 .. MaxFaults
    \* the CHECK constraints of the table
    /\ \A e \in published : owner[e] = NoWorker
    /\ \A e \in expired : owner[e] # NoWorker

Init ==
    /\ committed = {}
    /\ published = {}
    /\ owner = [e \in Event |-> NoWorker]
    /\ expired = {}
    /\ available = [e \in Event |-> "now"]
    /\ attempts = [e \in Event |-> 0]
    /\ batch = [w \in Worker |-> {}]
    /\ phase = [w \in Worker |-> "publish"]
    /\ stream = <<>>
    /\ faults = 0

-----------------------------------------------------------------------------
(* The order the claim query compares: same aggregate, smaller key. *)
Precedes(e, f) == AggregateOf[e] = AggregateOf[f] /\ e < f

(* What a consumer that reads the whole stream has seen. *)
Delivered == {stream[i] : i \in DOMAIN stream}

Fault == faults < MaxFaults /\ faults' = faults + 1

(* A domain transaction commits its outbox row. *)
Commit(e) ==
    /\ e \in Event \ committed
    /\ AggregateOf[e] \in Serialized => \A f \in committed : ~Precedes(e, f)
    /\ committed' = committed \cup {e}
    /\ UNCHANGED <<rowVars, workerVars, stream, faults>>

(* Variants of the claim that each forget one of its tests; they show what *)
(* the test is for.                                                        *)
ClaimablePastDeferred(e) ==
    /\ e \in committed \ published
    /\ available[e] = "now"
    /\ owner[e] = NoWorker \/ e \in expired
    /\ ~ \E p \in committed \ published : Precedes(p, e) /\ available[p] = "now"

ClaimableWhileLeased(e) ==
    /\ e \in committed \ published
    /\ available[e] = "now"
    /\ ~ \E p \in committed \ published : Precedes(p, e)

ClaimableOnce(e) ==
    /\ ClaimableWhileLeased(e)
    /\ owner[e] = NoWorker

(* The WHERE clause of the claim: unpublished, due, not leased (or the     *)
(* lease ran out), and no unpublished predecessor of the same aggregate.   *)
Claimable(e) ==
    /\ e \in committed \ published
    /\ available[e] = "now"
    /\ owner[e] = NoWorker \/ e \in expired
    /\ ~ \E p \in committed \ published : Precedes(p, e)

(* repository.claim: the rows another transaction has locked are skipped,  *)
(* so any part of the claimable rows that fits the LIMIT may be taken.     *)
ClaimBatch(w, B) ==
    /\ batch[w] = {}
    /\ B # {}
    /\ Cardinality(B) <= BatchSize
    /\ \A e \in B : Claimable(e)
    /\ owner' = [e \in Event |-> IF e \in B THEN w ELSE owner[e]]
    /\ expired' = expired \ B
    /\ attempts' = [e \in Event |->
            IF e \in B /\ attempts[e] < MaxAttempts THEN attempts[e] + 1 ELSE attempts[e]]
    /\ batch' = [batch EXCEPT ![w] = B]
    /\ phase' = [phase EXCEPT ![w] = "publish"]
    /\ UNCHANGED <<committed, published, available, stream, faults>>

Claim(w) == \E B \in SUBSET committed : ClaimBatch(w, B)

(* The loop of runOnce walks the batch in event_id order. *)
InHand(w, e) == e \in batch[w] /\ \A f \in batch[w] : e <= f

(* publisher.publish(event): XADD. *)
Publish(w) ==
    \E e \in batch[w] :
        /\ InHand(w, e)
        /\ phase[w] = "publish"
        /\ stream' = Append(stream, e)
        /\ phase' = [phase EXCEPT ![w] = "mark"]
        /\ UNCHANGED <<committed, rowVars, batch, faults>>

(* publish rejects: Redis never saw the command, or its reply was lost     *)
(* after the entry was added.                                              *)
PublishFails(w) ==
    \E e \in batch[w] :
        /\ InHand(w, e)
        /\ phase[w] = "publish"
        /\ stream' \in {stream, Append(stream, e)}
        /\ phase' = [phase EXCEPT ![w] = "settle"]
        /\ Fault
        /\ UNCHANGED <<committed, rowVars, batch>>

(* Both UPDATEs that end an event's turn check lease_owner and             *)
(* published_at, not the expiry time.                                      *)
StillOwned(w, e) == owner[e] = w /\ e \notin published

SetPublished(e) ==
    /\ published' = published \cup {e}
    /\ owner' = [owner EXCEPT ![e] = NoWorker]
    /\ expired' = expired \ {e}

(* repository.markPublished succeeds. *)
Mark(w) ==
    \E e \in batch[w] :
        /\ InHand(w, e)
        /\ phase[w] = "mark"
        /\ StillOwned(w, e)
        /\ SetPublished(e)
        /\ batch' = [batch EXCEPT ![w] = @ \ {e}]
        /\ phase' = [phase EXCEPT ![w] = "publish"]
        /\ UNCHANGED <<committed, available, attempts, stream, faults>>

(* markPublished throws because the UPDATE matched no row. *)
MarkRefused(w) ==
    \E e \in batch[w] :
        /\ InHand(w, e)
        /\ phase[w] = "mark"
        /\ ~StillOwned(w, e)
        /\ phase' = [phase EXCEPT ![w] = "settle"]
        /\ UNCHANGED <<committed, rowVars, batch, stream, faults>>

(* markPublished throws because the database call failed, before or after  *)
(* the UPDATE took effect.                                                 *)
MarkFails(w) ==
    \E e \in batch[w] :
        /\ InHand(w, e)
        /\ phase[w] = "mark"
        /\ \/ UNCHANGED <<published, owner, expired>>
           \/ StillOwned(w, e) /\ SetPublished(e)
        /\ phase' = [phase EXCEPT ![w] = "settle"]
        /\ Fault
        /\ UNCHANGED <<committed, available, attempts, batch, stream>>

(* The catch block: deadLetter once the attempts are used up, else release *)
(* with a back-off.  While w still owns e nobody else has changed          *)
(* attempt_count since the claim, so the row's count is the one the event  *)
(* object in memory carries.                                               *)
Settle(w) ==
    \E e \in batch[w] :
        /\ InHand(w, e)
        /\ phase[w] = "settle"
        /\ StillOwned(w, e)
        /\ owner' = [owner EXCEPT ![e] = NoWorker]
        /\ expired' = expired \ {e}
        /\ available' = [available EXCEPT ![e] =
                IF attempts[e] >= MaxAttempts THEN "infinity" ELSE "later"]
        /\ batch' = [batch EXCEPT ![w] = @ \ {e}]
        /\ phase' = [phase EXCEPT ![w] = "publish"]
        /\ UNCHANGED <<committed, published, attempts, stream, faults>>

Abandon(w) ==
    /\ batch' = [batch EXCEPT ![w] = {}]
    /\ phase' = [phase EXCEPT ![w] = "publish"]

(* release or deadLetter throws because the lease is lost: the exception   *)
(* leaves runOnce, the rest of the batch keeps its leases, and the main    *)
(* loop starts a new cycle.                                                *)
SettleRefused(w) ==
    \E e \in batch[w] :
        /\ InHand(w, e)
        /\ phase[w] = "settle"
        /\ ~StillOwned(w, e)
        /\ Abandon(w)
        /\ UNCHANGED <<committed, rowVars, stream, faults>>

(* The process dies at any point of runOnce (a restarted process is a new  *)
(* lease owner, which an idle worker stands for), or a release fails at    *)
(* the database.                                                           *)
Crash(w) ==
    /\ batch[w] # {}
    /\ Abandon(w)
    /\ Fault
    /\ UNCHANGED <<committed, rowVars, stream>>

(* lease_expires_at passes.  It is a fault only while the owner still has  *)
(* the event: an abandoned lease always runs out.                          *)
LeaseExpires(e) ==
    /\ owner[e] # NoWorker
    /\ e \notin expired
    /\ expired' = expired \cup {e}
    /\ IF e \in batch[owner[e]] THEN Fault ELSE UNCHANGED faults
    /\ UNCHANGED <<committed, published, owner, available, attempts, workerVars, stream>>

BackoffElapses(e) ==
    /\ available[e] = "later"
    /\ available' = [available EXCEPT ![e] = "now"]
    /\ UNCHANGED <<committed, published, owner, expired, attempts, workerVars, stream, faults>>

(* recovery-cli.ts requeue --apply. *)
Requeue(e) ==
    /\ e \in committed \ published
    /\ available[e] = "infinity"
    /\ available' = [available EXCEPT ![e] = "now"]
    /\ attempts' = [attempts EXCEPT ![e] = 0]
    /\ owner' = [owner EXCEPT ![e] = NoWorker]
    /\ expired' = expired \ {e}
    /\ UNCHANGED <<committed, published, workerVars, stream, faults>>

Next ==
    \/ \E e \in Event : Commit(e) \/ LeaseExpires(e) \/ BackoffElapses(e) \/ Requeue(e)
    \/ \E w \in Worker :
          \/ Claim(w) \/ Publish(w) \/ PublishFails(w)
          \/ Mark(w) \/ MarkRefused(w) \/ MarkFails(w)
          \/ Settle(w) \/ SettleRefused(w) \/ Crash(w)

Spec == Init /\ [][Next]_vars

(* The main loop never stops calling runOnce, and the claim orders rows by *)
(* available_at, so a row that stays claimable reaches the front of the    *)
(* LIMIT; time passes, so abandoned leases and back-offs run out.  Faults  *)
(* and the operator get no fairness.                                       *)
Fairness ==
    /\ \A w \in Worker : WF_vars(Publish(w) \/ Mark(w) \/ MarkRefused(w)
                                 \/ Settle(w) \/ SettleRefused(w))
    /\ \A e \in Event :
          /\ SF_vars(\E w \in Worker, B \in SUBSET committed : e \in B /\ ClaimBatch(w, B))
          /\ WF_vars(BackoffElapses(e))
          /\ WF_vars(LeaseExpires(e) /\ e \notin batch[owner[e]])

FairSpec == Spec /\ Fairness

-----------------------------------------------------------------------------
(* A row that is marked published is on the stream, whatever crashed or    *)
(* raced: nothing is lost between PostgreSQL and Redis (publish comes      *)
(* before markPublished in runOnce).                                       *)
PublishedWasDelivered == published \subseteq Delivered

(* An event that is not yet marked published keeps every later event of    *)
(* its aggregate off the stream, also when it is dead-lettered and also    *)
(* when a worker that lost its lease is still publishing (the predecessor  *)
(* test of the claim).                                                     *)
HeadOfLineBlocks ==
    \A e \in committed \ published :
        AggregateOf[e] \in Serialized => \A f \in Delivered : ~Precedes(e, f)

(* The first copies of an aggregate's events stand in durable order: no    *)
(* event overtakes a predecessor, whatever redelivery does.                *)
FirstCopiesInOrder ==
    \A i \in DOMAIN stream : \A e \in committed :
        Precedes(e, stream[i]) /\ AggregateOf[e] \in Serialized
            => \E j \in 1 .. i - 1 : stream[j] = e

(* The inductive invariant behind the three properties above.  A claim is  *)
(* a certificate: whatever the row's lease has become since, every visible *)
(* predecessor of a claimed event is published for good.                   *)
ClaimsInOrder ==
    \A w \in Worker : \A e \in batch[w] :
        AggregateOf[e] \in Serialized =>
            \A p \in committed : Precedes(p, e) => p \in published

MarkingFollowsPublishing ==
    \A w \in Worker : \A e \in batch[w] :
        InHand(w, e) /\ phase[w] = "mark" => e \in Delivered

OrderInv ==
    /\ TypeOK
    /\ Delivered \subseteq committed
    /\ PublishedWasDelivered
    /\ MarkingFollowsPublishing
    /\ ClaimsInOrder
    /\ HeadOfLineBlocks
    /\ FirstCopiesInOrder

(* Every extra copy on the stream is paid for by a fault: without crashes, *)
(* stalls past the lease and failed calls, delivery is exactly once.       *)
DuplicatesNeedFaults == Len(stream) <= Cardinality(Delivered) + faults

(* The inductive invariant behind it counts what is still due: a copy that *)
(* a worker has yet to publish, and a row that some later claim will take, *)
(* unless its owner holds it and is not about to give it back.  A step     *)
(* that adds to what is due or on the stream commits a row or is a fault.  *)
WillPublish(w, e) ==
    /\ w # NoWorker /\ e \in batch[w]
    /\ InHand(w, e) => phase[w] = "publish"

Kept(e) ==
    /\ owner[e] # NoWorker /\ e \notin expired /\ e \in batch[owner[e]]
    /\ InHand(owner[e], e) => phase[owner[e]] # "settle"

WillBeClaimed(w, e) == w = NoWorker /\ e \notin published /\ ~Kept(e)

Due == {d \in (Worker \cup {NoWorker}) \X committed :
            WillPublish(d[1], d[2]) \/ WillBeClaimed(d[1], d[2])}

CopiesInv ==
    /\ IsFiniteSet(committed) /\ IsFiniteSet(Due)
    /\ Len(stream) + Cardinality(Due) <= Cardinality(committed) + faults

(* Only an event that has used up its attempts is dead-lettered, and a     *)
(* dead letter is unpublished and unleased, which is what the recovery     *)
(* queries rely on.                                                        *)
DeadLettersAreExhausted ==
    \A e \in committed : available[e] = "infinity" =>
        /\ attempts[e] = MaxAttempts
        /\ owner[e] = NoWorker
        /\ e \notin published

(* Only a row that may be claimed has an owner. *)
LeasesAreDue ==
    \A e \in Event : owner[e] # NoWorker =>
        e \in committed /\ available[e] = "now"

DeadLetterInv == TypeOK /\ LeasesAreDue /\ DeadLettersAreExhausted
    /\ \A e \in Event : available[e] # "now" => e \in committed

(* The comment of runOnce read literally: on the shared stream events of   *)
(* one aggregate never overtake one another, for every aggregate.          *)
NeverOvertake ==
    \A i, j \in DOMAIN stream : i < j => ~Precedes(stream[j], stream[i])

(* Every committed event is eventually published, or it or a predecessor   *)
(* of its aggregate becomes a dead letter for the operator.                *)
EventuallyPublishedOrDeadLettered ==
    \A e \in Event : e \in committed ~>
        \/ e \in published
        \/ \E d \in committed : (d = e \/ Precedes(d, e)) /\ available[d] = "infinity"

-----------------------------------------------------------------------------
Feed == INSTANCE OrderedFeed WITH delivered <- Delivered

(* The outbox implements the ordered feed: every step of the workers is a  *)
(* first delivery that respects the order of the aggregate, or changes     *)
(* nothing that a consumer which drops repeated event ids can see.         *)
ImplementsOrderedFeed == Feed!Spec
=============================================================================
