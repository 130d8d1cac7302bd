---------------------------- MODULE OutboxProofs ----------------------------
(***************************************************************************)
(* Proofs about Outbox for every set of events, aggregates and workers,    *)
(* every batch size, attempt limit and number of faults.                   *)
(***************************************************************************)
EXTENDS Outbox, FiniteSetTheorems, TLAPS

(* Every row and every worker keeps its type, and the CHECK constraints of *)
(* odf.outbox_events hold after each statement of the pump and the CLI.    *)
THEOREM TypeCorrect == Spec => []TypeOK
<1>1. Init => TypeOK
  BY OutboxAssumption DEF Init, TypeOK, Phase
<1>2. TypeOK /\ [Next]_vars => TypeOK'
  <2> SUFFICES ASSUME TypeOK, [Next]_vars PROVE TypeOK'
    OBVIOUS
  <2> USE OutboxAssumption DEF TypeOK, Phase, rowVars, workerVars
  <2>1. ASSUME NEW e \in Event, Commit(e) PROVE TypeOK'
    BY <2>1 DEF Commit
  <2>2. ASSUME NEW e \in Event, LeaseExpires(e) PROVE TypeOK'
    BY <2>2 DEF LeaseExpires, Fault
  <2>3. ASSUME NEW e \in Event, BackoffElapses(e) PROVE TypeOK'
    BY <2>3 DEF BackoffElapses
  <2>4. ASSUME NEW e \in Event, Requeue(e) PROVE TypeOK'
    BY <2>4 DEF Requeue
  <2>5. ASSUME NEW w \in Worker, Claim(w) PROVE TypeOK'
    <3>1. PICK B \in SUBSET committed : ClaimBatch(w, B)
      BY <2>5 DEF Claim
    <3>2. owner' \in [Event -> Worker \cup {NoWorker}]
      BY <3>1 DEF ClaimBatch
    <3>3. attempts' \in [Event -> 0 .. MaxAttempts]
      BY <3>1 DEF ClaimBatch
    <3>4. batch' \in [Worker -> SUBSET committed'] /\ phase' \in [Worker -> Phase]
      BY <3>1 DEF ClaimBatch
    <3>5. /\ \A e \in published' : owner'[e] = NoWorker
          /\ \A e \in expired' : owner'[e] # NoWorker
      BY <3>1 DEF ClaimBatch, Claimable
    <3>6. QED
      BY <3>1, <3>2, <3>3, <3>4, <3>5 DEF ClaimBatch
  <2>6. ASSUME NEW w \in Worker, Publish(w) PROVE TypeOK'
    BY <2>6 DEF Publish
  <2>7. ASSUME NEW w \in Worker, PublishFails(w) PROVE TypeOK'
    <3>1. PICK e \in batch[w] : stream' \in {stream, Append(stream, e)}
      BY <2>7 DEF PublishFails
    <3>2. stream' \in Seq(Event)
      <4>1. e \in Event
        OBVIOUS
      <4>2. CASE stream' = stream
        BY <4>2
      <4>3. CASE stream' = Append(stream, e)
        BY <4>1, <4>3
      <4>4. QED
        BY <3>1, <4>2, <4>3
    <3>3. /\ phase' = [phase EXCEPT ![w] = "settle"]
          /\ faults < MaxFaults /\ faults' = faults + 1
          /\ UNCHANGED <<committed, published, owner, expired, available, attempts, batch>>
      <4>1. PICK f \in batch[w] :
              /\ phase' = [phase EXCEPT ![w] = "settle"]
              /\ Fault
              /\ UNCHANGED <<committed, rowVars, batch>>
        BY <2>7 DEF PublishFails
      <4>2. QED
        BY <4>1 DEF Fault
    <3>4. phase' \in [Worker -> Phase] /\ faults' \in 0 .. MaxFaults
      BY <3>3
    <3>5. QED
      BY <3>2, <3>3, <3>4
  <2>8. ASSUME NEW w \in Worker, Mark(w) PROVE TypeOK'
    BY <2>8 DEF Mark, StillOwned, SetPublished
  <2>9. ASSUME NEW w \in Worker, MarkRefused(w) PROVE TypeOK'
    BY <2>9 DEF MarkRefused
  <2>10. ASSUME NEW w \in Worker, MarkFails(w) PROVE TypeOK'
    <3>1. PICK e \in batch[w] :
              /\ \/ UNCHANGED <<published, owner, expired>>
                 \/ SetPublished(e)
              /\ phase' = [phase EXCEPT ![w] = "settle"]
              /\ faults < MaxFaults /\ faults' = faults + 1
              /\ UNCHANGED <<committed, available, attempts, batch, stream>>
      BY <2>10 DEF MarkFails, Fault
    <3>2. phase' \in [Worker -> Phase] /\ faults' \in 0 .. MaxFaults
      BY <3>1
    <3>3. CASE UNCHANGED <<published, owner, expired>>
      BY <3>1, <3>2, <3>3
    <3>4. CASE SetPublished(e)
      BY <3>1, <3>2, <3>4 DEF SetPublished
    <3>5. QED
      BY <3>1, <3>3, <3>4
  <2>11. ASSUME NEW w \in Worker, Settle(w) PROVE TypeOK'
    BY <2>11 DEF Settle, StillOwned
  <2>12. ASSUME NEW w \in Worker, SettleRefused(w) PROVE TypeOK'
    BY <2>12 DEF SettleRefused, Abandon
  <2>13. ASSUME NEW w \in Worker, Crash(w) PROVE TypeOK'
    BY <2>13 DEF Crash, Abandon, Fault
  <2>14. CASE UNCHANGED vars
    BY <2>14 DEF vars
  <2>15. QED
    BY <2>1, <2>2, <2>3, <2>4, <2>5, <2>6, <2>7, <2>8, <2>9, <2>10,
       <2>11, <2>12, <2>13, <2>14 DEF Next
<1>3. QED
  BY <1>1, <1>2, PTL DEF Spec

-----------------------------------------------------------------------------
(* Appending adds exactly the appended element to the range of a sequence. *)
LEMMA AppendRange ==
  ASSUME NEW S, NEW s \in Seq(S), NEW e \in S
  PROVE  {Append(s, e)[i] : i \in DOMAIN Append(s, e)} = {s[i] : i \in DOMAIN s} \cup {e}
<1> DEFINE t == Append(s, e)
<1>1. /\ DOMAIN s = 1 .. Len(s) /\ Len(s) \in Nat
      /\ DOMAIN t = 1 .. Len(s) + 1
      /\ \A i \in 1 .. Len(s) : t[i] = s[i]
      /\ t[Len(s) + 1] = e
  OBVIOUS
<1> HIDE DEF t
<1>2. \A i \in DOMAIN t : i \in DOMAIN s \/ i = Len(s) + 1
  BY <1>1
<1>3. \A i \in DOMAIN s : i \in DOMAIN t
  BY <1>1
<1>4. Len(s) + 1 \in DOMAIN t
  BY <1>1
<1>5. {t[i] : i \in DOMAIN t} = {s[i] : i \in DOMAIN s} \cup {e}
  BY <1>1, <1>2, <1>3, <1>4
<1>6. QED
  BY <1>5 DEF t

(* A step that leaves rows, batches and stream alone keeps the invariant,  *)
(* whatever it does to leases, back-offs and counters.                     *)
LEMMA OrderInvFrame ==
  ASSUME OrderInv, TypeOK', UNCHANGED <<committed, published, batch, phase, stream>>
  PROVE  OrderInv'
BY DEF OrderInv, PublishedWasDelivered, MarkingFollowsPublishing, ClaimsInOrder,
       HeadOfLineBlocks, FirstCopiesInOrder, Delivered, InHand, Precedes

(* Finishing an event, giving up a batch or moving to the settle phase      *)
(* keeps it as well: these only shrink what a worker has claimed, and what *)
(* they mark published is on the stream.                                   *)
LEMMA OrderInvFinish ==
  ASSUME OrderInv, TypeOK', UNCHANGED <<committed, stream>>,
         published \subseteq published', published' \subseteq published \cup Delivered,
         NEW w \in Worker,
         \A v \in Worker : batch'[v] \subseteq batch[v],
         \A v \in Worker \ {w} : batch'[v] = batch[v] /\ phase'[v] = phase[v],
         phase'[w] # "mark"
  PROVE  OrderInv'
<1>1. MarkingFollowsPublishing'
  BY DEF OrderInv, MarkingFollowsPublishing, InHand, Delivered
<1>2. ClaimsInOrder'
  BY DEF OrderInv, ClaimsInOrder, Precedes
<1>3. PublishedWasDelivered'
  BY DEF OrderInv, PublishedWasDelivered, Delivered
<1>4. HeadOfLineBlocks' /\ FirstCopiesInOrder' /\ (Delivered \subseteq committed)'
  BY DEF OrderInv, HeadOfLineBlocks, FirstCopiesInOrder, Delivered, Precedes
<1>5. QED
  BY <1>1, <1>2, <1>3, <1>4 DEF OrderInv

(* Publishing the event in hand keeps it: the claim of that event proves   *)
(* that its visible predecessors are published, hence on the stream.       *)
LEMMA OrderInvPublish ==
  ASSUME OrderInv, TypeOK', UNCHANGED <<committed, published, batch>>,
         NEW w \in Worker, NEW e \in batch[w], InHand(w, e),
         stream' = Append(stream, e),
         NEW next \in Phase, phase' = [phase EXCEPT ![w] = next]
  PROVE  OrderInv'
<1>1. e \in committed /\ e \in Event /\ stream \in Seq(Event)
  BY DEF OrderInv, TypeOK
<1>2. Delivered' = Delivered \cup {e}
  BY <1>1, AppendRange DEF Delivered
<1>3. AggregateOf[e] \in Serialized =>
        \A p \in committed : Precedes(p, e) => p \in published /\ p \in Delivered
  BY DEF OrderInv, ClaimsInOrder, PublishedWasDelivered
<1>4. PublishedWasDelivered' /\ (Delivered \subseteq committed)'
  BY <1>1, <1>2 DEF OrderInv, PublishedWasDelivered
<1>5. MarkingFollowsPublishing'
  <2> SUFFICES ASSUME NEW v \in Worker, NEW f \in batch[v],
                      InHand(v, f), phase'[v] = "mark"
               PROVE  f \in Delivered'
    BY DEF MarkingFollowsPublishing, InHand
  <2>1. CASE v = w
    <3>1. e \in Nat /\ f \in Nat /\ e <= f /\ f <= e
      BY <2>1, OutboxAssumption DEF InHand, OrderInv, TypeOK
    <3>2. QED
      BY <1>2, <3>1
  <2>2. CASE v # w
    BY <1>2, <2>2 DEF OrderInv, TypeOK, MarkingFollowsPublishing
  <2>3. QED
    BY <2>1, <2>2
<1>6. ClaimsInOrder'
  BY DEF OrderInv, ClaimsInOrder, Precedes
<1>7. HeadOfLineBlocks'
  BY <1>2, <1>3 DEF OrderInv, HeadOfLineBlocks, Precedes
<1>8. FirstCopiesInOrder'
  <2> SUFFICES ASSUME NEW i \in DOMAIN stream', NEW p \in committed,
                      Precedes(p, stream'[i]), AggregateOf[p] \in Serialized
               PROVE  \E j \in 1 .. i - 1 : stream'[j] = p
    BY DEF FirstCopiesInOrder, Precedes
  <2>1. /\ Len(stream) \in Nat /\ DOMAIN stream = 1 .. Len(stream)
        /\ DOMAIN stream' = 1 .. Len(stream) + 1
        /\ \A k \in 1 .. Len(stream) : stream'[k] = stream[k]
        /\ stream'[Len(stream) + 1] = e
    BY <1>1
  <2>2. CASE i \in DOMAIN stream
    <3>1. PICK j \in 1 .. i - 1 : stream[j] = p
      BY <2>1, <2>2 DEF OrderInv, FirstCopiesInOrder
    <3>2. QED
      BY <2>1, <2>2, <3>1
  <2>3. CASE i = Len(stream) + 1
    <3>1. p \in Delivered
      BY <1>3, <2>1, <2>3 DEF Precedes
    <3>2. PICK j \in DOMAIN stream : stream[j] = p
      BY <3>1 DEF Delivered
    <3>3. QED
      BY <2>1, <2>3, <3>2
  <2>4. QED
    BY <2>1, <2>2, <2>3
<1>9. QED
  BY <1>4, <1>5, <1>6, <1>7, <1>8 DEF OrderInv

(* A row that becomes visible in an aggregate with ordered writers follows *)
(* every row that was ever claimed or delivered.                           *)
LEMMA OrderInvCommit ==
  ASSUME OrderInv, TypeOK', NEW e \in Event, Commit(e)
  PROVE  OrderInv'
<1> USE DEF Commit, rowVars, workerVars
<1>1. PublishedWasDelivered' /\ (Delivered \subseteq committed)'
  BY DEF OrderInv, PublishedWasDelivered, Delivered
<1>2. MarkingFollowsPublishing'
  BY DEF OrderInv, MarkingFollowsPublishing, InHand, Delivered
<1>3. ClaimsInOrder'
  BY DEF OrderInv, TypeOK, ClaimsInOrder, Precedes
<1>4. HeadOfLineBlocks'
  BY DEF OrderInv, HeadOfLineBlocks, Delivered, Precedes
<1>5. FirstCopiesInOrder'
  BY DEF OrderInv, FirstCopiesInOrder, Delivered, Precedes
<1>6. QED
  BY <1>1, <1>2, <1>3, <1>4, <1>5 DEF OrderInv

(* A claim establishes the certificate it is named for. *)
LEMMA OrderInvClaim ==
  ASSUME OrderInv, TypeOK', NEW w \in Worker, Claim(w)
  PROVE  OrderInv'
<1>1. PICK B \in SUBSET committed : ClaimBatch(w, B)
  BY DEF Claim
<1>2. /\ UNCHANGED <<committed, published, stream>>
      /\ batch' = [batch EXCEPT ![w] = B] /\ phase' = [phase EXCEPT ![w] = "publish"]
      /\ \A e \in B : \A p \in committed : Precedes(p, e) => p \in published
  BY <1>1 DEF ClaimBatch, Claimable
<1>3. MarkingFollowsPublishing'
  BY <1>2 DEF OrderInv, TypeOK, MarkingFollowsPublishing, InHand, Delivered
<1>4. ClaimsInOrder'
  BY <1>2 DEF OrderInv, TypeOK, ClaimsInOrder, Precedes
<1>5. PublishedWasDelivered' /\ HeadOfLineBlocks' /\ FirstCopiesInOrder'
      /\ (Delivered \subseteq committed)'
  BY <1>2 DEF OrderInv, PublishedWasDelivered, HeadOfLineBlocks, FirstCopiesInOrder,
              Delivered, Precedes
<1>6. QED
  BY <1>3, <1>4, <1>5 DEF OrderInv

(* The order invariant is inductive. *)
LEMMA OrderInvariant == Spec => []OrderInv
<1>1. Init => OrderInv
  <2> SUFFICES ASSUME Init PROVE OrderInv
    OBVIOUS
  <2>1. TypeOK
    BY OutboxAssumption DEF Init, TypeOK, Phase
  <2>2. Delivered = {}
    BY DEF Init, Delivered
  <2>3. QED
    BY <2>1, <2>2 DEF Init, OrderInv, PublishedWasDelivered, MarkingFollowsPublishing,
                      ClaimsInOrder, HeadOfLineBlocks, FirstCopiesInOrder
<1>2. TypeOK' /\ OrderInv /\ [Next]_vars => OrderInv'
  <2> SUFFICES ASSUME TypeOK', OrderInv, [Next]_vars PROVE OrderInv'
    OBVIOUS
  <2>0. TypeOK
    BY DEF OrderInv
  <2>1. ASSUME NEW e \in Event, LeaseExpires(e) \/ BackoffElapses(e) \/ Requeue(e)
        PROVE  OrderInv'
    BY <2>1, OrderInvFrame DEF LeaseExpires, BackoffElapses, Requeue, workerVars
  <2>2. ASSUME NEW w \in Worker, Publish(w) PROVE OrderInv'
    <3>1. PICK e \in batch[w] :
              /\ InHand(w, e)
              /\ stream' = Append(stream, e)
              /\ phase' = [phase EXCEPT ![w] = "mark"]
              /\ UNCHANGED <<committed, published, batch>>
      BY <2>2 DEF Publish, rowVars
    <3>2. QED
      BY <3>1, OrderInvPublish DEF Phase
  <2>3. ASSUME NEW w \in Worker, PublishFails(w) PROVE OrderInv'
    <3>1. PICK e \in batch[w] :
              /\ InHand(w, e)
              /\ stream' = stream \/ stream' = Append(stream, e)
              /\ phase' = [phase EXCEPT ![w] = "settle"]
              /\ UNCHANGED <<committed, published, batch>>
      BY <2>3 DEF PublishFails, rowVars
    <3>2. CASE stream' = Append(stream, e)
      BY <3>1, <3>2, OrderInvPublish DEF Phase
    <3>3. CASE stream' = stream
      <4>1. /\ phase'[w] # "mark"
            /\ \A v \in Worker \ {w} : phase'[v] = phase[v]
        BY <3>1, <2>0 DEF TypeOK
      <4>2. QED
        BY <3>1, <3>3, <4>1, OrderInvFinish
    <3>4. QED
      BY <3>1, <3>2, <3>3
  <2>4. ASSUME NEW w \in Worker, Mark(w) PROVE OrderInv'
    <3>1. PICK e \in batch[w] :
              /\ InHand(w, e) /\ phase[w] = "mark"
              /\ published' = published \cup {e}
              /\ batch' = [batch EXCEPT ![w] = @ \ {e}]
              /\ phase' = [phase EXCEPT ![w] = "publish"]
              /\ UNCHANGED <<committed, stream>>
      BY <2>4 DEF Mark, SetPublished
    <3>2. e \in Delivered
      BY <3>1 DEF OrderInv, MarkingFollowsPublishing
    <3>3. /\ phase'[w] # "mark"
          /\ \A v \in Worker : batch'[v] \subseteq batch[v]
          /\ \A v \in Worker \ {w} : batch'[v] = batch[v] /\ phase'[v] = phase[v]
      BY <3>1, <2>0 DEF TypeOK
    <3>4. QED
      BY <3>1, <3>2, <3>3, OrderInvFinish
  <2>5. ASSUME NEW w \in Worker, MarkFails(w) PROVE OrderInv'
    <3>1. PICK e \in batch[w] :
              /\ InHand(w, e) /\ phase[w] = "mark"
              /\ published' = published \/ published' = published \cup {e}
              /\ phase' = [phase EXCEPT ![w] = "settle"]
              /\ UNCHANGED <<committed, batch, stream>>
      BY <2>5 DEF MarkFails, SetPublished
    <3>2. e \in Delivered
      BY <3>1 DEF OrderInv, MarkingFollowsPublishing
    <3>3. /\ phase'[w] # "mark"
          /\ \A v \in Worker \ {w} : phase'[v] = phase[v]
      BY <3>1, <2>0 DEF TypeOK
    <3>4. QED
      BY <3>1, <3>2, <3>3, OrderInvFinish
  <2>6. ASSUME NEW w \in Worker,
               MarkRefused(w) \/ Settle(w) \/ SettleRefused(w) \/ Crash(w)
        PROVE  OrderInv'
    <3>1. /\ UNCHANGED <<committed, published, stream>>
          /\ \E s \in {"settle", "publish"} : phase' = [phase EXCEPT ![w] = s]
          /\ \E b \in SUBSET batch[w] : batch' = [batch EXCEPT ![w] = b]
      <4>1. CASE MarkRefused(w)
        <5>1. batch' = [batch EXCEPT ![w] = batch[w]]
          BY <4>1, <2>0 DEF MarkRefused, TypeOK
        <5>2. QED
          BY <4>1, <5>1 DEF MarkRefused, rowVars
      <4>2. CASE Settle(w)
        <5>1. \E e \in batch[w] : batch' = [batch EXCEPT ![w] = batch[w] \ {e}]
          BY <4>2 DEF Settle
        <5>2. QED
          BY <4>2, <5>1 DEF Settle
      <4>3. CASE SettleRefused(w)
        BY <4>3 DEF SettleRefused, Abandon, rowVars
      <4>4. CASE Crash(w)
        BY <4>4 DEF Crash, Abandon, rowVars
      <4>5. QED
        BY <2>6, <4>1, <4>2, <4>3, <4>4
    <3>2. /\ phase'[w] # "mark"
          /\ \A v \in Worker : batch'[v] \subseteq batch[v]
          /\ \A v \in Worker \ {w} : batch'[v] = batch[v] /\ phase'[v] = phase[v]
      BY <3>1, <2>0 DEF TypeOK
    <3>3. QED
      BY <3>1, <3>2, OrderInvFinish
  <2>7. CASE UNCHANGED vars
    BY <2>7, OrderInvFrame DEF vars, rowVars, workerVars
  <2>8. QED
    BY <2>1, <2>2, <2>3, <2>4, <2>5, <2>6, <2>7, OrderInvCommit, OrderInvClaim DEF Next
<1>3. QED
  BY <1>1, <1>2, TypeCorrect, PTL DEF Spec

-----------------------------------------------------------------------------
(* Nothing is lost between PostgreSQL and Redis: a row marked published is *)
(* on the stream, for any number of workers, crashes and lost replies.     *)
THEOREM NothingLost == Spec => []PublishedWasDelivered
<1>1. OrderInv => PublishedWasDelivered
  BY DEF OrderInv
<1>2. QED
  BY <1>1, OrderInvariant, PTL

(* A pending or dead-lettered event of an aggregate with ordered writers   *)
(* keeps its successors off the stream, stale workers included.            *)
THEOREM HeadOfLine == Spec => []HeadOfLineBlocks
<1>1. OrderInv => HeadOfLineBlocks
  BY DEF OrderInv
<1>2. QED
  BY <1>1, OrderInvariant, PTL

(* First copies of the events of an aggregate with ordered writers stand   *)
(* on the stream in durable order.                                         *)
THEOREM FirstCopiesOrdered == Spec => []FirstCopiesInOrder
<1>1. OrderInv => FirstCopiesInOrder
  BY DEF OrderInv
<1>2. QED
  BY <1>1, OrderInvariant, PTL

-----------------------------------------------------------------------------
LEMMA DeadLetterInvariant == Spec => []DeadLetterInv
<1>1. Init => DeadLetterInv
  BY OutboxAssumption DEF Init, DeadLetterInv, TypeOK, Phase, LeasesAreDue, DeadLettersAreExhausted
<1>2. TypeOK' /\ DeadLetterInv /\ [Next]_vars => DeadLetterInv'
  <2> SUFFICES ASSUME TypeOK', DeadLetterInv, [Next]_vars PROVE DeadLetterInv'
    OBVIOUS
  <2> USE OutboxAssumption DEF DeadLetterInv, TypeOK, LeasesAreDue, DeadLettersAreExhausted
  <2>1. ASSUME NEW e \in Event, Commit(e) PROVE DeadLetterInv'
    BY <2>1 DEF Commit, rowVars
  <2>2. ASSUME NEW e \in Event, LeaseExpires(e) \/ BackoffElapses(e) \/ Requeue(e)
        PROVE  DeadLetterInv'
    BY <2>2 DEF LeaseExpires, BackoffElapses, Requeue
  <2>3. ASSUME NEW w \in Worker, Claim(w) PROVE DeadLetterInv'
    BY <2>3 DEF Claim, ClaimBatch, Claimable
  <2>4. ASSUME NEW w \in Worker, Publish(w) \/ PublishFails(w) PROVE DeadLetterInv'
    <3>1. UNCHANGED <<committed, rowVars>>
      BY <2>4 DEF Publish, PublishFails
    <3>2. QED
      BY <3>1 DEF rowVars
  <2>5. ASSUME NEW w \in Worker, Mark(w) \/ MarkFails(w) PROVE DeadLetterInv'
    <3>1. PICK e \in batch[w] :
              /\ UNCHANGED <<committed, available, attempts>>
              /\ \/ UNCHANGED <<published, owner, expired>>
                 \/ StillOwned(w, e) /\ SetPublished(e)
      BY <2>5 DEF Mark, MarkFails
    <3>2. QED
      BY <3>1 DEF StillOwned, SetPublished
  <2>6. ASSUME NEW w \in Worker, Settle(w) PROVE DeadLetterInv'
    BY <2>6 DEF Settle, StillOwned
  <2>7. ASSUME NEW w \in Worker, MarkRefused(w) \/ SettleRefused(w) \/ Crash(w)
        PROVE  DeadLetterInv'
    BY <2>7 DEF MarkRefused, SettleRefused, Crash, rowVars
  <2>8. CASE UNCHANGED vars
    BY <2>8 DEF vars, rowVars
  <2>9. QED
    BY <2>1, <2>2, <2>3, <2>4, <2>5, <2>6, <2>7, <2>8 DEF Next
<1>3. QED
  BY <1>1, <1>2, TypeCorrect, PTL DEF Spec

(* A dead letter has used up its attempts, is unleased and unpublished:    *)
(* requeueDeadLetter can never take back an event that is being worked on. *)
THEOREM DeadLettersExhausted == Spec => []DeadLettersAreExhausted
<1>1. DeadLetterInv => DeadLettersAreExhausted
  BY DEF DeadLetterInv
<1>2. QED
  BY <1>1, DeadLetterInvariant, PTL

-----------------------------------------------------------------------------
(* A set whose elements, but for those of X, are images of those of S.     *)
LEMMA ImageBound ==
    ASSUME NEW S, IsFiniteSet(S), NEW X, IsFiniteSet(X), NEW f, NEW T,
           \A t \in T : t \in X \/ \E s \in S : t = f[s]
    PROVE  IsFiniteSet(T) /\ Cardinality(T) <= Cardinality(S) + Cardinality(X)
<1> DEFINE g == [s \in S |-> f[s]]
           U == {g[s] : s \in S}
<1>1. g \in Surjection(S, U)
  BY DEF Surjection
<1>2. IsFiniteSet(U) /\ Cardinality(U) <= Cardinality(S)
  BY <1>1, FS_Surjection
<1>3. T \subseteq U \cup X
  OBVIOUS
<1> HIDE DEF g, U
<1>4. IsFiniteSet(U \cup X)
      /\ Cardinality(U \cup X) = Cardinality(U) + Cardinality(X) - Cardinality(U \cap X)
  BY <1>2, FS_Union
<1>5. Cardinality(U \cap X) \in Nat
  BY <1>2, FS_Intersection, FS_CardinalityType
<1>6. /\ Cardinality(U) \in Nat /\ Cardinality(S) \in Nat /\ Cardinality(X) \in Nat
      /\ Cardinality(U \cup X) \in Nat
  BY <1>2, <1>4, FS_CardinalityType
<1>7. IsFiniteSet(T) /\ Cardinality(T) <= Cardinality(U \cup X)
  BY <1>3, <1>4, FS_Subset
<1>8. Cardinality(T) \in Nat
  BY <1>7, FS_CardinalityType
<1> QED BY <1>2, <1>4, <1>5, <1>6, <1>7, <1>8

LEMMA DueFacts ==
    ASSUME TypeOK
    PROVE  /\ \A w \in Worker, e \in Event : WillPublish(w, e) => <<w, e>> \in Due
           /\ \A e \in committed : WillBeClaimed(NoWorker, e) => <<NoWorker, e>> \in Due
           /\ \A d \in Due : \/ \E w \in Worker, e \in committed : d = <<w, e>> /\ WillPublish(w, e)
                             \/ \E e \in committed : d = <<NoWorker, e>> /\ WillBeClaimed(NoWorker, e)
<1>1. \A w \in Worker, e \in Event : e \in batch[w] => e \in committed
  BY DEF TypeOK
<1> QED BY <1>1, OutboxAssumption DEF Due, WillPublish, WillBeClaimed

(* What a step has to show of the copies and claims that are due after it. *)
LEMMA DueBound ==
    ASSUME TypeOK, TypeOK', IsFiniteSet(Due), NEW f, NEW X, IsFiniteSet(X),
           \A w \in Worker, e \in committed' :
              WillPublish(w, e)' => <<w, e>> \in X \/ \E d \in Due : <<w, e>> = f[d],
           \A e \in committed' :
              WillBeClaimed(NoWorker, e)' => <<NoWorker, e>> \in X
                                             \/ \E d \in Due : <<NoWorker, e>> = f[d]
    PROVE  IsFiniteSet(Due') /\ Cardinality(Due') <= Cardinality(Due) + Cardinality(X)
<1>1. \A t \in Due' : \/ \E w \in Worker, e \in committed' : t = <<w, e>> /\ WillPublish(w, e)'
                      \/ \E e \in committed' : t = <<NoWorker, e>> /\ WillBeClaimed(NoWorker, e)'
  BY DEF Due, WillPublish, WillBeClaimed
<1>2. \A t \in Due' : t \in X \/ \E d \in Due : t = f[d]
  BY <1>1
<1> QED BY <1>2, ImageBound

(* The same for the many steps that add to the claims at most one.         *)
LEMMA DueStays ==
    ASSUME TypeOK, TypeOK', IsFiniteSet(Due), NEW X, IsFiniteSet(X), committed' = committed,
           \A w \in Worker, e \in committed : WillPublish(w, e)' => WillPublish(w, e),
           \A e \in committed :
              WillBeClaimed(NoWorker, e)' => WillBeClaimed(NoWorker, e) \/ <<NoWorker, e>> \in X
    PROVE  IsFiniteSet(Due') /\ Cardinality(Due') <= Cardinality(Due) + Cardinality(X)
<1>1. PICK f : f = [d \in Due |-> d]
  OBVIOUS
<1>2. \A d \in Due : f[d] = d
  BY <1>1
<1>3. \A w \in Worker, e \in committed' :
         WillPublish(w, e)' => <<w, e>> \in X \/ \E d \in Due : <<w, e>> = f[d]
  <2>1. committed \subseteq Event
    BY DEF TypeOK
  <2> QED BY <1>2, <2>1, DueFacts
<1>4. \A e \in committed' :
         WillBeClaimed(NoWorker, e)' => <<NoWorker, e>> \in X
                                        \/ \E d \in Due : <<NoWorker, e>> = f[d]
  BY <1>2, DueFacts
<1> QED BY <1>3, <1>4, DueBound

LEMMA CopiesAdd ==
    ASSUME TypeOK, TypeOK', CopiesInv, committed' = committed, IsFiniteSet(Due'),
           NEW X, IsFiniteSet(X), Cardinality(Due') <= Cardinality(Due) + Cardinality(X),
           Len(stream') + Cardinality(X) + faults <= Len(stream) + faults'
    PROVE  CopiesInv'
<1>1. Cardinality(X) \in Nat /\ Cardinality(Due) \in Nat /\ Cardinality(Due') \in Nat
      /\ Cardinality(committed) \in Nat
  BY FS_CardinalityType DEF CopiesInv
<1>2. Len(stream) \in Nat /\ Len(stream') \in Nat /\ faults \in Nat /\ faults' \in Nat
  BY OutboxAssumption DEF TypeOK
<1>3. Len(stream') + Cardinality(Due') <= Cardinality(committed) + faults'
  BY <1>1, <1>2 DEF CopiesInv
<1> QED BY <1>3 DEF CopiesInv

LEMMA InHandOnce ==
    ASSUME TypeOK, NEW w \in Worker, NEW e \in batch[w], InHand(w, e)
    PROVE  e \in committed /\ \A f \in batch[w] : f # e => ~InHand(w, f)
<1>1. batch[w] \subseteq Nat /\ e \in committed
  BY OutboxAssumption DEF TypeOK
<1> QED BY <1>1 DEF InHand

(* Steps that only pass time or write elsewhere. *)
LEMMA CopiesOfEvents ==
    ASSUME TypeOK, TypeOK', DeadLetterInv, CopiesInv, NEW e \in Event,
           LeaseExpires(e) \/ BackoffElapses(e) \/ Requeue(e)
    PROVE  CopiesInv'
<1>1. /\ committed' = committed /\ published' = published /\ stream' = stream
      /\ batch' = batch /\ phase' = phase
  BY DEF LeaseExpires, BackoffElapses, Requeue, workerVars
<1>2. IsFiniteSet(Due) /\ faults \in Nat /\ faults' \in Nat /\ Len(stream) \in Nat
  BY OutboxAssumption DEF CopiesInv, TypeOK
<1>3. \A w \in Worker, f \in committed : WillPublish(w, f)' => WillPublish(w, f)
  BY <1>1 DEF WillPublish, InHand
<1>4. CASE faults' = faults /\ \A f \in committed : Kept(f) => Kept(f)'
  <2>1. \A f \in committed : WillBeClaimed(NoWorker, f)' => WillBeClaimed(NoWorker, f)
    BY <1>1, <1>4 DEF WillBeClaimed
  <2>2. IsFiniteSet({}) /\ Cardinality({}) = 0
    BY FS_EmptySet
  <2>3. IsFiniteSet(Due') /\ Cardinality(Due') <= Cardinality(Due) + Cardinality({})
    BY <1>1, <1>2, <1>3, <2>1, <2>2, DueStays
  <2> QED BY <1>1, <1>2, <1>4, <2>2, <2>3, CopiesAdd
<1>5. CASE LeaseExpires(e) /\ e \in batch[owner[e]]
  <2>1. faults' = faults + 1 /\ owner' = owner /\ expired' = expired \cup {e}
    BY <1>5 DEF LeaseExpires, Fault
  <2>2. \A f \in committed : f # e => (Kept(f)' <=> Kept(f))
    BY <1>1, <2>1 DEF Kept, InHand
  <2>3. \A f \in committed :
          WillBeClaimed(NoWorker, f)' => WillBeClaimed(NoWorker, f) \/ <<NoWorker, f>> \in {<<NoWorker, e>>}
    BY <1>1, <2>2 DEF WillBeClaimed
  <2>4. IsFiniteSet({<<NoWorker, e>>}) /\ Cardinality({<<NoWorker, e>>}) = 1
    BY FS_Singleton
  <2>5. PICK X : X = {<<NoWorker, e>>}
    OBVIOUS
  <2>6. IsFiniteSet(Due') /\ Cardinality(Due') <= Cardinality(Due) + Cardinality(X)
    BY <1>1, <1>2, <1>3, <2>3, <2>4, <2>5, DueStays
  <2>7. Len(stream') + Cardinality(X) + faults <= Len(stream) + faults'
    BY <1>1, <1>2, <2>1, <2>4, <2>5
  <2> QED BY <1>1, <2>4, <2>5, <2>6, <2>7, CopiesAdd
<1>6. CASE LeaseExpires(e) /\ e \notin batch[owner[e]]
  <2>1. faults' = faults /\ owner' = owner /\ expired' = expired \cup {e}
    BY <1>6 DEF LeaseExpires
  <2>2. \A f \in committed : Kept(f) => Kept(f)'
    BY <1>1, <1>6, <2>1 DEF Kept, InHand
  <2> QED BY <1>4, <2>1, <2>2
<1>7. CASE BackoffElapses(e)
  <2>1. faults' = faults /\ owner' = owner /\ expired' = expired
    BY <1>7 DEF BackoffElapses
  <2> QED BY <1>1, <1>4, <2>1 DEF Kept, InHand
<1>8. CASE Requeue(e)
  <2>1. /\ faults' = faults /\ e \in committed /\ available[e] = "infinity"
        /\ owner' = [owner EXCEPT ![e] = NoWorker] /\ expired' = expired \ {e}
    BY <1>8 DEF Requeue
  <2>2. owner[e] = NoWorker
    BY <2>1 DEF DeadLetterInv, DeadLettersAreExhausted
  <2>3. owner' = owner
    BY <2>1, <2>2 DEF TypeOK
  <2>4. \A f \in committed : Kept(f) => Kept(f)'
    BY <1>1, <2>1, <2>3 DEF Kept, InHand
  <2> QED BY <1>4, <2>1, <2>4
<1> QED BY <1>5, <1>6, <1>7, <1>8

(* A committed row is due to be claimed. *)
LEMMA CopiesOfCommit ==
    ASSUME TypeOK, TypeOK', CopiesInv, NEW e \in Event, Commit(e)
    PROVE  CopiesInv'
<1>1. /\ e \notin committed /\ committed' = committed \cup {e} /\ stream' = stream
      /\ faults' = faults /\ published' = published /\ owner' = owner /\ expired' = expired
      /\ batch' = batch /\ phase' = phase
  BY DEF Commit, rowVars, workerVars
<1>2. \A w \in Worker : batch[w] \subseteq committed
  BY DEF TypeOK
<1>3. PICK f, X : f = [d \in Due |-> d] /\ X = {<<NoWorker, e>>}
  OBVIOUS
<1>4. IsFiniteSet(X) /\ Cardinality(X) = 1
  BY <1>3, FS_Singleton
<1>5. \A d \in Due : f[d] = d
  BY <1>3
<1>6. \A w \in Worker, g \in committed' :
         WillPublish(w, g)' => <<w, g>> \in X \/ \E d \in Due : <<w, g>> = f[d]
  <2>1. \A w \in Worker, g \in committed' : WillPublish(w, g)' => WillPublish(w, g) /\ g \in Event
    BY <1>1 DEF WillPublish, InHand, TypeOK
  <2> QED BY <1>5, <2>1, DueFacts
<1>7. \A g \in committed' :
         WillBeClaimed(NoWorker, g)' => <<NoWorker, g>> \in X
                                        \/ \E d \in Due : <<NoWorker, g>> = f[d]
  <2>1. \A g \in committed : WillBeClaimed(NoWorker, g)' => WillBeClaimed(NoWorker, g)
    BY <1>1 DEF WillBeClaimed, Kept, InHand
  <2> QED BY <1>1, <1>3, <1>5, <2>1, DueFacts
<1>8. IsFiniteSet(Due') /\ Cardinality(Due') <= Cardinality(Due) + Cardinality(X)
  BY <1>4, <1>6, <1>7, DueBound DEF CopiesInv
<1>9. IsFiniteSet(committed') /\ Cardinality(committed') = Cardinality(committed) + 1
  BY <1>1, FS_AddElement DEF CopiesInv
<1>10. /\ Cardinality(Due) \in Nat /\ Cardinality(Due') \in Nat /\ Cardinality(committed) \in Nat
       /\ Len(stream) \in Nat /\ faults \in Nat
  BY <1>8, FS_CardinalityType, OutboxAssumption DEF CopiesInv, TypeOK
<1>11. Len(stream') + Cardinality(Due') <= Cardinality(committed') + faults'
  BY <1>1, <1>4, <1>8, <1>9, <1>10 DEF CopiesInv
<1> QED BY <1>8, <1>9, <1>11 DEF CopiesInv

(* A claim turns rows that are due to be claimed into copies. *)
LEMMA CopiesOfClaim ==
    ASSUME TypeOK, TypeOK', CopiesInv, NEW w \in Worker, NEW B \in SUBSET committed, ClaimBatch(w, B)
    PROVE  CopiesInv'
<1>1. /\ batch[w] = {} /\ \A e \in B : e \notin published /\ (owner[e] = NoWorker \/ e \in expired)
      /\ committed' = committed /\ published' = published /\ stream' = stream /\ faults' = faults
      /\ \A e \in Event : owner'[e] = IF e \in B THEN w ELSE owner[e]
      /\ expired' = expired \ B
      /\ batch' = [batch EXCEPT ![w] = B] /\ phase' = [phase EXCEPT ![w] = "publish"]
  BY DEF ClaimBatch, Claimable
<1>2. /\ committed \subseteq Event /\ w # NoWorker /\ IsFiniteSet(Due)
      /\ \A v \in Worker : /\ batch'[v] = IF v = w THEN B ELSE batch[v]
                           /\ phase'[v] = IF v = w THEN "publish" ELSE phase[v]
  BY <1>1, OutboxAssumption DEF TypeOK, CopiesInv
<1>3. PICK f : f = [d \in Due |-> IF d[1] = NoWorker /\ d[2] \in B THEN <<w, d[2]>> ELSE d]
  OBVIOUS
<1>4. \A d \in Due : f[d] = IF d[1] = NoWorker /\ d[2] \in B THEN <<w, d[2]>> ELSE d
  BY <1>3
<1>5. ASSUME NEW v \in Worker, NEW g \in committed', WillPublish(v, g)'
      PROVE  \E d \in Due : <<v, g>> = f[d]
  <2>1. CASE v = w
    <3>1. g \in B
      BY <1>2, <1>5, <2>1 DEF WillPublish
    <3>2. WillBeClaimed(NoWorker, g)
      BY <1>1, <3>1 DEF WillBeClaimed, Kept
    <3>3. <<NoWorker, g>> \in Due
      BY <1>1, <3>1, <3>2, DueFacts
    <3> QED BY <1>4, <2>1, <3>1, <3>3
  <2>2. CASE v # w
    <3>1. WillPublish(v, g)
      BY <1>2, <1>5, <2>2 DEF WillPublish, InHand
    <3>2. <<v, g>> \in Due /\ v # NoWorker
      BY <1>1, <1>2, <3>1, DueFacts DEF WillPublish
    <3> QED BY <1>4, <3>2
  <2> QED BY <2>1, <2>2
<1>6. ASSUME NEW g \in committed', WillBeClaimed(NoWorker, g)'
      PROVE  \E d \in Due : <<NoWorker, g>> = f[d]
  <2>1. g \in Event /\ g \in committed /\ g \notin published /\ ~Kept(g)'
    BY <1>1, <1>2, <1>6 DEF WillBeClaimed
  <2>2. g \notin B
    <3>1. SUFFICES ASSUME g \in B PROVE Kept(g)'
      BY <2>1
    <3>2. owner'[g] = w /\ g \notin expired' /\ g \in batch'[w] /\ phase'[w] = "publish"
      BY <1>1, <1>2, <2>1, <3>1
    <3> QED BY <1>2, <3>2 DEF Kept
  <2>3. ~Kept(g)
    <3>1. SUFFICES ASSUME Kept(g) PROVE Kept(g)'
      BY <2>1
    <3>2. owner[g] \in Worker /\ owner[g] # w
      BY <1>1, <2>1, <3>1 DEF Kept, TypeOK
    <3>3. owner'[g] = owner[g] /\ batch'[owner[g]] = batch[owner[g]] /\ phase'[owner[g]] = phase[owner[g]]
      BY <1>1, <1>2, <2>1, <2>2, <3>2
    <3> QED BY <1>1, <3>1, <3>3 DEF Kept, InHand
  <2>4. <<NoWorker, g>> \in Due
    BY <2>1, <2>3, DueFacts DEF WillBeClaimed
  <2> QED BY <1>4, <2>2, <2>4
<1>7. IsFiniteSet({}) /\ Cardinality({}) = 0
  BY FS_EmptySet
<1>8. IsFiniteSet(Due') /\ Cardinality(Due') <= Cardinality(Due) + Cardinality({})
  BY <1>2, <1>5, <1>6, <1>7, DueBound
<1>9. Len(stream') \in Nat /\ faults \in Nat
  BY OutboxAssumption DEF TypeOK
<1> QED BY <1>1, <1>7, <1>8, <1>9, CopiesAdd

(* A worker that has the event it is at published, or fails to. *)
LEMMA CopiesOfPublish ==
    ASSUME TypeOK, TypeOK', CopiesInv, NEW w \in Worker, Publish(w) \/ PublishFails(w)
    PROVE  CopiesInv'
<1>1. PICK e \in batch[w] :
        /\ InHand(w, e) /\ phase[w] = "publish"
        /\ committed' = committed /\ published' = published /\ owner' = owner /\ expired' = expired
        /\ batch' = batch
        /\ \/ /\ phase' = [phase EXCEPT ![w] = "mark"] /\ faults' = faults
              /\ stream' = Append(stream, e)
           \/ /\ phase' = [phase EXCEPT ![w] = "settle"] /\ faults' = faults + 1
              /\ stream' \in {stream, Append(stream, e)}
  BY DEF Publish, PublishFails, Fault, rowVars
<1>2. e \in committed /\ \A f \in batch[w] : f # e => ~InHand(w, f)
  BY <1>1, InHandOnce
<1>3. /\ committed \subseteq Event /\ w # NoWorker /\ IsFiniteSet(Due)
      /\ \A v \in Worker : v # w => phase'[v] = phase[v]
      /\ phase'[w] \in {"mark", "settle"}
      /\ phase'[w] = "settle" => faults' = faults + 1
  BY <1>1, OutboxAssumption DEF TypeOK, CopiesInv
<1>4. <<w, e>> \in Due
  BY <1>1, <1>2, <1>3, DueFacts DEF WillPublish
<1>5. PICK rest, f, X : /\ rest = Due \ {<<w, e>>} /\ f = [d \in rest |-> d]
                        /\ X = IF phase'[w] = "settle" THEN {<<NoWorker, e>>} ELSE {}
  OBVIOUS
<1>6. IsFiniteSet(rest) /\ Cardinality(rest) = Cardinality(Due) - 1
  BY <1>3, <1>4, <1>5, FS_RemoveElement
<1>7. IsFiniteSet(X) /\ Cardinality(X) = IF phase'[w] = "settle" THEN 1 ELSE 0
  BY <1>5, FS_EmptySet, FS_Singleton
<1>8. ASSUME NEW v \in Worker, NEW g \in committed', WillPublish(v, g)'
      PROVE  <<v, g>> \in rest
  <2>1. g \in Event
    BY <1>1, <1>3
  <2>2. WillPublish(v, g) /\ (v # w \/ g # e)
    BY <1>1, <1>3, <1>8 DEF WillPublish, InHand
  <2> QED BY <1>5, <2>1, <2>2, DueFacts
<1>9. ASSUME NEW g \in committed', WillBeClaimed(NoWorker, g)'
      PROVE  <<NoWorker, g>> \in X \/ <<NoWorker, g>> \in rest
  <2>1. g \in committed /\ g \in Event /\ g \notin published /\ ~Kept(g)'
    BY <1>1, <1>3, <1>9 DEF WillBeClaimed
  <2>2. CASE g = e /\ phase'[w] = "settle"
    BY <1>5, <2>2
  <2>3. CASE ~(g = e /\ phase'[w] = "settle")
    <3>1. ~Kept(g)
      <4>1. SUFFICES ASSUME Kept(g) PROVE Kept(g)'
        BY <2>1
      <4>2. owner[g] \in Worker /\ owner[g] # NoWorker
        BY <2>1, <4>1 DEF Kept, TypeOK
      <4>3. CASE owner[g] # w
        BY <1>1, <1>3, <4>1, <4>2, <4>3 DEF Kept, InHand
      <4>4. CASE owner[g] = w /\ g # e
        <5>1. ~InHand(w, g)
          BY <1>2, <4>1, <4>4 DEF Kept
        <5> QED BY <1>1, <4>1, <4>4, <5>1 DEF Kept, InHand
      <4>5. CASE owner[g] = w /\ g = e
        <5>1. phase'[w] # "settle"
          BY <2>3, <4>5
        <5> QED BY <1>1, <4>1, <4>5, <5>1 DEF Kept
      <4> QED BY <4>3, <4>4, <4>5
    <3>2. <<NoWorker, g>> \in Due
      BY <2>1, <3>1, DueFacts DEF WillBeClaimed
    <3> QED BY <1>3, <1>5, <3>2
  <2> QED BY <2>2, <2>3
<1>10. \A t \in Due' : t \in X \/ t \in rest
  <2>1. \A t \in Due' : \/ \E v \in Worker, g \in committed' : t = <<v, g>> /\ WillPublish(v, g)'
                        \/ \E g \in committed' : t = <<NoWorker, g>> /\ WillBeClaimed(NoWorker, g)'
    BY DEF Due, WillPublish, WillBeClaimed
  <2> QED BY <1>8, <1>9, <2>1
<1>11. \A t \in Due' : t \in X \/ \E d \in rest : t = f[d]
  BY <1>5, <1>10
<1>12. IsFiniteSet(Due') /\ Cardinality(Due') <= Cardinality(rest) + Cardinality(X)
  BY <1>6, <1>7, <1>11, ImageBound
<1>13. stream \in Seq(Event) /\ e \in Event /\ Len(stream) \in Nat /\ faults \in Nat
  BY <1>2, <1>3, OutboxAssumption DEF TypeOK
<1>14. Len(stream') <= Len(stream) + 1 /\ Len(stream') \in Nat
  <2>1. Len(Append(stream, e)) = Len(stream) + 1
    BY <1>13
  <2> QED BY <1>1, <1>13, <2>1
<1>15. Cardinality(Due) \in Nat /\ Cardinality(Due') \in Nat /\ Cardinality(committed) \in Nat
  BY <1>12, FS_CardinalityType DEF CopiesInv
<1>16. Len(stream') + Cardinality(Due') <= Cardinality(committed') + faults'
  <2>1. Len(stream) + Cardinality(Due) <= Cardinality(committed) + faults /\ committed' = committed
    BY <1>1 DEF CopiesInv
  <2>2. CASE phase'[w] = "settle"
    BY <1>3, <1>6, <1>7, <1>12, <1>13, <1>14, <1>15, <2>1, <2>2
  <2>3. CASE phase'[w] # "settle"
    <3>1. faults' = faults
      BY <1>1, <2>3 DEF TypeOK
    <3> QED BY <1>3, <1>6, <1>7, <1>12, <1>13, <1>14, <1>15, <2>1, <2>3, <3>1
  <2> QED BY <2>2, <2>3
<1> QED BY <1>1, <1>12, <1>16 DEF CopiesInv

(* Marking and settling: what is due stays so, except that a worker that   *)
(* could not say it had published will have the row claimed once more.     *)
LEMMA CopiesOfEnd ==
    ASSUME TypeOK, TypeOK', CopiesInv, NEW w \in Worker,
           Mark(w) \/ MarkRefused(w) \/ MarkFails(w) \/ Settle(w)
    PROVE  CopiesInv'
<1>1. PICK e \in batch[w] :
        /\ InHand(w, e) /\ phase[w] \in {"mark", "settle"}
        /\ committed' = committed /\ stream' = stream
        /\ \/ UNCHANGED <<published, owner, expired>> /\ ~StillOwned(w, e)
           \/ UNCHANGED <<published, owner, expired>> /\ faults' = faults + 1
           \/ SetPublished(e)
           \/ /\ owner' = [owner EXCEPT ![e] = NoWorker] /\ expired' = expired \ {e}
              /\ published' = published /\ phase[w] = "settle" /\ owner[e] = w
        /\ \/ /\ batch' = [batch EXCEPT ![w] = @ \ {e}]
              /\ phase' = [phase EXCEPT ![w] = "publish"]
              /\ ~UNCHANGED <<published, owner, expired>> \/ owner[e] # w
           \/ batch' = batch /\ phase' = [phase EXCEPT ![w] = "settle"]
        /\ faults' \in {faults, faults + 1}
  <2>1. CASE Mark(w)
    <3>1. PICK e \in batch[w] :
            /\ InHand(w, e) /\ phase[w] = "mark" /\ StillOwned(w, e) /\ SetPublished(e)
            /\ batch' = [batch EXCEPT ![w] = @ \ {e}]
            /\ phase' = [phase EXCEPT ![w] = "publish"]
            /\ UNCHANGED <<committed, available, attempts, stream, faults>>
      BY <2>1 DEF Mark
    <3>2. ~UNCHANGED <<published, owner, expired>>
      BY <3>1 DEF StillOwned, SetPublished
    <3> QED BY <3>1, <3>2
  <2>2. CASE MarkRefused(w)
    BY <2>2 DEF MarkRefused, rowVars
  <2>3. CASE MarkFails(w)
    BY <2>3 DEF MarkFails, Fault
  <2>4. CASE Settle(w)
    <3>1. PICK e \in batch[w] :
            /\ InHand(w, e) /\ phase[w] = "settle" /\ StillOwned(w, e)
            /\ owner' = [owner EXCEPT ![e] = NoWorker] /\ expired' = expired \ {e}
            /\ batch' = [batch EXCEPT ![w] = @ \ {e}]
            /\ phase' = [phase EXCEPT ![w] = "publish"]
            /\ UNCHANGED <<committed, published, attempts, stream, faults>>
      BY <2>4 DEF Settle
    <3>2. ~UNCHANGED <<published, owner, expired>>
      <4>1. e \in Event /\ owner[e] = w /\ w # NoWorker
        BY <3>1, OutboxAssumption DEF StillOwned, TypeOK
      <4>2. owner'[e] = NoWorker
        BY <3>1, <4>1 DEF TypeOK
      <4> QED BY <4>1, <4>2
    <3> QED BY <3>1, <3>2 DEF StillOwned
  <2> QED BY <2>1, <2>2, <2>3, <2>4
<1>2. e \in committed /\ \A f \in batch[w] : f # e => ~InHand(w, f)
  BY <1>1, InHandOnce
<1>3. /\ committed \subseteq Event /\ w # NoWorker /\ IsFiniteSet(Due) /\ Len(stream) \in Nat
      /\ faults \in Nat
      /\ \A v \in Worker : v # w => phase'[v] = phase[v] /\ batch'[v] = batch[v]
      /\ batch'[w] \subseteq batch[w] /\ batch[w] \subseteq batch'[w] \cup {e}
      /\ \A g \in Event : g # e => /\ owner'[g] = owner[g] /\ (g \in expired' <=> g \in expired)
                                   /\ (g \in published' <=> g \in published)
      /\ published \subseteq published'
  BY <1>1, OutboxAssumption DEF TypeOK, CopiesInv, SetPublished
<1>4. phase'[w] = "publish" => e \notin batch'[w]
  BY <1>1 DEF TypeOK
<1>5. phase'[w] \in {"publish", "settle"}
  BY <1>1 DEF TypeOK
<1>6. \A g \in batch'[w] : g # e => ~InHand(w, g)
  BY <1>2, <1>3
<1>7. ASSUME NEW v \in Worker, NEW g \in committed, WillPublish(v, g)'
      PROVE  WillPublish(v, g)
  <2>1. CASE v # w
    BY <1>3, <1>7, <2>1 DEF WillPublish, InHand
  <2>2. CASE v = w
    <3>1. g # e
      <4>1. SUFFICES ASSUME g = e PROVE FALSE
        OBVIOUS
      <4>2. e \in batch'[w]
        BY <1>7, <2>2, <4>1 DEF WillPublish
      <4>3. phase'[w] = "settle" /\ batch' = batch
        BY <1>1, <1>4, <1>5, <4>2 DEF TypeOK
      <4> QED BY <1>1, <1>7, <2>2, <4>1, <4>3 DEF WillPublish, InHand
    <3>2. ~InHand(w, g) /\ g \in batch[w]
      BY <1>3, <1>6, <1>7, <2>2, <3>1 DEF WillPublish
    <3> QED BY <1>7, <2>2, <3>2 DEF WillPublish
  <2> QED BY <2>1, <2>2
<1>8. ASSUME NEW g \in committed, g # e, Kept(g)
      PROVE  Kept(g)'
  <2>1. g \in Event /\ owner[g] \in Worker /\ owner'[g] = owner[g] /\ g \notin expired'
    BY <1>3, <1>8 DEF Kept, TypeOK
  <2>2. CASE owner[g] # w
    BY <1>3, <1>8, <2>1, <2>2 DEF Kept, InHand
  <2>3. CASE owner[g] = w
    <3>1. g \in batch'[w] /\ g \in batch[w]
      BY <1>3, <1>8, <2>3 DEF Kept
    <3>2. phase'[w] = "settle" => ~InHand(w, g)'
      <4>1. SUFFICES ASSUME phase'[w] = "settle" PROVE ~InHand(w, g)'
        OBVIOUS
      <4>2. batch' = batch
        BY <1>1, <4>1 DEF TypeOK
      <4> QED BY <1>2, <1>8, <3>1, <4>2 DEF InHand
    <3> QED BY <1>8, <2>1, <2>3, <3>1, <3>2 DEF Kept
  <2> QED BY <2>2, <2>3
<1>9. \A g \in committed : g # e /\ WillBeClaimed(NoWorker, g)' => WillBeClaimed(NoWorker, g)
  BY <1>3, <1>8 DEF WillBeClaimed
<1>10. CASE faults' = faults + 1
  <2>1. PICK X : X = {<<NoWorker, e>>}
    OBVIOUS
  <2>2. IsFiniteSet(X) /\ Cardinality(X) = 1
    BY <2>1, FS_Singleton
  <2>3. \A g \in committed :
          WillBeClaimed(NoWorker, g)' => WillBeClaimed(NoWorker, g) \/ <<NoWorker, g>> \in X
    BY <1>9, <2>1
  <2>4. IsFiniteSet(Due') /\ Cardinality(Due') <= Cardinality(Due) + Cardinality(X)
    BY <1>1, <1>3, <1>7, <2>2, <2>3, DueStays
  <2>5. Len(stream') + Cardinality(X) + faults <= Len(stream) + faults'
    BY <1>1, <1>3, <1>10, <2>2
  <2> QED BY <1>1, <2>2, <2>4, <2>5, CopiesAdd
<1>11. CASE faults' = faults
  <2>1. WillBeClaimed(NoWorker, e)' => WillBeClaimed(NoWorker, e)
    <3>1. SUFFICES ASSUME e \notin published', ~Kept(e)' PROVE e \notin published /\ ~Kept(e)
      BY DEF WillBeClaimed
    <3>2. e \notin published /\ ~SetPublished(e)
      BY <1>3, <3>1 DEF SetPublished
    <3>3. faults' # faults + 1
      BY <1>3, <1>11
    <3>4. CASE ~StillOwned(w, e) /\ UNCHANGED <<published, owner, expired>>
      <4>1. owner[e] # w
        BY <3>2, <3>4 DEF StillOwned
      <4>2. Kept(e) => owner[e] \in Worker
        BY <1>2, <1>3 DEF Kept, TypeOK
      <4>3. Kept(e) => Kept(e)'
        BY <1>3, <3>4, <4>1, <4>2 DEF Kept, InHand
      <4> QED BY <3>1, <3>2, <4>3
    <3>5. CASE phase[w] = "settle" /\ owner[e] = w
      BY <1>1, <3>2, <3>5 DEF Kept
    <3> QED BY <1>1, <3>2, <3>3, <3>4, <3>5
  <2>2. IsFiniteSet({}) /\ Cardinality({}) = 0
    BY FS_EmptySet
  <2>3. \A g \in committed : WillBeClaimed(NoWorker, g)' => WillBeClaimed(NoWorker, g)
    BY <1>9, <2>1
  <2>4. IsFiniteSet(Due') /\ Cardinality(Due') <= Cardinality(Due) + Cardinality({})
    BY <1>1, <1>3, <1>7, <2>2, <2>3, DueStays
  <2> QED BY <1>1, <1>3, <1>11, <2>2, <2>4, CopiesAdd
<1> QED BY <1>1, <1>10, <1>11

(* A batch that is given up: what its worker would have published is due   *)
(* to be claimed, and so is the event it was at, if that was published but *)
(* not marked.                                                             *)
LEMMA CopiesOfAbandon ==
    ASSUME TypeOK, TypeOK', CopiesInv, NEW w \in Worker, SettleRefused(w) \/ Crash(w)
    PROVE  CopiesInv'
<1>1. /\ committed' = committed /\ published' = published /\ stream' = stream
      /\ owner' = owner /\ expired' = expired
      /\ batch' = [batch EXCEPT ![w] = {}] /\ phase' = [phase EXCEPT ![w] = "publish"]
      /\ \/ faults' = faults + 1
         \/ faults' = faults /\ \E e \in batch[w] : InHand(w, e) /\ ~StillOwned(w, e)
  BY DEF SettleRefused, Crash, Abandon, Fault, rowVars
<1>2. /\ committed \subseteq Event /\ w # NoWorker /\ IsFiniteSet(Due) /\ Len(stream) \in Nat
      /\ faults \in Nat /\ batch'[w] = {}
      /\ \A v \in Worker : v # w => phase'[v] = phase[v] /\ batch'[v] = batch[v]
  BY <1>1, OutboxAssumption DEF TypeOK, CopiesInv
<1>3. PICK f, X : /\ f = [d \in Due |-> IF d[1] = w THEN <<NoWorker, d[2]>> ELSE d]
                  /\ X = IF faults' = faults THEN {}
                         ELSE {<<NoWorker, CHOOSE e : e \in batch[w] /\ InHand(w, e)>>}
  OBVIOUS
<1>4. \A d \in Due : f[d] = IF d[1] = w THEN <<NoWorker, d[2]>> ELSE d
  BY <1>3
<1>5. IsFiniteSet(X) /\ Cardinality(X) = IF faults' = faults THEN 0 ELSE 1
  BY <1>3, FS_EmptySet, FS_Singleton
<1>6. ASSUME NEW v \in Worker, NEW g \in committed', WillPublish(v, g)'
      PROVE  \E d \in Due : <<v, g>> = f[d]
  <2>1. v # w /\ g \in Event
    BY <1>1, <1>2, <1>6 DEF WillPublish
  <2>2. WillPublish(v, g)
    BY <1>2, <1>6, <2>1 DEF WillPublish, InHand
  <2>3. <<v, g>> \in Due
    BY <2>1, <2>2, DueFacts
  <2> QED BY <1>4, <2>1, <2>3
<1>7. ASSUME NEW g \in committed', WillBeClaimed(NoWorker, g)'
      PROVE  <<NoWorker, g>> \in X \/ \E d \in Due : <<NoWorker, g>> = f[d]
  <2>1. g \in committed /\ g \in Event /\ g \notin published /\ ~Kept(g)'
    BY <1>1, <1>2, <1>7 DEF WillBeClaimed
  <2>2. CASE ~Kept(g)
    <3>1. <<NoWorker, g>> \in Due
      BY <2>1, <2>2, DueFacts DEF WillBeClaimed
    <3> QED BY <1>2, <1>4, <3>1
  <2>3. CASE Kept(g)
    <3>1. owner[g] = w /\ g \in batch[w]
      <4>1. owner[g] \in Worker
        BY <2>1, <2>3 DEF Kept, TypeOK
      <4>2. owner[g] # w => Kept(g)'
        BY <1>1, <1>2, <2>3, <4>1 DEF Kept, InHand
      <4> QED BY <2>1, <2>3, <4>2 DEF Kept
    <3>2. CASE ~InHand(w, g)
      <4>1. WillPublish(w, g)
        BY <1>2, <3>1, <3>2 DEF WillPublish
      <4>2. <<w, g>> \in Due
        BY <2>1, <4>1, DueFacts
      <4> QED BY <1>4, <4>2
    <3>3. CASE InHand(w, g)
      <4>1. \A e \in batch[w] : InHand(w, e) => e = g
        BY <3>1, <3>3, InHandOnce
      <4>2. faults' # faults
        BY <1>1, <1>2, <2>1, <3>1, <4>1 DEF StillOwned
      <4>3. (CHOOSE e : e \in batch[w] /\ InHand(w, e)) = g
        BY <3>1, <3>3, <4>1
      <4> QED BY <1>3, <4>2, <4>3
    <3> QED BY <3>2, <3>3
  <2> QED BY <2>2, <2>3
<1>8. IsFiniteSet(Due') /\ Cardinality(Due') <= Cardinality(Due) + Cardinality(X)
  BY <1>2, <1>5, <1>6, <1>7, DueBound
<1>9. Len(stream') + Cardinality(X) + faults <= Len(stream) + faults'
  BY <1>1, <1>2, <1>5
<1> QED BY <1>1, <1>5, <1>8, <1>9, CopiesAdd

LEMMA CopiesInvariant == Spec => []CopiesInv
<1>1. Init => CopiesInv
  <2> SUFFICES ASSUME Init PROVE CopiesInv
    OBVIOUS
  <2>1. committed = {} /\ Due = {} /\ Len(stream) = 0 /\ faults = 0
    BY DEF Init, Due
  <2> QED BY <2>1, FS_EmptySet DEF CopiesInv
<1>2. TypeOK /\ TypeOK' /\ DeadLetterInv /\ CopiesInv /\ [Next]_vars => CopiesInv'
  <2> SUFFICES ASSUME TypeOK, TypeOK', DeadLetterInv, CopiesInv, [Next]_vars PROVE CopiesInv'
    OBVIOUS
  <2>1. ASSUME NEW w \in Worker, Claim(w) PROVE CopiesInv'
    BY <2>1, CopiesOfClaim DEF Claim
  <2>2. CASE UNCHANGED vars
    BY <2>2 DEF vars, rowVars, workerVars, CopiesInv, Due, WillPublish, WillBeClaimed, Kept, InHand
  <2> QED BY <2>1, <2>2, CopiesOfCommit, CopiesOfEvents, CopiesOfPublish, CopiesOfEnd,
             CopiesOfAbandon DEF Next
<1> QED BY <1>1, <1>2, TypeCorrect, DeadLetterInvariant, PTL DEF Spec

(* Every copy beyond the first is paid for by a fault: a crash, a stall    *)
(* past the lease, a failed call or a lost reply.                          *)
THEOREM DuplicatesArePaidFor == Spec => []DuplicatesNeedFaults
<1>1. TypeOK /\ OrderInv /\ CopiesInv => DuplicatesNeedFaults
  <2> SUFFICES ASSUME TypeOK, OrderInv, CopiesInv PROVE DuplicatesNeedFaults
    OBVIOUS
  <2>1. Delivered \subseteq committed /\ IsFiniteSet(Delivered)
    BY FS_Subset DEF OrderInv, CopiesInv
  <2>2. PICK f : f = [d \in Due |-> d[2]]
    OBVIOUS
  <2>3. ASSUME NEW e \in committed, e \notin Delivered
        PROVE  \E d \in Due : e = f[d]
    <3>1. e \in Event /\ e \notin published
      BY <2>3 DEF TypeOK, OrderInv, PublishedWasDelivered
    <3>2. CASE ~Kept(e)
      <4>1. <<NoWorker, e>> \in Due
        BY <3>1, <3>2, DueFacts DEF WillBeClaimed
      <4> QED BY <2>2, <4>1
    <3>3. CASE Kept(e)
      <4>1. owner[e] \in Worker /\ owner[e] # NoWorker /\ e \in batch[owner[e]]
        BY <3>1, <3>3 DEF Kept, TypeOK
      <4>2. InHand(owner[e], e) => phase[owner[e]] \notin {"mark", "settle"}
        BY <2>3, <3>3, <4>1 DEF Kept, OrderInv, MarkingFollowsPublishing
      <4>3. phase[owner[e]] \in Phase
        BY <4>1 DEF TypeOK
      <4>4. WillPublish(owner[e], e)
        BY <4>1, <4>2, <4>3 DEF WillPublish, Phase
      <4>5. <<owner[e], e>> \in Due
        BY <3>1, <4>1, <4>4, DueFacts
      <4> QED BY <2>2, <4>5
    <3> QED BY <3>2, <3>3
  <2>4. Cardinality(committed) <= Cardinality(Due) + Cardinality(Delivered)
    BY <2>1, <2>3, ImageBound DEF CopiesInv
  <2>5. /\ Cardinality(committed) \in Nat /\ Cardinality(Due) \in Nat
        /\ Cardinality(Delivered) \in Nat /\ Len(stream) \in Nat /\ faults \in Nat
    BY <2>1, FS_CardinalityType, OutboxAssumption DEF CopiesInv, TypeOK
  <2> QED BY <2>4, <2>5 DEF CopiesInv, DuplicatesNeedFaults
<1> QED BY <1>1, TypeCorrect, OrderInvariant, CopiesInvariant, PTL

-----------------------------------------------------------------------------
(* The pump, with all its leases, retries and crashes, implements the      *)
(* ordered feed.                                                           *)
THEOREM Refinement == Spec => ImplementsOrderedFeed
<1>1. Init => Feed!Init
  BY DEF Init, Feed!Init, Delivered
<1>2. OrderInv /\ [Next]_vars => [Feed!Next]_(Feed!vars)
  <2> SUFFICES ASSUME OrderInv, [Next]_vars PROVE [Feed!Next]_(Feed!vars)
    OBVIOUS
  <2>0. TypeOK
    BY DEF OrderInv
  <2>1. ASSUME NEW e \in Event, Commit(e) PROVE Feed!Next
    <3>1. AggregateOf[e] \in Serialized =>
             \A f \in committed : AggregateOf[f] = AggregateOf[e] => f < e
      BY <2>0, <2>1, OutboxAssumption DEF Commit, Precedes, TypeOK
    <3>2. Feed!Commit(e)
      BY <2>1, <3>1 DEF Commit, Feed!Commit, Delivered
    <3>3. QED
      BY <3>2 DEF Feed!Next
  <2>2. ASSUME NEW w \in Worker, NEW e \in batch[w], stream' = Append(stream, e),
               UNCHANGED committed
        PROVE  [Feed!Next]_(Feed!vars)
    <3>1. e \in committed /\ e \in Event /\ stream \in Seq(Event)
      BY <2>0 DEF TypeOK
    <3>2. Delivered' = Delivered \cup {e}
      BY <2>2, <3>1, AppendRange DEF Delivered
    <3>3. AggregateOf[e] \in Serialized => Feed!Predecessors(e) \subseteq Delivered
      BY DEF OrderInv, ClaimsInOrder, PublishedWasDelivered, Precedes, Feed!Predecessors
    <3>4. CASE e \in Delivered
      BY <2>2, <3>2, <3>4 DEF Feed!vars
    <3>5. CASE e \notin Delivered
      BY <2>2, <3>1, <3>2, <3>3, <3>5 DEF Feed!Next, Feed!Deliver
    <3>6. QED
      BY <3>4, <3>5
  <2>3. ASSUME UNCHANGED <<committed, stream>> PROVE [Feed!Next]_(Feed!vars)
    BY <2>3 DEF Feed!vars, Delivered
  <2>4. ASSUME NEW w \in Worker, Publish(w) \/ PublishFails(w)
        PROVE  [Feed!Next]_(Feed!vars)
    <3>1. /\ UNCHANGED committed
          /\ stream' = stream \/ \E e \in batch[w] : stream' = Append(stream, e)
      BY <2>4 DEF Publish, PublishFails
    <3>2. QED
      BY <3>1, <2>2, <2>3
  <2>5. ASSUME NEW w \in Worker,
               \/ Claim(w) \/ Mark(w) \/ MarkRefused(w) \/ MarkFails(w)
               \/ Settle(w) \/ SettleRefused(w) \/ Crash(w)
        PROVE  UNCHANGED <<committed, stream>>
    BY <2>5 DEF Claim, ClaimBatch, Mark, MarkRefused, MarkFails, Settle, SettleRefused, Crash
  <2>6. ASSUME NEW e \in Event, LeaseExpires(e) \/ BackoffElapses(e) \/ Requeue(e)
        PROVE  UNCHANGED <<committed, stream>>
    BY <2>6 DEF LeaseExpires, BackoffElapses, Requeue
  <2>7. CASE UNCHANGED vars
    BY <2>3, <2>7 DEF vars
  <2>8. QED
    BY <2>1, <2>3, <2>4, <2>5, <2>6, <2>7 DEF Next
<1>3. QED
  BY <1>1, <1>2, OrderInvariant, PTL DEF Spec, ImplementsOrderedFeed, Feed!Spec
=============================================================================
