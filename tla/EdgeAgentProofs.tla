-------------------------- MODULE EdgeAgentProofs --------------------------
(***************************************************************************)
(* Proofs about EdgeAgent for every row content, batch size and bound.     *)
(***************************************************************************)
EXTENDS EdgeAgent, SequenceTheorems, FiniteSetTheorems, TLAPS

-----------------------------------------------------------------------------
(* Sequences: inserting into the line. *)

LEMMA InsertAtProperties ==
    ASSUME line \in Seq(Nat), NEW p \in 0 .. Len(line), NEW s \in Seq(Nat)
    PROVE  /\ InsertAt(p, s) \in Seq(Nat)
           /\ Len(InsertAt(p, s)) = Len(line) + Len(s)
           /\ \A i \in 1 .. p : InsertAt(p, s)[i] = line[i]
           /\ \A i \in 1 .. Len(s) : InsertAt(p, s)[p + i] = s[i]
           /\ \A i \in p + 1 .. Len(line) : InsertAt(p, s)[Len(s) + i] = line[i]
<1> DEFINE l == SubSeq(line, 1, p)
           r == SubSeq(line, p + 1, Len(line))
           n == Len(line)
           k == Len(s)
<1>1. /\ l \in Seq(Nat) /\ Len(l) = p
      /\ \A i \in 1 .. p : l[i] = line[i]
  BY SubSeqProperties, SMTT(30)
<1>2. /\ r \in Seq(Nat) /\ Len(r) = n - p
      /\ \A i \in 1 .. n - p : r[i] = line[p + i]
  BY SubSeqProperties, SMTT(30)
<1>3. InsertAt(p, s) = (l \o s) \o r
  BY DEF InsertAt
<1>n. n \in Nat /\ k \in Nat /\ p \in 0 .. n
  OBVIOUS
<1> HIDE DEF l, r
<1>4. /\ l \o s \in Seq(Nat) /\ Len(l \o s) = p + k
      /\ \A i \in 1 .. p + k : (l \o s)[i] = IF i <= p THEN l[i] ELSE s[i - p]
  BY <1>1, ConcatProperties, Zenon
<1> DEFINE h == l \o s
<1>5. /\ h \o r \in Seq(Nat) /\ Len(h \o r) = n + k
      /\ \A i \in 1 .. n + k : (h \o r)[i] = IF i <= p + k THEN h[i] ELSE r[i - (p + k)]
  <2>1. /\ h \o r \in Seq(Nat)
        /\ Len(h \o r) = Len(h) + Len(r)
        /\ \A i \in 1 .. Len(h) + Len(r) : (h \o r)[i] =
              IF i <= Len(h) THEN h[i] ELSE r[i - Len(h)]
    BY <1>2, <1>4, ConcatProperties, Zenon
  <2>2. Len(h) + Len(r) = n + k
    BY <1>2, <1>4, <1>n
  <2>3. QED
    BY <2>1, <2>2, <1>4
<1> DEFINE t == h \o r
<1> HIDE DEF n, k, h, t
<1>h. /\ \A i \in 1 .. p + k : h[i] = IF i <= p THEN l[i] ELSE s[i - p]
      /\ \A i \in 1 .. n + k : t[i] = IF i <= p + k THEN h[i] ELSE r[i - (p + k)]
  BY <1>4, <1>5 DEF h, t
<1>6. ASSUME NEW i \in 1 .. p PROVE t[i] = line[i]
  <2>1. i \in 1 .. n + k /\ i <= p + k /\ i \in 1 .. p + k
    BY <1>n
  <2>2. t[i] = h[i] /\ h[i] = l[i]
    BY <1>h, <2>1
  <2>3. QED
    BY <2>2, <1>1
<1>7. ASSUME NEW i \in 1 .. k PROVE t[p + i] = s[i]
  <2>1. p + i \in 1 .. n + k /\ p + i \in 1 .. p + k /\ ~(p + i <= p) /\ (p + i) - p = i
    BY <1>n
  <2>2. t[p + i] = h[p + i] /\ h[p + i] = s[(p + i) - p]
    BY <1>h, <2>1
  <2>3. QED
    BY <2>1, <2>2
<1>8. ASSUME NEW i \in p + 1 .. n PROVE t[k + i] = line[i]
  <2>1. k + i \in 1 .. n + k /\ ~(k + i <= p + k) /\ (k + i) - (p + k) = i - p
    BY <1>n
  <2>2. t[k + i] = r[i - p]
    BY <1>h, <2>1
  <2>3. i - p \in 1 .. n - p /\ p + (i - p) = i
    BY <1>n
  <2>4. r[i - p] = line[p + (i - p)]
    BY <1>2, <2>3
  <2>5. QED
    BY <2>2, <2>3, <2>4
<1>9. InsertAt(p, s) = t
  BY <1>3 DEF t, h
<1>10. QED
  BY <1>5, <1>6, <1>7, <1>8, <1>9 DEF n, k, t

(* Where a place of the longer line comes from.                            *)
LEMMA InsertAtPlaces ==
    ASSUME NEW n \in Nat, NEW k \in Nat, NEW p \in 0 .. n, NEW i \in 1 .. n + k
    PROVE  \/ i \in 1 .. p
           \/ \E j \in 1 .. k : i = p + j
           \/ \E j \in p + 1 .. n : i = k + j
<1>1. CASE i <= p
  BY <1>1
<1>2. CASE p < i /\ i <= p + k
  <2>1. i - p \in 1 .. k /\ i = p + (i - p)
    BY <1>2
  <2>2. QED
    BY <2>1
<1>3. CASE p + k < i
  <2>1. i - k \in p + 1 .. n /\ i = k + (i - k)
    BY <1>3
  <2>2. QED
    BY <2>1
<1>4. QED
  BY <1>1, <1>2, <1>3

(* Distinct new values keep the line free of repetitions.                  *)
LEMMA InsertAtDistinct ==
    ASSUME line \in Seq(Nat), NEW p \in 0 .. Len(line), NEW s \in Seq(Nat),
           Distinct(line), Distinct(s), Values(line) \cap Values(s) = {}
    PROVE  /\ Distinct(InsertAt(p, s))
           /\ Values(InsertAt(p, s)) = Values(line) \cup Values(s)
<1> DEFINE t == InsertAt(p, s)
           n == Len(line)
           k == Len(s)
<1>0. /\ t \in Seq(Nat) /\ Len(t) = n + k
      /\ \A i \in 1 .. p : t[i] = line[i]
      /\ \A i \in 1 .. k : t[p + i] = s[i]
      /\ \A i \in p + 1 .. n : t[k + i] = line[i]
  BY InsertAtProperties, Zenon
<1> HIDE DEF t
<1>1. /\ t \in Seq(Nat) /\ Len(t) = n + k /\ n \in Nat /\ k \in Nat /\ p \in 0 .. n
      /\ \A i \in 1 .. p : t[i] = line[i]
      /\ \A i \in 1 .. k : t[p + i] = s[i]
      /\ \A i \in p + 1 .. n : t[k + i] = line[i]
  BY <1>0
<1>2. DOMAIN line = 1 .. n /\ DOMAIN s = 1 .. k /\ DOMAIN t = 1 .. n + k
  BY <1>1
<1>3. /\ \A i \in 1 .. n, j \in 1 .. k : line[i] # s[j]
      /\ \A a, b \in 1 .. n : line[a] = line[b] => a = b
      /\ \A a, b \in 1 .. k : s[a] = s[b] => a = b
  <2>1. ASSUME NEW i \in 1 .. n, NEW j \in 1 .. k, line[i] = s[j] PROVE FALSE
    <3>1. line[i] \in Values(line) /\ s[j] \in Values(s)
      BY <1>2 DEF Values
    <3>2. QED
      BY <2>1, <3>1
  <2>2. \A a, b \in 1 .. n : line[a] = line[b] => a = b
    BY <1>2 DEF Distinct
  <2>3. \A a, b \in 1 .. k : s[a] = s[b] => a = b
    BY <1>2 DEF Distinct
  <2>4. QED
    BY <2>1, <2>2, <2>3
<1> HIDE DEF n, k
<1>4. ASSUME NEW i \in 1 .. n + k
      PROVE  \/ i \in 1 .. p /\ i \in 1 .. n /\ t[i] = line[i]
             \/ \E j \in 1 .. k : i = p + j /\ t[i] = s[j]
             \/ \E j \in p + 1 .. n : i = k + j /\ j \in 1 .. n /\ t[i] = line[j]
  <2>1. n \in Nat /\ k \in Nat /\ p \in 0 .. n
    BY <1>1
  <2>2. \/ i \in 1 .. p
        \/ \E j \in 1 .. k : i = p + j
        \/ \E j \in p + 1 .. n : i = k + j
    BY <2>1, InsertAtPlaces
  <2>3. ASSUME i \in 1 .. p PROVE i \in 1 .. n /\ t[i] = line[i]
    BY <1>1, <2>1, <2>3
  <2>4. ASSUME NEW j \in 1 .. k, i = p + j PROVE t[i] = s[j]
    BY <1>1, <2>4
  <2>5. ASSUME NEW j \in p + 1 .. n, i = k + j PROVE j \in 1 .. n /\ t[i] = line[j]
    BY <1>1, <2>1, <2>5
  <2>6. QED
    BY <2>2, <2>3, <2>4, <2>5
<1>5. ASSUME NEW i \in 1 .. n + k, NEW j \in 1 .. n + k, t[i] = t[j]
      PROVE  i = j
  <2>1. ASSUME NEW a \in 1 .. k, i = p + a, t[i] = s[a] PROVE i = j
    <3>1. t[j] \notin {line[b] : b \in 1 .. n}
      BY <2>1, <1>5, <1>3
    <3>2. PICK b \in 1 .. k : j = p + b /\ t[j] = s[b]
      BY <3>1, <1>4
    <3>3. a = b
      BY <2>1, <3>2, <1>3, <1>5
    <3>4. QED
      BY <2>1, <3>2, <3>3
  <2>2. ASSUME NEW a \in 1 .. n, t[i] = line[a] PROVE j \notin {p + b : b \in {x \in 1 .. k : t[j] = s[x]}}
    BY <2>2, <1>3, <1>5
  <2>3. CASE i \in 1 .. p /\ i \in 1 .. n /\ t[i] = line[i]
    <3>1. CASE j \in 1 .. p /\ j \in 1 .. n /\ t[j] = line[j]
      BY <2>3, <3>1, <1>3, <1>5
    <3>2. ASSUME NEW b \in p + 1 .. n, j = k + b, b \in 1 .. n, t[j] = line[b] PROVE FALSE
      <4>1. i = b
        BY <2>3, <3>2, <1>3, <1>5
      <4>2. QED
        BY <4>1, <2>3, <1>1
    <3>3. QED
      BY <1>4, <2>2, <2>3, <3>1, <3>2
  <2>4. ASSUME NEW a \in p + 1 .. n, i = k + a, a \in 1 .. n, t[i] = line[a] PROVE i = j
    <3>1. CASE j \in 1 .. p /\ j \in 1 .. n /\ t[j] = line[j]
      <4>1. j = a
        BY <2>4, <3>1, <1>3, <1>5
      <4>2. QED
        BY <4>1, <3>1, <1>1
    <3>2. ASSUME NEW b \in p + 1 .. n, j = k + b, b \in 1 .. n, t[j] = line[b] PROVE i = j
      BY <2>4, <3>2, <1>3, <1>5
    <3>3. QED
      BY <1>4, <2>2, <2>4, <3>1, <3>2
  <2>5. QED
    BY <2>1, <2>3, <2>4, <1>4
<1>6. Values(t) \subseteq Values(line) \cup Values(s)
  BY <1>2, <1>4 DEF Values
<1>7. ASSUME NEW i \in 1 .. n PROVE line[i] \in Values(t)
  <2>1. CASE i <= p
    <3>1. i \in 1 .. p /\ i \in 1 .. n + k
      BY <2>1, <1>1
    <3>2. QED
      BY <3>1, <1>1, <1>2 DEF Values
  <2>2. CASE i > p
    <3>1. i \in p + 1 .. n /\ k + i \in 1 .. n + k
      BY <2>2, <1>1
    <3>2. QED
      BY <3>1, <1>1, <1>2 DEF Values
  <2>3. QED
    BY <2>1, <2>2, <1>1
<1>8. ASSUME NEW i \in 1 .. k PROVE s[i] \in Values(t)
  <2>1. p + i \in 1 .. n + k
    BY <1>1
  <2>2. QED
    BY <2>1, <1>1, <1>2 DEF Values
<1>9. Values(t) = Values(line) \cup Values(s)
  BY <1>2, <1>6, <1>7, <1>8 DEF Values
<1>10. QED
  BY <1>2, <1>5, <1>9 DEF Distinct, t

-----------------------------------------------------------------------------
(* The poll loop. *)

LEMMA InitInv == Init => EdgeInv
<1> SUFFICES ASSUME Init PROVE EdgeInv
  OBVIOUS
<1> USE EdgeAssumption DEF Init, NoCheckpoint, NoPoll, NoSending, NoFile
<1>1. TypeOK
  BY DEF TypeOK, Checkpoint, Batch, State
<1>2. CollectInv
  BY DEF CollectInv, CheckpointMatchesQueue, QueuedWasArchived, PollKnows
<1>3. DeliverInv
  BY DEF DeliverInv, AcceptedOnce, SentWasAccepted, NothingStranded, Distinct, Values, Waiting
<1>4. QED
  BY <1>1, <1>2, <1>3 DEF EdgeInv

(* Steps that leave the queue, the line, the delivery and the endpoint     *)
(* alone keep what is said of them.                                        *)
LEMMA DeliverKept ==
    ASSUME DeliverInv, UNCHANGED <<queue, line, sending, requests, accepted>>
    PROVE  DeliverInv'
BY DEF DeliverInv, AcceptedOnce, SentWasAccepted, NothingStranded, Distinct, Values,
       Waiting, Leased

(* Steps of the delivery do not touch the rows of a batch.                 *)
LEMMA CollectKept ==
    ASSUME TypeOK, CollectInv, UNCHANGED <<checkpoint, archived, poll>>,
           queue' \in Seq(Batch), Len(queue') = Len(queue),
           \A b \in DOMAIN queue : /\ queue'[b].rows = queue[b].rows
                                   /\ queue'[b].after = queue[b].after
    PROVE  CollectInv'
<1>1. DOMAIN queue' = DOMAIN queue /\ DOMAIN queue = 1 .. Len(queue)
      /\ Len(queue) \in Nat /\ (queue' = <<>> <=> queue = <<>>)
  BY DEF TypeOK
<1>2. ASSUME NEW b \in DOMAIN queue PROVE Before(b)' = Before(b)
  BY <1>1 DEF Before
<1>3. CheckpointMatchesQueue'
  <2>1. ASSUME NEW b \in DOMAIN queue
        PROVE  /\ queue'[b].rows # <<>>
               /\ queue'[b].after.prefix = Before(b)' \o queue'[b].rows
               /\ queue'[b].after.file = checkpoint'.file
    BY <1>2 DEF CollectInv, CheckpointMatchesQueue
  <2>2. checkpoint = IF queue' = <<>> THEN NoCheckpoint ELSE queue'[Len(queue')].after
    BY <1>1 DEF CollectInv, CheckpointMatchesQueue
  <2>3. QED
    BY <1>1, <2>1, <2>2 DEF CheckpointMatchesQueue, NoCheckpoint
<1>4. QueuedWasArchived'
  BY <1>1 DEF CollectInv, QueuedWasArchived
<1>5. PollKnows'
  BY <1>1 DEF CollectInv, PollKnows, After, Records
<1>6. QED
  BY <1>3, <1>4, <1>5 DEF CollectInv

LEMMA LongIsNotEmpty ==
    ASSUME NEW S, NEW s \in Seq(S), Len(s) > 0
    PROVE  s # <<>>
OBVIOUS

(* The records of a poll that agrees with the checkpoint complete it.      *)
LEMMA RecordsProperties ==
    ASSUME TypeOK
    PROVE  /\ Records(poll) \in Seq(Row)
           /\ Len(poll.seen) > Len(checkpoint.prefix) => Records(poll) # <<>>
           /\ Len(poll.seen) >= Len(checkpoint.prefix)
              /\ SubSeq(poll.seen, 1, Len(checkpoint.prefix)) = checkpoint.prefix
                => poll.seen = checkpoint.prefix \o Records(poll)
<1> DEFINE seen == poll.seen
           n == Len(checkpoint.prefix)
<1>1. seen \in Seq(Row) /\ checkpoint.prefix \in Seq(Row) /\ n \in Nat /\ Len(seen) \in Nat
  BY DEF TypeOK, Checkpoint
<1>2. Records(poll) = SubSeq(seen, n + 1, Len(seen))
  BY DEF Records
<1> HIDE DEF seen, n
<1>3. /\ SubSeq(seen, n + 1, Len(seen)) \in Seq(Row)
      /\ Len(SubSeq(seen, n + 1, Len(seen))) =
            IF n + 1 <= Len(seen) THEN Len(seen) - (n + 1) + 1 ELSE 0
  <2>1. \A i \in n + 1 .. Len(seen) : seen[i] \in Row
    BY <1>1
  <2>2. n + 1 \in Int /\ Len(seen) \in Int
    BY <1>1
  <2>3. QED
    BY <2>1, <2>2, SubSeqProperties, Zenon
<1>4. ASSUME Len(seen) > n PROVE SubSeq(seen, n + 1, Len(seen)) # <<>>
  <2>1. Len(SubSeq(seen, n + 1, Len(seen))) > 0
    BY <1>1, <1>3, <1>4
  <2>2. QED
    BY <1>3, <2>1, LongIsNotEmpty, Zenon
<1>5. ASSUME Len(seen) >= n, SubSeq(seen, 1, n) = checkpoint.prefix
      PROVE  seen = checkpoint.prefix \o SubSeq(seen, n + 1, Len(seen))
  <2>1. SubSeq(seen, 1, n) \o SubSeq(seen, n + 1, Len(seen)) = SubSeq(seen, 1, Len(seen))
    <3>1. 1 \in 1 .. Len(seen) + 1 /\ n \in 1 - 1 .. Len(seen) /\ Len(seen) \in n .. Len(seen)
      BY <1>1, <1>5
    <3>2. QED
      BY <1>1, <3>1, ConcatAdjacentSubSeq, Zenon
  <2>2. SubSeq(seen, 1, Len(seen)) = seen
    BY <1>1, SubSeqFull, Zenon
  <2>3. QED
    BY <1>5, <2>1, <2>2
<1>6. QED
  BY <1>2, <1>3, <1>4, <1>5 DEF seen, n

(* Every step of a poll but the enqueue changes poll and archived only.    *)
LEMMA PollLocal ==
    ASSUME EdgeInv, UNCHANGED <<sourceVars, queueVars, sending, requests, accepted>>,
           agent' \in {"running", "stopping", "stopped"}, faults' \in 0 .. MaxFaults,
           poll' \in [phase : {"idle", "reading", "read", "archived"}, file : Nat, seen : Seq(Row)],
           archived \subseteq archived',
           archived' \subseteq [after : Checkpoint, rows : Seq(Row)],
           PollKnows'
    PROVE  EdgeInv'
<1> USE DEF EdgeInv, sourceVars, queueVars
<1>1. TypeOK'
  BY DEF TypeOK
<1>2. CheckpointMatchesQueue' /\ QueuedWasArchived'
  BY DEF CollectInv, CheckpointMatchesQueue, Before, QueuedWasArchived, NoCheckpoint
<1>3. DeliverInv'
  BY DeliverKept
<1>4. QED
  BY <1>1, <1>2, <1>3 DEF CollectInv

LEMMA NoPollType ==
    NoPoll \in [phase : {"idle", "reading", "read", "archived"}, file : Nat, seen : Seq(Row)]
BY DEF NoPoll, NoFile

LEMMA PollEndsInv ==
    ASSUME EdgeInv, UNCHANGED <<sourceVars, queueVars, archived, sending, requests, accepted, agent>>,
           faults' \in 0 .. MaxFaults, poll' = NoPoll
    PROVE  EdgeInv'
<1>1. PollKnows'
  BY DEF PollKnows, NoPoll
<1>2. /\ agent' \in {"running", "stopping", "stopped"}
      /\ archived \subseteq archived' /\ archived' \subseteq [after : Checkpoint, rows : Seq(Row)]
  BY DEF EdgeInv, TypeOK
<1>3. QED
  BY <1>1, <1>2, NoPollType, PollLocal

LEMMA PollStartInv == ASSUME EdgeInv, PollStart PROVE EdgeInv'
<1> USE DEF PollStart
<1>1. poll' \in [phase : {"idle", "reading", "read", "archived"}, file : Nat, seen : Seq(Row)]
  BY DEF EdgeInv, TypeOK
<1>2. PollKnows'
  <2>1. queue # <<>> => checkpoint # NoCheckpoint
    <3>1. ASSUME queue # <<>> PROVE checkpoint # NoCheckpoint
      <4>1. Len(queue) \in DOMAIN queue /\ checkpoint = queue[Len(queue)].after
        BY <3>1 DEF EdgeInv, TypeOK, CollectInv, CheckpointMatchesQueue
      <4>2. queue[Len(queue)].rows \in Seq(Row) \ {<<>>} /\ Before(Len(queue)) \in Seq(Row)
        <5>1. queue[Len(queue)] \in Batch /\ queue[Len(queue)].rows # <<>>
          BY <4>1 DEF EdgeInv, TypeOK, CollectInv, CheckpointMatchesQueue
        <5>2. Len(queue) # 1 => queue[Len(queue) - 1] \in Batch
          <6>1. queue \in Seq(Batch)
            BY DEF EdgeInv, TypeOK
          <6>2. Len(queue) \in 1 .. Len(queue) /\ DOMAIN queue = 1 .. Len(queue)
            BY <4>1, <6>1
          <6>3. Len(queue) # 1 => Len(queue) - 1 \in 1 .. Len(queue)
            BY <6>2
          <6>4. QED
            BY <6>1, <6>3
        <5>3. QED
          BY <5>1, <5>2 DEF Before, Batch, Checkpoint
      <4>3. checkpoint.prefix = Before(Len(queue)) \o queue[Len(queue)].rows
        BY <4>1 DEF EdgeInv, CollectInv, CheckpointMatchesQueue
      <4>4. checkpoint.prefix # <<>>
        BY <4>2, <4>3, ConcatEqualIffEmpty
      <4>5. QED
        BY <4>4 DEF NoCheckpoint
    <3>2. QED
      BY <3>1
  <2>2. SubSeq(<<>>, 1, 0) = <<>>
    BY SubSeqEmpty
  <2>3. Len(checkpoint.prefix) \in Nat /\ checkpoint.prefix \in Seq(Row)
    BY DEF EdgeInv, TypeOK, Checkpoint
  <2>4. file.id # NoFile
    BY DEF EdgeInv, TypeOK
  <2>5. 0 >= Len(checkpoint.prefix) => checkpoint.prefix = <<>> /\ Len(checkpoint.prefix) = 0
    BY <2>3
  <2>6. QED
    BY <2>1, <2>2, <2>4, <2>5 DEF PollKnows, queueVars, sourceVars
<1>3. QED
  BY <1>1, <1>2, PollLocal DEF EdgeInv, TypeOK

LEMMA ReadRowInv == ASSUME EdgeInv, ReadRow PROVE EdgeInv'
<1> DEFINE row == file.rows[Len(poll.seen) + 1]
           seen == Append(poll.seen, row)
           n == Len(checkpoint.prefix)
<1>1. /\ poll.phase = "reading" /\ poll.seen \in Seq(Row) /\ row \in Row
      /\ n \in Nat /\ checkpoint.prefix \in Seq(Row) /\ poll.file \in Nat
      /\ faults \in 0 .. MaxFaults
  BY DEF EdgeInv, TypeOK, ReadRow, Checkpoint
<1>2. CASE poll' = NoPoll
  BY <1>1, <1>2, PollEndsInv DEF ReadRow
<1>3. CASE PrefixMatches(seen) /\ poll' = [poll EXCEPT !.seen = seen]
  <2>1. seen \in Seq(Row) /\ Len(seen) = Len(poll.seen) + 1
        /\ \A i \in 1 .. Len(poll.seen) : seen[i] = poll.seen[i]
    BY <1>1, AppendProperties
  <2> HIDE DEF seen
  <2>2. /\ poll' \in [phase : {"idle", "reading", "read", "archived"}, file : Nat, seen : Seq(Row)]
        /\ poll'.seen = seen /\ poll'.file = poll.file /\ poll'.phase = "reading"
    BY <1>1, <1>3, <2>1 DEF EdgeInv, TypeOK
  <2>3. ASSUME Len(seen) >= n PROVE SubSeq(seen, 1, n) = checkpoint.prefix
    <3>1. CASE Len(seen) = n
      <4>1. seen = checkpoint.prefix
        BY <1>3, <3>1 DEF PrefixMatches
      <4>2. SubSeq(checkpoint.prefix, 1, n) = checkpoint.prefix
        BY <1>1, SubSeqFull
      <4>3. QED
        BY <4>1, <4>2
    <3>2. CASE Len(poll.seen) >= n
      <4>1. SubSeq(poll.seen, 1, n) = checkpoint.prefix
        BY <1>1, <3>2 DEF EdgeInv, CollectInv, PollKnows
      <4>2. SubSeq(seen, 1, n) = SubSeq(poll.seen, 1, n)
        BY <1>1, <2>1, <3>2
      <4>3. QED
        BY <4>1, <4>2
    <3>3. QED
      BY <1>1, <2>1, <2>3, <3>1, <3>2
  <2>4. PollKnows'
    BY <1>1, <2>2, <2>3 DEF PollKnows, EdgeInv, CollectInv, ReadRow, queueVars
  <2>5. QED
    BY <2>2, <2>4, PollLocal DEF ReadRow, EdgeInv, TypeOK
<1>4. QED
  BY <1>2, <1>3 DEF ReadRow

LEMMA ReadEndInv == ASSUME EdgeInv, ReadEnd PROVE EdgeInv'
<1>1. faults' \in 0 .. MaxFaults
  BY DEF EdgeInv, TypeOK, ReadEnd
<1>2. CASE poll' = NoPoll
  BY <1>1, <1>2, PollEndsInv DEF ReadEnd
<1>3. CASE Len(poll.seen) > Len(checkpoint.prefix) /\ poll' = [poll EXCEPT !.phase = "read"]
  <2>1. /\ poll' \in [phase : {"idle", "reading", "read", "archived"}, file : Nat, seen : Seq(Row)]
        /\ poll'.seen = poll.seen /\ poll'.file = poll.file /\ poll'.phase = "read"
    BY <1>3 DEF EdgeInv, TypeOK
  <2>2. PollKnows'
    BY <1>3, <2>1 DEF PollKnows, EdgeInv, CollectInv, ReadEnd, queueVars
  <2>3. QED
    BY <1>1, <2>1, <2>2, PollLocal DEF ReadEnd, EdgeInv, TypeOK
<1>4. QED
  BY <1>2, <1>3 DEF ReadEnd

LEMMA ArchiveInv == ASSUME EdgeInv, Archive PROVE EdgeInv'
<1> DEFINE payload == [after |-> After(poll), rows |-> Records(poll)]
<1>1. payload \in [after : Checkpoint, rows : Seq(Row)]
  <2>1. After(poll) \in Checkpoint
    BY DEF EdgeInv, TypeOK, After, Checkpoint
  <2>2. QED
    BY <2>1, RecordsProperties DEF EdgeInv
<1>2. archived' = archived \cup {payload}
  BY DEF Archive
<1> HIDE DEF payload
<1>3. archived \subseteq archived' /\ archived' \subseteq [after : Checkpoint, rows : Seq(Row)]
  BY <1>1, <1>2 DEF EdgeInv, TypeOK
<1>4. /\ poll' \in [phase : {"idle", "reading", "read", "archived"}, file : Nat, seen : Seq(Row)]
      /\ poll'.seen = poll.seen /\ poll'.file = poll.file /\ poll'.phase = "archived"
  BY DEF EdgeInv, TypeOK, Archive
<1>5. PollKnows'
  <2>1. [after |-> After(poll), rows |-> Records(poll)]' = payload
    BY <1>4 DEF payload, After, Records, Archive, queueVars
  <2>2. QED
    BY <1>2, <1>4, <2>1 DEF PollKnows, EdgeInv, CollectInv, Archive, queueVars
<1>6. QED
  BY <1>3, <1>4, <1>5, PollLocal DEF Archive, EdgeInv, TypeOK

(* What an enqueue appends.                                                *)
LEMMA EnqueueEffect ==
    ASSUME EdgeInv, poll.phase = "archived",
           queue' = Append(queue, NewBatch(poll))
    PROVE  /\ queue' \in Seq(Batch) /\ Len(queue) \in Nat /\ Len(queue') = Len(queue) + 1
           /\ DOMAIN queue = 1 .. Len(queue) /\ DOMAIN queue' = 1 .. Len(queue) + 1
           /\ \A b \in DOMAIN queue : queue'[b] = queue[b]
           /\ queue'[Len(queue) + 1] = NewBatch(poll)
           /\ NewBatch(poll).rows = Records(poll) /\ Records(poll) # <<>>
           /\ NewBatch(poll).after = After(poll) /\ After(poll) \in Checkpoint
           /\ NewBatch(poll).state = "pending"
<1>1. After(poll) \in Checkpoint
  BY DEF EdgeInv, TypeOK, After, Checkpoint
<1>2. Records(poll) \in Seq(Row) /\ Records(poll) # <<>>
  BY RecordsProperties DEF EdgeInv, CollectInv, PollKnows
<1>3. NewBatch(poll) \in Batch
  BY <1>1, <1>2 DEF NewBatch, Batch, State
<1>4. queue \in Seq(Batch)
  BY DEF EdgeInv, TypeOK
<1>5. /\ NewBatch(poll).rows = Records(poll) /\ NewBatch(poll).after = After(poll)
      /\ NewBatch(poll).state = "pending"
  BY DEF NewBatch
<1> DEFINE new == NewBatch(poll)
<1> HIDE DEF new
<1>6. queue' = Append(queue, new) /\ new \in Batch
  BY <1>3 DEF new
<1>7. /\ queue' \in Seq(Batch) /\ Len(queue) \in Nat /\ Len(queue') = Len(queue) + 1
      /\ \A b \in 1 .. Len(queue) : queue'[b] = queue[b]
      /\ queue'[Len(queue) + 1] = new
  BY <1>4, <1>6, AppendProperties
<1>8. DOMAIN queue = 1 .. Len(queue) /\ DOMAIN queue' = 1 .. Len(queue) + 1
  BY <1>4, <1>7
<1>9. QED
  BY <1>1, <1>2, <1>5, <1>7, <1>8 DEF new

LEMMA EnqueueCollect ==
    ASSUME EdgeInv, poll.phase = "archived",
           queue' = Append(queue, NewBatch(poll)), checkpoint' = After(poll),
           archived' = archived, poll' = NoPoll
    PROVE  CollectInv'
<1>0. PICK n \in Nat : n = Len(queue)
  BY EnqueueEffect
<1>1. /\ n \in Nat /\ Len(queue') = n + 1
      /\ DOMAIN queue = 1 .. n /\ DOMAIN queue' = 1 .. n + 1
      /\ \A b \in 1 .. n : queue'[b] = queue[b]
      /\ queue'[n + 1].rows = Records(poll) /\ Records(poll) # <<>>
      /\ queue'[n + 1].after = After(poll)
  BY <1>0, EnqueueEffect
<1>2. /\ queue # <<>> => checkpoint.file = poll.file
      /\ poll.seen = checkpoint.prefix \o Records(poll)
      /\ [after |-> After(poll), rows |-> Records(poll)] \in archived
  <2>1. Len(poll.seen) > Len(checkpoint.prefix)
    BY DEF EdgeInv, CollectInv, PollKnows
  <2>2. Len(poll.seen) \in Nat /\ Len(checkpoint.prefix) \in Nat
    BY DEF EdgeInv, TypeOK, Checkpoint
  <2>3. QED
    BY <2>1, <2>2, RecordsProperties DEF EdgeInv, CollectInv, PollKnows
<1>3. queue = <<>> <=> n = 0
  BY <1>0 DEF EdgeInv, TypeOK
<1>4. checkpoint = IF queue = <<>> THEN NoCheckpoint ELSE queue[n].after
  BY <1>0 DEF EdgeInv, CollectInv, CheckpointMatchesQueue
<1>5. \A b \in 1 .. n : /\ queue[b].rows # <<>>
                        /\ queue[b].after.prefix = Before(b) \o queue[b].rows
                        /\ queue[b].after.file = checkpoint.file
  BY <1>1 DEF EdgeInv, CollectInv, CheckpointMatchesQueue
<1>6. ASSUME NEW b \in 1 .. n PROVE Before(b)' = Before(b)
  BY <1>1 DEF Before
<1>7. Before(n + 1)' = checkpoint.prefix
  <2>1. CASE n = 0
    BY <2>1, <1>3, <1>4 DEF Before, NoCheckpoint
  <2>2. CASE n # 0
    <3>1. n \in 1 .. n /\ n + 1 # 1 /\ (n + 1) - 1 = n
      BY <2>2, <1>1
    <3>2. Before(n + 1)' = queue'[n].after.prefix
      BY <3>1 DEF Before
    <3>3. QED
      BY <2>2, <3>1, <3>2, <1>1, <1>3, <1>4
  <2>3. QED
    BY <2>1, <2>2
<1>8. After(poll).prefix = poll.seen /\ After(poll).file = poll.file
  BY DEF After
<1>9. CheckpointMatchesQueue'
  <2>1. ASSUME NEW b \in 1 .. n + 1
        PROVE  /\ queue'[b].rows # <<>>
               /\ queue'[b].after.prefix = Before(b)' \o queue'[b].rows
               /\ queue'[b].after.file = checkpoint'.file
    <3>1. CASE b = n + 1
      BY <3>1, <1>1, <1>2, <1>7, <1>8
    <3>2. CASE b # n + 1
      <4>1. b \in 1 .. n /\ queue # <<>>
        BY <3>2, <1>1, <1>3
      <4>2. QED
        BY <4>1, <1>1, <1>2, <1>5, <1>6, <1>8
    <3>3. QED
      BY <3>1, <3>2
  <2>2. checkpoint' = IF queue' = <<>> THEN NoCheckpoint ELSE queue'[Len(queue')].after
    <3>1. queue' # <<>>
      BY <1>1, EnqueueEffect, LongIsNotEmpty
    <3>2. QED
      BY <3>1, <1>1
  <2>3. QED
    BY <1>1, <2>1, <2>2 DEF CheckpointMatchesQueue, NoCheckpoint
<1>10. QueuedWasArchived'
  <2>1. ASSUME NEW b \in 1 .. n + 1
        PROVE  [after |-> queue'[b].after, rows |-> queue'[b].rows] \in archived
    <3>1. CASE b = n + 1
      BY <3>1, <1>1, <1>2
    <3>2. CASE b # n + 1
      BY <3>2, <1>1 DEF EdgeInv, CollectInv, QueuedWasArchived
    <3>3. QED
      BY <3>1, <3>2
  <2>2. QED
    BY <1>1, <2>1 DEF QueuedWasArchived
<1>11. PollKnows'
  BY DEF PollKnows, NoPoll
<1>12. QED
  BY <1>9, <1>10, <1>11 DEF CollectInv

(* What is waiting and what is leased lies in the queue.                   *)
LEMMA LineFacts ==
    ASSUME EdgeInv
    PROVE  /\ line \in Seq(Nat) /\ due \in 0 .. Len(line) /\ Len(line) \in Nat
           /\ queue \in Seq(Batch) /\ DOMAIN queue = 1 .. Len(queue) /\ Len(queue) \in Nat
           /\ Distinct(line) /\ Values(line) = Waiting
           /\ Waiting \cap Leased = {}
           /\ Waiting \subseteq DOMAIN queue /\ Leased \subseteq DOMAIN queue
BY DEF EdgeInv, TypeOK, DeliverInv, NothingStranded, Waiting, Leased

LEMMA EnqueueInv == ASSUME EdgeInv, Enqueue PROVE EdgeInv'
<1>1. CASE UNCHANGED queueVars
  <2>1. faults' \in 0 .. MaxFaults
    BY DEF Enqueue, EdgeInv, TypeOK
  <2>2. QED
    BY <1>1, <2>1, PollEndsInv DEF Enqueue
<1>2. CASE /\ queue' = Append(queue, NewBatch(poll))
           /\ checkpoint' = After(poll)
           /\ line' = Insert(<<Len(queue) + 1>>)
           /\ due' = due + 1
  <2> DEFINE n == Len(queue)
             one == <<n + 1>>
  <2>1. /\ queue' \in Seq(Batch) /\ n \in Nat /\ Len(queue') = n + 1
        /\ DOMAIN queue = 1 .. n /\ DOMAIN queue' = 1 .. n + 1
        /\ \A b \in 1 .. n : queue'[b] = queue[b]
        /\ queue'[n + 1].state = "pending" /\ After(poll) \in Checkpoint
    BY <1>2, EnqueueEffect DEF Enqueue
  <2>2. one \in Seq(Nat) /\ Len(one) = 1 /\ Distinct(one) /\ Values(one) = {n + 1}
    BY <2>1 DEF Distinct, Values
  <2> HIDE DEF n, one
  <2>3. line' = InsertAt(due, one)
    BY <1>2 DEF Insert, one, n
  <2>4. /\ Waiting' = Waiting \cup {n + 1} /\ Leased' = Leased
        /\ n + 1 \notin DOMAIN queue
    BY <2>1 DEF Waiting, Leased
  <2>5. Values(line) \cap Values(one) = {}
    BY <2>2, <2>4, LineFacts
  <2>6. line' \in Seq(Nat) /\ Len(line') = Len(line) + 1
    BY <2>2, <2>3, LineFacts, InsertAtProperties
  <2>7. Distinct(line') /\ Values(line') = Values(line) \cup Values(one)
    BY <2>2, <2>3, <2>5, LineFacts, InsertAtDistinct
  <2>8. TypeOK'
    <3>1. due' \in 0 .. Len(line')
      BY <1>2, <2>6, LineFacts
    <3>2. QED
      BY <1>2, <2>1, <2>6, <3>1, NoPollType DEF Enqueue, EdgeInv, TypeOK, sourceVars
  <2>9. CollectInv'
    BY <1>2, EnqueueCollect DEF Enqueue
  <2>10. DeliverInv'
    <3>1. /\ sending' = sending /\ accepted' = accepted /\ requests' = requests
      BY DEF Enqueue
    <3>2. NothingStranded'
      BY <2>2, <2>4, <2>7, <3>1, LineFacts DEF EdgeInv, DeliverInv, NothingStranded, Distinct, Values
    <3>3. (AcceptedOnce /\ SentWasAccepted)'
      BY <2>1, <3>1 DEF EdgeInv, DeliverInv, AcceptedOnce, SentWasAccepted, Distinct, Values
    <3>4. QED
      BY <2>1, <3>1, <3>2, <3>3 DEF EdgeInv, DeliverInv, Values
  <2>11. QED
    BY <2>8, <2>9, <2>10 DEF EdgeInv
<1>3. QED
  BY <1>1, <1>2 DEF Enqueue

(* The owner's edits touch the file only.                                  *)
LEMMA SourceInv == ASSUME EdgeInv, Source PROVE EdgeInv'
<1>1. PICK new \in [id : Nat \ {NoFile}, rows : Seq(Row)] : Edit(new)
  <2>1. file \in [id : Nat \ {NoFile}, rows : Seq(Row)]
    BY DEF EdgeInv, TypeOK
  <2>2. CASE AppendRow
    BY <2>1, <2>2 DEF AppendRow
  <2>3. CASE RewriteRow
    BY <2>1, <2>3 DEF RewriteRow
  <2>4. CASE Truncate
    <3>1. SubSeq(file.rows, 1, Len(file.rows) - 1) \in Seq(Row)
      BY <2>1, <2>4 DEF Truncate
    <3>2. QED
      BY <2>1, <2>4, <3>1 DEF Truncate
  <2>5. CASE Replace
    BY <2>1, <2>5 DEF Replace, NoFile
  <2>6. QED
    BY <2>2, <2>3, <2>4, <2>5 DEF Source
<1>2. TypeOK'
  BY <1>1, EdgeAssumption DEF Edit, EdgeInv, TypeOK, queueVars
<1>3. CollectInv'
  BY <1>1 DEF Edit, EdgeInv, CollectInv, CheckpointMatchesQueue, Before, QueuedWasArchived,
              PollKnows, After, Records, queueVars, NoCheckpoint
<1>4. DeliverInv'
  BY <1>1, DeliverKept DEF Edit, EdgeInv, queueVars
<1>5. QED
  BY <1>2, <1>3, <1>4 DEF EdgeInv

-----------------------------------------------------------------------------
(* The delivery loop. *)

LEMMA TailDistinct ==
    ASSUME NEW t \in Seq(Nat), t # <<>>, Distinct(t)
    PROVE  /\ Tail(t) \in Seq(Nat) /\ Len(Tail(t)) = Len(t) - 1
           /\ Head(t) \in Values(t)
           /\ Distinct(Tail(t)) /\ Values(Tail(t)) = Values(t) \ {Head(t)}
<1> DEFINE r == Tail(t)
           n == Len(t)
<1>1. /\ n \in Nat \ {0} /\ Head(t) = t[1] /\ r \in Seq(Nat) /\ Len(r) = n - 1
      /\ \A i \in 1 .. n - 1 : r[i] = t[i + 1]
  BY HeadTailProperties
<1> HIDE DEF r
<1>2. DOMAIN t = 1 .. n /\ DOMAIN r = 1 .. n - 1
  BY <1>1
<1> HIDE DEF n
<1>3. Head(t) \in Values(t)
  <2>1. 1 \in DOMAIN t
    BY <1>1, <1>2
  <2>2. QED
    BY <1>1, <2>1 DEF Values
<1>4. ASSUME NEW i \in 1 .. n - 1, NEW j \in 1 .. n - 1, r[i] = r[j] PROVE i = j
  <2>1. i + 1 \in 1 .. n /\ j + 1 \in 1 .. n /\ t[i + 1] = t[j + 1]
    BY <1>1, <1>4
  <2>2. i + 1 = j + 1
    BY <1>2, <2>1 DEF Distinct
  <2>3. QED
    BY <2>2
<1>5. ASSUME NEW i \in 1 .. n - 1 PROVE r[i] \in Values(t) \ {Head(t)}
  <2>1. i + 1 \in 1 .. n /\ 1 \in 1 .. n /\ i + 1 # 1 /\ r[i] = t[i + 1]
    BY <1>1
  <2>2. t[i + 1] # t[1]
    BY <1>2, <2>1 DEF Distinct
  <2>3. t[i + 1] \in Values(t)
    BY <1>2, <2>1 DEF Values
  <2>4. QED
    BY <1>1, <2>1, <2>2, <2>3
<1>6. ASSUME NEW i \in 1 .. n, t[i] # Head(t) PROVE t[i] \in Values(r)
  <2>1. i - 1 \in 1 .. n - 1 /\ (i - 1) + 1 = i
    BY <1>1, <1>6
  <2>2. r[i - 1] = t[i]
    BY <1>1, <2>1
  <2>3. QED
    BY <1>2, <2>1, <2>2 DEF Values
<1>7. Values(r) = Values(t) \ {Head(t)}
  <2>1. Values(r) \subseteq Values(t) \ {Head(t)}
    BY <1>2, <1>5 DEF Values
  <2>2. Values(t) \ {Head(t)} \subseteq Values(r)
    BY <1>2, <1>6 DEF Values
  <2>3. QED
    BY <2>1, <2>2
<1>8. Distinct(r)
  BY <1>2, <1>4 DEF Distinct
<1>9. QED
  BY <1>1, <1>3, <1>7, <1>8 DEF r, n

(* Batches given back by their leases are a sequence of queued batches.    *)
LEMMA InOrderType ==
    ASSUME EdgeInv, NEW E \in SUBSET DOMAIN queue, NEW s \in InOrder(E)
    PROVE  s \in Seq(Nat) /\ Distinct(s) /\ Values(s) = E
<1>1. IsFiniteSet(E) /\ E \subseteq Nat
  <2>1. DOMAIN queue = 1 .. Len(queue) /\ Len(queue) \in Nat
    BY LineFacts
  <2>2. IsFiniteSet(DOMAIN queue)
    BY <2>1, FS_Interval
  <2>3. QED
    BY <2>1, <2>2, FS_Subset
<1>2. Cardinality(E) \in Nat
  BY <1>1, FS_CardinalityType
<1>3. s \in [1 .. Cardinality(E) -> E] /\ Values(s) = E
      /\ \A i, j \in DOMAIN s : i < j => s[i] < s[j]
  BY DEF InOrder
<1>4. s \in Seq(Nat)
  BY <1>1, <1>2, <1>3
<1>5. ASSUME NEW i \in DOMAIN s, NEW j \in DOMAIN s, s[i] = s[j] PROVE i = j
  <2>1. i \in Nat /\ j \in Nat /\ s[i] \in Nat /\ s[j] \in Nat
    BY <1>1, <1>2, <1>3
  <2>2. ~(i < j) /\ ~(j < i)
    BY <1>3, <1>5, <2>1
  <2>3. QED
    BY <2>1, <2>2
<1>6. QED
  BY <1>3, <1>4, <1>5 DEF Distinct

(* A lease changes the state and the attempts of a batch only.             *)
LEMMA LeaseType ==
    ASSUME NEW q \in Batch
    PROVE  /\ Lease(q) \in Batch /\ Lease(q).state = "sending"
           /\ Lease(q).rows = q.rows /\ Lease(q).after = q.after
BY DEF Lease, Batch, State

LEMMA ExpiredType ==
    ASSUME NEW q \in Batch, NEW x \in State
    PROVE  /\ [q EXCEPT !.state = x] \in Batch /\ [q EXCEPT !.state = x].state = x
           /\ [q EXCEPT !.state = x].rows = q.rows /\ [q EXCEPT !.state = x].after = q.after
BY DEF Batch

(* What a claim does: E is the set of batches whose leases have run out,   *)
(* k their number, b the batch that is leased.                             *)
Claims(E, k, b) ==
    /\ E \subseteq Leased /\ b \in DOMAIN queue
    /\ line' \in Seq(Nat) /\ Len(line') = Len(line) + k - 1
    /\ due + k > 0 /\ due' = due + k - 1
    /\ Distinct(line') /\ Values(line') = (Waiting \cup E) \ {b}
    /\ sending.phase = "idle"
    /\ sending' = [phase |-> "post", batch |-> b, attempt |-> queue[b].attempts + 1, retried |-> FALSE]
    /\ queue' \in Seq(Batch) /\ Len(queue') = Len(queue) /\ DOMAIN queue' = DOMAIN queue
    /\ \A c \in DOMAIN queue :
          /\ queue'[c].rows = queue[c].rows /\ queue'[c].after = queue[c].after
          /\ queue'[c].state = IF c = b THEN "sending" ELSE IF c \in E THEN "failed" ELSE queue[c].state
          /\ queue[c].state = "sent" => queue'[c] = queue[c]
    /\ UNCHANGED <<checkpoint, sourceVars, archived, poll, requests, accepted, agent, faults>>

LEMMA ClaimEffect ==
    ASSUME EdgeInv, Claim
    PROVE  \E E \in SUBSET DOMAIN queue : \E k, b \in Nat : Claims(E, k, b)
<1>1. PICK E \in SUBSET DOMAIN queue : \E x \in InOrder(E) :
        /\ sending.phase = "idle"
        /\ Expired(E)
        /\ due + Len(x) > 0
        /\ LET b == Head(Insert(x))
           IN  /\ queue' = [c \in DOMAIN queue |->
                      IF c = b THEN Lease(queue[c])
                      ELSE IF c \in E THEN [queue[c] EXCEPT !.state = "failed"] ELSE queue[c]]
               /\ sending' = [phase |-> "post", batch |-> b,
                              attempt |-> queue[b].attempts + 1, retried |-> FALSE]
        /\ line' = Tail(Insert(x))
        /\ due' = due + Len(x) - 1
        /\ UNCHANGED <<checkpoint, sourceVars, archived, poll, requests, accepted, agent, faults>>
  BY DEF Claim
<1>2. PICK s \in InOrder(E) :
        /\ sending.phase = "idle"
        /\ Expired(E)
        /\ due + Len(s) > 0
        /\ LET b == Head(Insert(s))
           IN  /\ queue' = [c \in DOMAIN queue |->
                      IF c = b THEN Lease(queue[c])
                      ELSE IF c \in E THEN [queue[c] EXCEPT !.state = "failed"] ELSE queue[c]]
               /\ sending' = [phase |-> "post", batch |-> b,
                              attempt |-> queue[b].attempts + 1, retried |-> FALSE]
        /\ line' = Tail(Insert(s))
        /\ due' = due + Len(s) - 1
        /\ UNCHANGED <<checkpoint, sourceVars, archived, poll, requests, accepted, agent, faults>>
  BY <1>1
<1>3. s \in Seq(Nat) /\ Distinct(s) /\ Values(s) = E /\ Len(s) \in Nat
  BY InOrderType
<1> DEFINE t == InsertAt(due, s)
<1>4. /\ t \in Seq(Nat) /\ Len(t) = Len(line) + Len(s)
      /\ Distinct(t) /\ Values(t) = Waiting \cup E
  <2>1. Values(line) \cap Values(s) = {}
    BY <1>2, <1>3, LineFacts DEF Expired
  <2>2. t \in Seq(Nat) /\ Len(t) = Len(line) + Len(s)
    BY <1>3, LineFacts, InsertAtProperties
  <2>3. Distinct(t) /\ Values(t) = Values(line) \cup Values(s)
    BY <1>3, <2>1, LineFacts, InsertAtDistinct
  <2>4. QED
    BY <1>3, <2>2, <2>3, LineFacts
<1> HIDE DEF t
<1>5. t # <<>>
  <2>1. Len(t) > 0
    BY <1>2, <1>3, <1>4, LineFacts
  <2>2. QED
    BY <1>4, <2>1, LongIsNotEmpty
<1>6. PICK b \in Nat : b = Head(t) /\ b \in Waiting \cup E
  BY <1>4, <1>5, TailDistinct, HeadTailProperties
<1>7. /\ queue' = [c \in DOMAIN queue |->
            IF c = b THEN Lease(queue[c])
            ELSE IF c \in E THEN [queue[c] EXCEPT !.state = "failed"] ELSE queue[c]]
      /\ sending' = [phase |-> "post", batch |-> b,
                     attempt |-> queue[b].attempts + 1, retried |-> FALSE]
      /\ line' = Tail(t) /\ due' = due + Len(s) - 1
      /\ UNCHANGED <<checkpoint, sourceVars, archived, poll, requests, accepted, agent, faults>>
  BY <1>2, <1>6 DEF Insert, t
<1>8. line' \in Seq(Nat) /\ Len(line') = Len(line) + Len(s) - 1
      /\ Distinct(line') /\ Values(line') = (Waiting \cup E) \ {b}
  BY <1>4, <1>5, <1>6, <1>7, TailDistinct
<1>9. /\ b \in DOMAIN queue /\ DOMAIN queue' = DOMAIN queue
      /\ \A c \in DOMAIN queue :
            /\ queue'[c] \in Batch
            /\ queue'[c].rows = queue[c].rows /\ queue'[c].after = queue[c].after
            /\ queue'[c].state = IF c = b THEN "sending"
                                 ELSE IF c \in E THEN "failed" ELSE queue[c].state
  <2>1. b \in DOMAIN queue
    BY <1>6, LineFacts
  <2>2. \A c \in DOMAIN queue : queue[c] \in Batch
    BY LineFacts
  <2>3. ASSUME NEW c \in DOMAIN queue
        PROVE  /\ queue'[c] \in Batch
               /\ queue'[c].rows = queue[c].rows /\ queue'[c].after = queue[c].after
               /\ queue'[c].state = IF c = b THEN "sending"
                                    ELSE IF c \in E THEN "failed" ELSE queue[c].state
    <3>1. queue[c] \in Batch /\ "failed" \in State
      BY <2>2 DEF State
    <3>2. CASE c = b
      <4>1. queue'[c] = Lease(queue[c])
        BY <1>7, <3>2
      <4>2. QED
        BY <3>1, <3>2, <4>1, LeaseType
    <3>3. CASE c # b /\ c \in E
      <4>1. queue'[c] = [queue[c] EXCEPT !.state = "failed"]
        BY <1>7, <3>3
      <4>2. QED
        BY <3>1, <3>3, <4>1, ExpiredType
    <3>4. CASE c # b /\ c \notin E
      BY <1>7, <3>1, <3>4
    <3>5. QED
      BY <3>2, <3>3, <3>4
  <2>4. DOMAIN queue' = DOMAIN queue
    BY <1>7
  <2>5. QED
    BY <2>1, <2>3, <2>4
<1>10. queue' \in Seq(Batch) /\ Len(queue') = Len(queue)
  <2>1. queue' \in [1 .. Len(queue) -> Batch] /\ Len(queue) \in Nat
    BY <1>7, <1>9, LineFacts
  <2>2. QED
    BY <2>1
<1>s. ASSUME NEW c \in DOMAIN queue, queue[c].state = "sent" PROVE queue'[c] = queue[c]
  <2>1. c # b /\ c \notin E
    BY <1>2, <1>6, <1>s DEF Waiting, Leased, Expired
  <2>2. QED
    BY <1>7, <2>1
<1>e. E \subseteq Leased /\ due + Len(s) > 0 /\ sending.phase = "idle"
  BY <1>2 DEF Expired
<1>11. Claims(E, Len(s), b)
  BY <1>e, <1>7, <1>8, <1>9, <1>10, <1>s DEF Claims
<1>12. QED
  BY <1>3, <1>11

LEMMA ClaimInv == ASSUME EdgeInv, Claim PROVE EdgeInv'
<1>1. PICK E \in SUBSET DOMAIN queue : \E x, y \in Nat : Claims(E, x, y)
  BY ClaimEffect
<1>2. PICK k \in Nat, b \in Nat : Claims(E, k, b)
  BY <1>1
<1> USE <1>2 DEF Claims
<1>11. TypeOK'
  <2>1. due' \in 0 .. Len(line')
    BY LineFacts
  <2>2. queue[b].attempts \in Nat
    <3>1. queue[b] \in Batch
      BY LineFacts
    <3>2. QED
      BY <3>1 DEF Batch
  <2>3. sending' \in [phase : {"idle", "post", "wait", "delivered", "failed"},
                      batch : Nat, attempt : Nat, retried : BOOLEAN]
    BY <2>2
  <2>4. QED
    BY <2>1, <2>3 DEF EdgeInv, TypeOK, sourceVars
<1>12. CollectInv'
  BY CollectKept DEF EdgeInv
<1>13. DeliverInv'
  <2>1. Waiting' = (Waiting \cup E) \ {b} /\ b \in Leased'
    BY DEF Waiting, Leased
  <2>2. NothingStranded'
    BY <2>1 DEF NothingStranded, Distinct, Values
  <2>3. \A c \in DOMAIN queue : queue'[c].state = "sent" => queue[c].state = "sent"
    OBVIOUS
  <2>4. (AcceptedOnce /\ SentWasAccepted)'
    BY <2>3 DEF EdgeInv, DeliverInv, AcceptedOnce, SentWasAccepted, Distinct, Values
  <2>5. QED
    BY <2>2, <2>4 DEF EdgeInv, DeliverInv, Values
<1>14. QED
  BY <1>11, <1>12, <1>13 DEF EdgeInv

(* Steps that leave the queue, the checkpoint and the line alone and move  *)
(* the delivery of the current batch on, or end it.                        *)
LEMMA SendingKept ==
    ASSUME EdgeInv, UNCHANGED <<sourceVars, archived, poll>>,
           UNCHANGED <<checkpoint, queue, line>>,
           due' \in 0 .. Len(line), faults' \in 0 .. MaxFaults,
           agent' \in {"running", "stopping", "stopped"},
           sending' \in [phase : {"idle", "post", "wait", "delivered", "failed"},
                         batch : Nat, attempt : Nat, retried : BOOLEAN],
           sending'.phase # "idle" => sending.phase # "idle" /\ sending'.batch = sending.batch,
           requests' \subseteq Nat \X Nat,
           \A q \in requests' : q[1] \in DOMAIN queue,
           accepted' \in Seq(Nat), Distinct(accepted'),
           Values(accepted) \subseteq Values(accepted'),
           Values(accepted') \subseteq DOMAIN queue,
           sending'.phase = "delivered" => sending'.batch \in Values(accepted')
    PROVE  EdgeInv'
<1>1. TypeOK'
  BY DEF EdgeInv, TypeOK, sourceVars
<1>2. CollectInv'
  BY DEF EdgeInv, CollectInv, CheckpointMatchesQueue, Before, QueuedWasArchived,
         PollKnows, After, Records, sourceVars, NoCheckpoint
<1>3. Waiting' = Waiting /\ Leased' = Leased
  BY DEF Waiting, Leased
<1>4. NothingStranded'
  BY <1>3 DEF EdgeInv, DeliverInv, NothingStranded, Distinct, Values
<1>5. AcceptedOnce' /\ SentWasAccepted'
  <2>1. AcceptedOnce'
    BY DEF AcceptedOnce, Distinct
  <2>2. SentWasAccepted'
    BY DEF EdgeInv, DeliverInv, SentWasAccepted, Values
  <2>3. QED
    BY <2>1, <2>2
<1>6. Values(accepted') = Values(accepted)'
  BY DEF Values
<1>7. DeliverInv'
  BY <1>4, <1>5, <1>6 DEF DeliverInv
<1>8. QED
  BY <1>1, <1>2, <1>7 DEF EdgeInv

Phase == {"idle", "post", "wait", "delivered", "failed"}
Sending == [phase : Phase, batch : Nat, attempt : Nat, retried : BOOLEAN]

LEMMA PhaseType ==
    ASSUME NEW d \in Sending, NEW x \in Phase
    PROVE  /\ [d EXCEPT !.phase = x] \in Sending
           /\ [d EXCEPT !.phase = x].phase = x /\ [d EXCEPT !.phase = x].batch = d.batch
BY DEF Sending

LEMMA SendingType == EdgeInv => sending \in Sending /\ NoSending \in Sending
BY DEF EdgeInv, TypeOK, Sending, Phase, NoSending

LEMMA SendingPhase ==
    ASSUME EdgeInv, NEW x \in Phase, MovesTo(x)
    PROVE  /\ sending' \in Sending /\ sending'.phase = x /\ sending'.batch = sending.batch
<1>1. PICK d \in Sending : d = sending
  BY SendingType
<1>2. sending' = [d EXCEPT !.phase = x]
  BY <1>1 DEF MovesTo
<1>3. QED
  BY <1>1, <1>2, PhaseType

(* The current delivery moves to a phase, and is not delivered by that.    *)
LEMMA PhaseInv ==
    ASSUME EdgeInv, UNCHANGED <<sourceVars, archived, poll, checkpoint, queue, line, accepted>>,
           due' \in 0 .. Len(line), faults' \in 0 .. MaxFaults,
           agent' \in {"running", "stopping", "stopped"},
           requests' \subseteq Nat \X Nat, \A q \in requests' : q[1] \in DOMAIN queue,
           sending' \in Sending,
           sending'.phase # "idle" => sending.phase # "idle" /\ sending'.batch = sending.batch,
           sending'.phase = "delivered" => sending.phase = "delivered"
    PROVE  EdgeInv'
<1>1. sending' \in [phase : {"idle", "post", "wait", "delivered", "failed"},
                   batch : Nat, attempt : Nat, retried : BOOLEAN]
  BY DEF Sending, Phase
<1>2. /\ accepted' \in Seq(Nat) /\ Distinct(accepted')
      /\ Values(accepted') = Values(accepted) /\ Values(accepted) \subseteq DOMAIN queue
      /\ sending.phase = "delivered" => sending.batch \in Values(accepted)
  BY DEF EdgeInv, TypeOK, DeliverInv, AcceptedOnce, Distinct, Values
<1>3. sending'.phase = "delivered" => sending'.batch \in Values(accepted')
  BY <1>2
<1>4. Values(accepted) \subseteq Values(accepted') /\ Values(accepted') \subseteq DOMAIN queue
  BY <1>2
<1>5. QED
  BY <1>1, <1>2, <1>3, <1>4, SendingKept

LEMMA Ranges ==
    ASSUME EdgeInv
    PROVE  /\ due \in 0 .. Len(line) /\ faults \in 0 .. MaxFaults
           /\ Fault => faults' \in 0 .. MaxFaults
           /\ agent \in {"running", "stopping", "stopped"}
           /\ requests \subseteq Nat \X Nat /\ \A q \in requests : q[1] \in DOMAIN queue
           /\ sending \in Sending /\ NoSending \in Sending
           /\ sending.batch \in Nat /\ sending.attempt \in Nat
           /\ sending.phase # "idle" => sending.batch \in DOMAIN queue
<1>1. sending \in Sending /\ NoSending \in Sending
  BY SendingType
<1>2. /\ due \in 0 .. Len(line) /\ faults \in 0 .. MaxFaults
      /\ agent \in {"running", "stopping", "stopped"} /\ requests \subseteq Nat \X Nat
  BY DEF EdgeInv, TypeOK
<1>3. Fault => faults' \in 0 .. MaxFaults
  BY <1>2, EdgeAssumption DEF Fault
<1>4. /\ \A q \in requests : q[1] \in DOMAIN queue
      /\ sending.phase # "idle" => sending.batch \in DOMAIN queue
  BY DEF EdgeInv, DeliverInv, NothingStranded, Leased
<1>5. sending.batch \in Nat /\ sending.attempt \in Nat
  BY <1>1 DEF Sending
<1>6. QED
  BY <1>1, <1>2, <1>3, <1>4, <1>5

LEMMA ElapseInv == ASSUME EdgeInv, Elapse PROVE EdgeInv'
<1>1. due' \in 0 .. Len(line)
  BY LineFacts DEF Elapse
<1>2. QED
  BY <1>1, Ranges, PhaseInv DEF Elapse

LEMMA PostInv == ASSUME EdgeInv, Post PROVE EdgeInv'
<1>1. sending' \in Sending /\ sending'.phase = "wait" /\ sending'.batch = sending.batch
  BY Ranges, SendingPhase DEF Post, Phase
<1>2. /\ requests' \subseteq Nat \X Nat
      /\ \A q \in requests' : q[1] \in DOMAIN queue
  BY Ranges DEF Post, Current
<1>3. QED
  BY <1>1, <1>2, Ranges, PhaseInv DEF Post, queueVars

(* The attempt ends without an answer.                                     *)
LEMMA FailedInv ==
    ASSUME EdgeInv, sending.phase # "idle", MovesTo("failed"),
           faults' \in 0 .. MaxFaults, requests' \subseteq requests,
           UNCHANGED <<sourceVars, queueVars, archived, poll, accepted, agent>>
    PROVE  EdgeInv'
<1>1. sending' \in Sending /\ sending'.phase = "failed" /\ sending'.batch = sending.batch
  BY Ranges, SendingPhase DEF Phase
<1>2. QED
  BY <1>1, Ranges, PhaseInv DEF queueVars

(* The attempt ends, or goes on as it was.                                 *)
LEMMA IdleInv ==
    ASSUME EdgeInv, sending' \in {sending, NoSending},
           faults' \in 0 .. MaxFaults, requests' \subseteq requests,
           agent' \in {"running", "stopping", "stopped"},
           UNCHANGED <<sourceVars, queueVars, archived, poll, accepted>>
    PROVE  EdgeInv'
<1>1. NoSending.phase = "idle"
  BY DEF NoSending
<1>2. QED
  BY <1>1, Ranges, PhaseInv DEF queueVars

LEMMA RefuseInv == ASSUME EdgeInv, NEW q \in requests, Refuse(q) PROVE EdgeInv'
<1>1. /\ faults' \in 0 .. MaxFaults /\ requests' \subseteq requests
      /\ UNCHANGED <<sourceVars, queueVars, archived, poll, accepted, agent>>
  BY Ranges DEF Refuse
<1>2. CASE Awaited(q) /\ sending' = [phase |-> "post", batch |-> sending.batch,
                         attempt |-> sending.attempt, retried |-> TRUE]
  <2>1. sending' \in Sending /\ sending'.phase = "post" /\ sending'.batch = sending.batch
    BY <1>2, Ranges DEF Sending, Phase
  <2>2. sending.phase # "idle"
    BY <1>2 DEF Awaited
  <2>3. QED
    BY <1>1, <2>1, <2>2, Ranges, PhaseInv DEF queueVars
<1>3. CASE Awaited(q) /\ MovesTo("failed")
  BY <1>1, <1>3, FailedInv DEF Awaited
<1>4. CASE sending' = sending
  BY <1>1, <1>4, Ranges, IdleInv
<1>5. QED
  BY <1>2, <1>3, <1>4 DEF Refuse

(* The endpoint adds a batch of the queue, if it is new.                   *)
LEMMA CompletedProperties ==
    ASSUME EdgeInv, NEW q \in requests, accepted' = Completed(q[1])
    PROVE  /\ accepted' \in Seq(Nat) /\ Distinct(accepted')
           /\ Values(accepted') = Values(accepted) \cup {q[1]}
           /\ Values(accepted') \subseteq DOMAIN queue
<1>1. PICK b \in Nat : b = q[1] /\ b \in DOMAIN queue
  BY Ranges
<1>2. accepted \in Seq(Nat) /\ Distinct(accepted) /\ Values(accepted) \subseteq DOMAIN queue
  BY DEF EdgeInv, TypeOK, DeliverInv, AcceptedOnce
<1>3. CASE b \in Values(accepted)
  BY <1>1, <1>2, <1>3 DEF Completed
<1>4. CASE b \notin Values(accepted)
  <2>1. PICK n \in Nat : n = Len(accepted)
    BY <1>2
  <2>2. /\ accepted' \in Seq(Nat) /\ DOMAIN accepted = 1 .. n /\ DOMAIN accepted' = 1 .. n + 1
        /\ accepted'[n + 1] = b /\ \A i \in 1 .. n : accepted'[i] = accepted[i]
    BY <1>1, <1>2, <1>4, <2>1, AppendProperties DEF Completed
  <2>3. \A i \in 1 .. n : accepted[i] # b
    BY <1>4, <2>2 DEF Values
  <2>4. Distinct(accepted')
    <3>1. ASSUME NEW i \in 1 .. n + 1, NEW j \in 1 .. n + 1, accepted'[i] = accepted'[j]
          PROVE  i = j
      <4>1. i \in 1 .. n \/ i = n + 1
        BY <2>1
      <4>2. j \in 1 .. n \/ j = n + 1
        BY <2>1
      <4>3. \A k, m \in 1 .. n : accepted[k] = accepted[m] => k = m
        BY <1>2, <2>2 DEF Distinct
      <4>4. QED
        BY <3>1, <2>2, <2>3, <4>1, <4>2, <4>3
    <3>2. QED
      BY <2>2, <3>1 DEF Distinct
  <2>5. Values(accepted') = Values(accepted) \cup {b}
    BY <2>1, <2>2 DEF Values
  <2>6. QED
    BY <1>1, <1>2, <2>2, <2>4, <2>5
<1>5. QED
  BY <1>3, <1>4

LEMMA IngestInv == ASSUME EdgeInv, NEW q \in requests, Ingest(q) PROVE EdgeInv'
<1>1. /\ accepted' \in Seq(Nat) /\ Distinct(accepted')
      /\ Values(accepted') = Values(accepted) \cup {q[1]}
      /\ Values(accepted') \subseteq DOMAIN queue
  BY CompletedProperties DEF Ingest
<1>2. /\ sending' \in Sending
      /\ sending'.phase # "idle" => sending.phase # "idle" /\ sending'.batch = sending.batch
      /\ sending'.phase = "delivered" => sending'.batch \in Values(accepted')
  <2>1. CASE Awaited(q)
    <3>1. sending' \in Sending /\ sending'.phase = "delivered" /\ sending'.batch = sending.batch
      BY <2>1, Ranges, SendingPhase DEF Ingest, Phase
    <3>2. sending.batch = q[1] /\ sending.phase # "idle"
      BY <2>1 DEF Awaited, Current
    <3>3. QED
      BY <1>1, <3>1, <3>2
  <2>2. CASE ~Awaited(q)
    <3>1. sending' = sending
      BY <2>2 DEF Ingest
    <3>2. sending.phase = "delivered" => sending.batch \in Values(accepted)
      BY DEF EdgeInv, DeliverInv
    <3>3. QED
      BY <1>1, <3>1, <3>2, Ranges
  <2>3. QED
    BY <2>1, <2>2
<1>3. sending' \in [phase : {"idle", "post", "wait", "delivered", "failed"},
                   batch : Nat, attempt : Nat, retried : BOOLEAN]
  BY <1>2 DEF Sending, Phase
<1>4. QED
  BY <1>1, <1>2, <1>3, Ranges, SendingKept DEF Ingest, queueVars

LEMMA IngestUnheardInv == ASSUME EdgeInv, NEW q \in requests, IngestUnheard(q) PROVE EdgeInv'
<1>1. /\ accepted' \in Seq(Nat) /\ Distinct(accepted')
      /\ Values(accepted') = Values(accepted) \cup {q[1]}
      /\ Values(accepted') \subseteq DOMAIN queue
  BY CompletedProperties DEF IngestUnheard
<1>2. sending.phase = "delivered" => sending.batch \in Values(accepted)
  BY DEF EdgeInv, DeliverInv
<1>3. sending' \in [phase : {"idle", "post", "wait", "delivered", "failed"},
                   batch : Nat, attempt : Nat, retried : BOOLEAN]
  BY Ranges DEF Sending, Phase, IngestUnheard
<1>4. QED
  BY <1>1, <1>2, <1>3, Ranges, SendingKept DEF IngestUnheard, queueVars

(* The current batch is settled: it leaves the leased batches.             *)
LEMMA SettleEffect ==
    ASSUME EdgeInv, NEW x \in State, Settle(x), sending.phase # "idle"
    PROVE  /\ queue' \in Seq(Batch) /\ Len(queue') = Len(queue)
           /\ DOMAIN queue' = DOMAIN queue
           /\ sending.batch \in DOMAIN queue /\ queue[sending.batch].state = "sending"
           /\ \A b \in DOMAIN queue :
                 /\ queue'[b].rows = queue[b].rows /\ queue'[b].after = queue[b].after
                 /\ queue'[b].state = IF b = sending.batch THEN x ELSE queue[b].state
<1>1. PICK c \in DOMAIN queue : c = sending.batch /\ queue[c].state = "sending"
  BY DEF EdgeInv, DeliverInv, NothingStranded, Leased
<1>2. queue \in [1 .. Len(queue) -> Batch] /\ DOMAIN queue = 1 .. Len(queue) /\ Len(queue) \in Nat
  BY LineFacts
<1>3. queue' = [queue EXCEPT ![c] = [queue[c] EXCEPT !.state = x]]
  BY <1>1 DEF Settle
<1>4. /\ [queue[c] EXCEPT !.state = x] \in Batch /\ [queue[c] EXCEPT !.state = x].state = x
      /\ [queue[c] EXCEPT !.state = x].rows = queue[c].rows
      /\ [queue[c] EXCEPT !.state = x].after = queue[c].after
  BY <1>2, ExpiredType
<1> DEFINE r == [queue[c] EXCEPT !.state = x]
<1> HIDE DEF r
<1>5. queue' = [queue EXCEPT ![c] = r]
  BY <1>3 DEF r
<1>6. r \in Batch /\ r.state = x /\ r.rows = queue[c].rows /\ r.after = queue[c].after
  BY <1>4 DEF r
<1>7. queue' \in [1 .. Len(queue) -> Batch] /\ queue'[c] = r
      /\ \A b \in DOMAIN queue : b # c => queue'[b] = queue[b]
  BY <1>2, <1>5, <1>6
<1>8. queue' \in Seq(Batch) /\ Len(queue') = Len(queue)
  BY <1>2, <1>7
<1>9. QED
  BY <1>1, <1>2, <1>6, <1>7, <1>8

LEMMA MarkSentInv == ASSUME EdgeInv, MarkSent PROVE EdgeInv'
<1> DEFINE c == sending.batch
<1>0. "sent" \in State /\ sending.phase # "idle"
  BY DEF State, MarkSent
<1>1. /\ queue' \in Seq(Batch) /\ Len(queue') = Len(queue) /\ DOMAIN queue' = DOMAIN queue
      /\ c \in DOMAIN queue /\ queue[c].state = "sending"
      /\ \A b \in DOMAIN queue :
            /\ queue'[b].rows = queue[b].rows /\ queue'[b].after = queue[b].after
            /\ queue'[b].state = IF b = c THEN "sent" ELSE queue[b].state
  BY <1>0, SettleEffect DEF MarkSent
<1>2. TypeOK'
  BY <1>1, Ranges DEF MarkSent, EdgeInv, TypeOK, sourceVars, NoSending
<1>3. CollectInv'
  BY <1>1, CollectKept DEF MarkSent, EdgeInv
<1>4. Waiting' = Waiting
  BY <1>1 DEF Waiting
<1>5. NothingStranded'
  BY <1>4 DEF MarkSent, EdgeInv, DeliverInv, NothingStranded, Distinct, Values, NoSending
<1>6. c \in Values(accepted)
  BY DEF MarkSent, EdgeInv, DeliverInv
<1>7. (AcceptedOnce /\ SentWasAccepted)'
  BY <1>1, <1>6 DEF MarkSent, EdgeInv, DeliverInv, AcceptedOnce, SentWasAccepted, Distinct, Values
<1>8. DeliverInv'
  BY <1>1, <1>5, <1>7 DEF MarkSent, EdgeInv, DeliverInv, Values, NoSending
<1>9. QED
  BY <1>2, <1>3, <1>8 DEF EdgeInv

LEMMA ReleaseInv == ASSUME EdgeInv, Release PROVE EdgeInv'
<1> DEFINE c == sending.batch
<1>0. "failed" \in State /\ sending.phase = "failed" /\ sending.phase # "idle"
  BY DEF State, Release
<1>1. /\ queue' \in Seq(Batch) /\ Len(queue') = Len(queue) /\ DOMAIN queue' = DOMAIN queue
      /\ c \in DOMAIN queue /\ queue[c].state = "sending"
      /\ \A b \in DOMAIN queue :
            /\ queue'[b].rows = queue[b].rows /\ queue'[b].after = queue[b].after
            /\ queue'[b].state = IF b = c THEN "failed" ELSE queue[b].state
  BY <1>0, SettleEffect DEF Release
<1>2. PICK p \in due .. Len(line) : line' = InsertAt(p, <<c>>)
  BY DEF Release
<1>3. p \in 0 .. Len(line) /\ line \in Seq(Nat) /\ due \in 0 .. Len(line) /\ c \in Nat
  BY <1>2, LineFacts, Ranges
<1> DEFINE one == <<c>>
<1>4. one \in Seq(Nat) /\ Len(one) = 1 /\ Distinct(one) /\ Values(one) = {c}
  BY <1>3 DEF Distinct, Values
<1>5. Values(line) \cap Values(one) = {}
  BY <1>1, <1>4, LineFacts DEF Waiting
<1> HIDE DEF one, c
<1>6. line' = InsertAt(p, one)
  BY <1>2 DEF one, c
<1>7. line' \in Seq(Nat) /\ Len(line') = Len(line) + 1
  <2>1. line' \in Seq(Nat) /\ Len(line') = Len(line) + Len(one)
    BY <1>3, <1>4, <1>6, InsertAtProperties, Zenon
  <2>2. QED
    BY <1>4, <2>1
<1>8. Distinct(line') /\ Values(line') = Values(line) \cup {c}
  BY <1>3, <1>4, <1>5, <1>6, LineFacts, InsertAtDistinct
<1>r. /\ sending' = NoSending
      /\ UNCHANGED <<checkpoint, due, sourceVars, archived, poll, requests, accepted, agent, faults>>
  BY DEF Release
<1>9. TypeOK'
  <2>1. due' \in 0 .. Len(line')
    BY <1>3, <1>7, <1>r
  <2>2. QED
    BY <1>1, <1>7, <1>r, <2>1, Ranges DEF EdgeInv, TypeOK, sourceVars, NoSending
<1>10. CollectInv'
  BY <1>1, CollectKept DEF Release, EdgeInv
<1>11. Waiting' = Waiting \cup {c}
  BY <1>1 DEF Waiting
<1>12. NothingStranded'
  BY <1>8, <1>11, <1>r, LineFacts DEF NothingStranded, Distinct, Values, NoSending
<1>13. (AcceptedOnce /\ SentWasAccepted)'
  BY <1>1 DEF Release, EdgeInv, DeliverInv, AcceptedOnce, SentWasAccepted, Distinct, Values
<1>14. DeliverInv'
  BY <1>1, <1>12, <1>13 DEF Release, EdgeInv, DeliverInv, Values, NoSending
<1>15. QED
  BY <1>9, <1>10, <1>14 DEF EdgeInv

(* The process ends with everything it holds in memory.                    *)
LEMMA CrashInv == ASSUME EdgeInv, Crash PROVE EdgeInv'
<1>1. TypeOK'
  BY Ranges, NoPollType DEF Crash, EdgeInv, TypeOK, sourceVars, queueVars, NoSending
<1>2. CollectInv'
  BY DEF Crash, EdgeInv, CollectInv, CheckpointMatchesQueue, Before, QueuedWasArchived,
         PollKnows, NoPoll, queueVars, NoCheckpoint
<1>3. DeliverInv'
  BY DEF Crash, EdgeInv, DeliverInv, AcceptedOnce, SentWasAccepted, NothingStranded, Distinct,
         Values, Waiting, Leased, NoSending, queueVars
<1>4. QED
  BY <1>1, <1>2, <1>3 DEF EdgeInv

-----------------------------------------------------------------------------
(* The invariant is inductive. *)

LEMMA InvNext == ASSUME EdgeInv, Next PROVE EdgeInv'
<1>1. CASE Source
  BY <1>1, SourceInv
<1>2. CASE Poll
  <2>1. CASE PollStart
    BY <2>1, PollStartInv
  <2>2. CASE ReadRow
    BY <2>2, ReadRowInv
  <2>3. CASE ReadEnd
    BY <2>3, ReadEndInv
  <2>4. CASE Archive
    BY <2>4, ArchiveInv
  <2>5. CASE Enqueue
    BY <2>5, EnqueueInv
  <2>6. QED
    BY <1>2, <2>1, <2>2, <2>3, <2>4, <2>5 DEF Poll
<1>3. CASE Deliver
  <2>1. CASE Claim
    BY <2>1, ClaimInv
  <2>2. CASE Elapse
    BY <2>2, ElapseInv
  <2>3. CASE Post
    BY <2>3, PostInv
  <2>4. CASE Timeout
    <3>1. faults' \in 0 .. MaxFaults
      BY <2>4, Ranges DEF Timeout
    <3>2. QED
      BY <2>4, <3>1, FailedInv DEF Timeout
  <2>5. CASE MarkSent
    BY <2>5, MarkSentInv
  <2>6. CASE Release
    BY <2>6, ReleaseInv
  <2>7. QED
    BY <1>3, <2>1, <2>2, <2>3, <2>4, <2>5, <2>6 DEF Deliver
<1>4. CASE Endpoint
  BY <1>4, IngestInv DEF Endpoint
<1>5. CASE Trouble
  <2>1. CASE PollFails
    BY <2>1, Ranges, PollEndsInv DEF PollFails, queueVars
  <2>2. CASE NoToken
    BY <2>2, Ranges, FailedInv DEF NoToken
  <2>3. CASE MarkSentFails
    BY <2>3, Ranges, FailedInv DEF MarkSentFails
  <2>4. CASE ReleaseFails
    BY <2>4, Ranges, IdleInv DEF ReleaseFails
  <2>5. CASE Crash
    BY <2>5, CrashInv
  <2>6. CASE Stop
    BY <2>6, Ranges, IdleInv DEF Stop
  <2>7. CASE \E q \in requests : IngestUnheard(q) \/ Refuse(q)
    BY <2>7, IngestUnheardInv, RefuseInv
  <2>8. QED
    BY <1>5, <2>1, <2>2, <2>3, <2>4, <2>5, <2>6, <2>7 DEF Trouble
<1>6. CASE Close
  BY <1>6, Ranges, IdleInv DEF Close
<1>7. CASE Start
  BY <1>7, Ranges, IdleInv DEF Start
<1>8. QED
  BY <1>1, <1>2, <1>3, <1>4, <1>5, <1>6, <1>7 DEF Next

LEMMA InvStutter == ASSUME EdgeInv, UNCHANGED vars PROVE EdgeInv'
<1>1. TypeOK'
  BY DEF vars, sourceVars, queueVars, EdgeInv, TypeOK
<1>2. CollectInv'
  BY DEF vars, sourceVars, queueVars, EdgeInv, CollectInv, CheckpointMatchesQueue, Before,
         QueuedWasArchived, PollKnows, After, Records, NoCheckpoint
<1>3. DeliverInv'
  BY DeliverKept DEF vars, sourceVars, queueVars, EdgeInv
<1>4. QED
  BY <1>1, <1>2, <1>3 DEF EdgeInv

(* The inductive invariant holds in every reachable state.                 *)
THEOREM Invariant == Spec => []EdgeInv
<1>1. Init => EdgeInv
  BY InitInv
<1>2. EdgeInv /\ [Next]_vars => EdgeInv'
  BY InvNext, InvStutter
<1>3. QED
  BY <1>1, <1>2, PTL DEF Spec

(* Every variable of the agent keeps its type.                             *)
THEOREM TypeCorrect == Spec => []TypeOK
<1>1. EdgeInv => TypeOK
  BY DEF EdgeInv
<1>2. QED
  BY <1>1, Invariant, PTL

(* Batches and checkpoint partition the processed prefix of the file: no   *)
(* row is skipped, and none is queued twice (EdgeQueue.enqueue, the poll). *)
THEOREM CollectedOnce == Spec => []CheckpointMatchesQueue
<1>1. EdgeInv => CheckpointMatchesQueue
  BY DEF EdgeInv, CollectInv
<1>2. QED
  BY <1>1, Invariant, PTL

(* A batch reaches the queue only after its raw records are on disk        *)
(* (pollConnector archives before it enqueues).                            *)
THEOREM ArchivedFirst == Spec => []QueuedWasArchived
<1>1. EdgeInv => QueuedWasArchived
  BY DEF EdgeInv, CollectInv
<1>2. QED
  BY <1>1, Invariant, PTL

(* The endpoint accepts no batch twice, whatever is delivered again.       *)
THEOREM AcceptedAtMostOnce == Spec => []AcceptedOnce
<1>1. EdgeInv => AcceptedOnce
  BY DEF EdgeInv, DeliverInv
<1>2. QED
  BY <1>1, Invariant, PTL

(* markSent only ever reaches batches that the endpoint has accepted.      *)
THEOREM SentIsAccepted == Spec => []SentWasAccepted
<1>1. EdgeInv => SentWasAccepted
  BY DEF EdgeInv, DeliverInv
<1>2. QED
  BY <1>1, Invariant, PTL

(* Every unsent batch can be claimed again: it is in the line exactly once *)
(* or it holds a lease (claim, release, and the expiry of leases).         *)
THEOREM NeverStranded == Spec => []NothingStranded
<1>1. EdgeInv => NothingStranded
  BY DEF EdgeInv, DeliverInv
<1>2. QED
  BY <1>1, Invariant, PTL

-----------------------------------------------------------------------------
(* Steps: what happens to the queue, and to what the endpoint accepted. *)

Steady ==
    /\ checkpoint' = checkpoint
    /\ queue' \in Seq(Batch) /\ Len(queue') = Len(queue) /\ DOMAIN queue' = DOMAIN queue
    /\ \A b \in DOMAIN queue : /\ queue'[b].rows = queue[b].rows
                               /\ queue[b].state = "sent" => queue'[b] = queue[b]

Collects ==
    /\ poll.phase = "archived"
    /\ queue' = Append(queue, NewBatch(poll))
    /\ checkpoint' = After(poll)
    /\ accepted' = accepted

LEMMA SettleSteady ==
    ASSUME EdgeInv, NEW x \in State, Settle(x), sending.phase # "idle", checkpoint' = checkpoint
    PROVE  Steady
<1>1. \A b \in DOMAIN queue : b # sending.batch => queue'[b] = queue[b]
  BY DEF Settle
<1>2. QED
  BY <1>1, SettleEffect DEF Steady

LEMMA QueueStep == ASSUME EdgeInv, [Next]_vars PROVE Steady \/ Collects
<1>1. CASE UNCHANGED <<checkpoint, queue>>
  BY <1>1, LineFacts DEF Steady
<1>2. CASE Claim
  BY <1>2, ClaimEffect DEF Claims, Steady
<1>3. CASE MarkSent
  BY <1>3, SettleSteady DEF MarkSent, State
<1>4. CASE Release
  BY <1>4, SettleSteady DEF Release, State
<1>5. CASE Enqueue
  BY <1>1, <1>5 DEF Enqueue, Collects, queueVars
<1>6. QED
  BY <1>1, <1>2, <1>3, <1>4, <1>5
     DEF Next, Source, AppendRow, RewriteRow, Truncate, Replace, Edit,
         Poll, PollStart, ReadRow, ReadEnd, Archive, Deliver, Elapse, Post, Timeout,
         Endpoint, Ingest, Trouble, PollFails, NoToken, MarkSentFails, ReleaseFails,
         Crash, Stop, IngestUnheard, Refuse, Close, Start, vars, queueVars

LEMMA AcceptStep ==
    ASSUME EdgeInv, [Next]_vars
    PROVE  \/ accepted' = accepted
           \/ /\ queue' = queue
              /\ \E b \in DOMAIN queue : Values(accepted') = Values(accepted) \cup {b}
<1>1. ASSUME NEW q \in requests, Ingest(q) \/ IngestUnheard(q)
      PROVE  /\ queue' = queue
             /\ \E b \in DOMAIN queue : Values(accepted') = Values(accepted) \cup {b}
  BY <1>1, Ranges, CompletedProperties DEF Ingest, IngestUnheard, queueVars
<1>2. QED
  BY <1>1
     DEF Next, Source, AppendRow, RewriteRow, Truncate, Replace, Edit,
         Poll, PollStart, ReadRow, ReadEnd, Archive, Enqueue, Deliver, Claim, Elapse, Post,
         Timeout, MarkSent, Release, Endpoint, Trouble, PollFails, NoToken, MarkSentFails,
         ReleaseFails, Crash, Stop, Refuse, Close, Start, vars, queueVars

Collected ==
    /\ Len(queue) <= Len(queue')
    /\ \A b \in DOMAIN queue : /\ queue'[b].rows = queue[b].rows
                               /\ queue[b].state = "sent" => queue'[b] = queue[b]
    /\ Len(checkpoint.prefix) <= Len(checkpoint'.prefix)
    /\ SubSeq(checkpoint'.prefix, 1, Len(checkpoint.prefix)) = checkpoint.prefix

LEMMA CollectedStep == ASSUME EdgeInv, [Next]_vars PROVE Collected
<1>1. CASE Steady
  <2>1. checkpoint.prefix \in Seq(Row) /\ Len(queue) \in Nat
    BY LineFacts DEF EdgeInv, TypeOK, Checkpoint
  <2>2. SubSeq(checkpoint.prefix, 1, Len(checkpoint.prefix)) = checkpoint.prefix
    BY <2>1, SubSeqFull, Zenon
  <2>3. QED
    BY <1>1, <2>1, <2>2 DEF Steady, Collected
<1>2. CASE Collects
  <2>1. /\ Len(queue) \in Nat /\ Len(queue') = Len(queue) + 1
        /\ \A b \in DOMAIN queue : queue'[b] = queue[b]
    BY <1>2, EnqueueEffect DEF Collects
  <2>2. checkpoint'.prefix = poll.seen
    BY <1>2 DEF Collects, After
  <2>3. Len(checkpoint.prefix) \in Nat /\ Len(poll.seen) \in Nat
    BY DEF EdgeInv, TypeOK, Checkpoint
  <2>4. /\ Len(poll.seen) > Len(checkpoint.prefix)
        /\ SubSeq(poll.seen, 1, Len(checkpoint.prefix)) = checkpoint.prefix
    BY <1>2, <2>3 DEF Collects, EdgeInv, CollectInv, PollKnows
  <2>5. QED
    BY <2>1, <2>2, <2>3, <2>4 DEF Collected
<1>3. QED
  BY <1>1, <1>2, QueueStep

(* No step drops or rewrites a batch, takes back a delivery or moves the   *)
(* checkpoint back (EdgeQueue: rows are only ever inserted and settled).   *)
THEOREM CollectedStays == Spec => CollectedForGood
<1>1. EdgeInv /\ [Next]_vars => [Collected]_vars
  BY CollectedStep
<1>2. QED
  BY <1>1, Invariant, PTL DEF Spec, CollectedForGood, Collected

-----------------------------------------------------------------------------
(* The refinement. *)

Rows == [b \in DOMAIN queue |-> queue[b].rows]

LEMMA FeedStep == ASSUME EdgeInv, [Next]_vars PROVE [Feed!Next]_(Feed!vars)
<1>1. CASE Steady
  <2>1. Rows' = Rows
    BY <1>1 DEF Steady, Rows
  <2>2. CASE accepted' = accepted
    <3>1. Values(accepted)' = Values(accepted)
      BY <2>2 DEF Values
    <3>2. QED
      BY <2>1, <3>1 DEF Feed!vars, Rows
  <2>3. CASE \E b \in DOMAIN queue : Values(accepted') = Values(accepted) \cup {b}
    <3>1. PICK b \in DOMAIN queue : Values(accepted') = Values(accepted) \cup {b}
      BY <2>3
    <3>2. Values(accepted)' = Values(accepted) \cup {b} /\ DOMAIN Rows = DOMAIN queue
      BY <3>1 DEF Values, Rows
    <3>3. CASE b \in Values(accepted)
      BY <2>1, <3>2, <3>3 DEF Feed!vars, Rows
    <3>4. CASE b \notin Values(accepted)
      BY <2>1, <3>2, <3>4 DEF Feed!Next, Feed!Accept, Rows
    <3>5. QED
      BY <3>3, <3>4
  <2>4. QED
    BY <2>2, <2>3, AcceptStep
<1>2. CASE Collects
  <2>1. PICK n \in Nat : /\ n = Len(queue) /\ DOMAIN queue = 1 .. n /\ DOMAIN queue' = 1 .. n + 1
                         /\ \A b \in 1 .. n : queue'[b] = queue[b]
                         /\ queue'[n + 1].rows # <<>>
    BY <1>2, EnqueueEffect DEF Collects
  <2>2. /\ DOMAIN Rows = 1 .. n /\ DOMAIN Rows' = 1 .. n + 1
        /\ \A b \in 1 .. n : Rows'[b] = Rows[b]
        /\ Rows'[n + 1] # <<>>
    BY <2>1 DEF Rows
  <2>3. Len(Rows) = n /\ Len(Rows') = n + 1
    BY <2>1, <2>2
  <2>4. Values(accepted)' = Values(accepted)
    BY <1>2 DEF Collects, Values
  <2>5. QED
    BY <2>2, <2>3, <2>4 DEF Feed!Next, Feed!Collect, Rows
<1>3. QED
  BY <1>1, <1>2, QueueStep

(* The agent and the endpoint implement the store-and-forward feed: every  *)
(* step collects one batch, has one more batch accepted, or is invisible.  *)
THEOREM StoresAndForwards == Spec => Feed!Spec
<1>1. Init => Feed!Init
  <2>1. ASSUME Init PROVE Rows = <<>> /\ Values(accepted) = {}
    BY <2>1 DEF Init, Rows, Values
  <2>2. QED
    BY <2>1 DEF Feed!Init, Rows
<1>2. EdgeInv /\ [Next]_vars => [Feed!Next]_(Feed!vars)
  BY FeedStep
<1>3. QED
  BY <1>1, <1>2, Invariant, PTL DEF Spec, Feed!Spec
=============================================================================
