-------------------------- MODULE EventFanoutProofs --------------------------
(***************************************************************************)
(* Proofs about EventFanout for any instances, connections, users, memory  *)
(* limit and bounds, and about what runs in the browsers that follow it:   *)
(* the lists and the shell of WebPlane.                                    *)
(***************************************************************************)
EXTENDS EventFanout, WebPlane, SequenceTheorems, FiniteSetTheorems, TLAPS

Frames == {Presence} \cup Committed

DataT ==
    /\ log \in Seq(Entry) /\ Len(log) <= MaxEvents
    /\ stream \in Seq(Committed)
ReaderT ==
    /\ active \in [Instance -> BOOLEAN]
    /\ cursor \in [Instance -> 0 .. Len(stream)]
    /\ reading \in [Instance -> BOOLEAN]
    /\ start \in [Instance -> 0 .. Len(stream)]
    /\ missed \in [Instance -> BOOLEAN]
MemoryT ==
    /\ seen \in [Instance -> Seq(Committed)]
    /\ \A i \in Instance : Len(seen[i]) <= SeenLimit
    /\ dispatched \in [Instance -> Seq(Committed)]
ConnT ==
    /\ status \in [Conn -> {"new", "admitted", "gone", "open", "ending", "closed"}]
    /\ at \in [Conn -> Instance]
    /\ subscribed \subseteq Conn
    /\ since \in [Conn -> Nat]
DeliveryT ==
    /\ queue \in [Conn -> Seq(Frames)]
    /\ cleared \in [Conn -> BOOLEAN]
    /\ written \in [Conn -> Seq(Committed)]
FaultT == faults \in 0 .. MaxFaults

LEMMA TypeParts ==
    TypeOK <=> DataT /\ ReaderT /\ MemoryT /\ ConnT /\ DeliveryT /\ FaultT
BY DEF TypeOK, DataT, ReaderT, MemoryT, ConnT, DeliveryT, FaultT, Frames

LEMMA Parts ==
    FanoutInv <=> /\ DataT /\ ReaderT /\ MemoryT /\ ConnT /\ DeliveryT /\ FaultT
                  /\ ClearedInv /\ SeenInv /\ NoPayloadAfterRevocation /\ DuplicatesNeedEviction
BY TypeParts DEF FanoutInv

LEMMA NextParts ==
    ASSUME DataT', ReaderT', MemoryT', ConnT', DeliveryT', FaultT',
           ClearedInv', SeenInv', NoPayloadAfterRevocation', DuplicatesNeedEviction'
    PROVE  FanoutInv'
<1>1. TypeOK'
  BY DEF TypeOK, DataT, ReaderT, MemoryT, ConnT, DeliveryT, FaultT, Frames
<1>2. QED
  BY <1>1 DEF FanoutInv

LEMMA FaultStep == ASSUME FaultT, Fault \/ UNCHANGED faults PROVE FaultT'
BY FanoutAssumption DEF FaultT, Fault

-----------------------------------------------------------------------------
(* Initially. *)

LEMMA InitInv == Init => FanoutInv
<1> SUFFICES ASSUME Init PROVE FanoutInv
  OBVIOUS
<1> USE DEF Init
<1>1. DataT /\ FaultT
  BY FanoutAssumption DEF DataT, FaultT
<1>2. ReaderT /\ MemoryT
  BY FanoutAssumption DEF ReaderT, MemoryT, Latest
<1>3. ConnT /\ DeliveryT
  BY DEF ConnT, DeliveryT
<1>4. ClearedInv /\ SeenInv
  BY FanoutAssumption DEF ClearedInv, SeenInv
<1>5. NoPayloadAfterRevocation /\ DuplicatesNeedEviction
  BY DEF NoPayloadAfterRevocation, DuplicatesNeedEviction
<1>6. QED
  BY <1>1, <1>2, <1>3, <1>4, <1>5, Parts

-----------------------------------------------------------------------------
(* Steps that leave the connections alone. *)

(* A change of the log keeps what was allowed: a moment at which a user    *)
(* was a member stays one.                                                 *)
LEMMA AllowedStays ==
    ASSUME DataT, NEW entry, log' = Append(log, entry),
           NEW c \in Conn, NEW e \in Committed, Allowed(c, e)
    PROVE  Allowed(c, e)'
<1>1. PICK n \in Nat : n = Len(log)
  BY DEF DataT
<1>2. Len(log') = n + 1 /\ \A k \in 1 .. n : log'[k] = log[k]
  BY <1>1 DEF DataT
<1>3. CASE OwnRemoval(c, e)
  BY <1>1, <1>2, <1>3 DEF OwnRemoval, Removes, Allowed, Committed
<1>4. CASE \E m \in e .. Len(log) : MemberAfter(UserOf[c], m)
  <2>1. PICK m \in e .. n : MemberAfter(UserOf[c], m)
    BY <1>1, <1>4
  <2>2. m \in e .. Len(log') /\ m <= n /\ m \in Nat
    BY <1>1, <1>2, <2>1 DEF Committed
  <2>3. MemberAfter(UserOf[c], m)'
    <3>1. \A k \in 1 .. m : log'[k] = log[k]
      BY ONLY <1>2, <2>2, n \in Nat
    <3>2. \A k \in 1 .. m : \A l \in k + 1 .. m : l \in 1 .. m
      BY ONLY <2>2
    <3> QED BY ONLY <2>1, <3>1, <3>2 DEF MemberAfter, Removes, Adds
  <2>4. QED
    BY <2>2, <2>3 DEF Allowed
<1>5. QED
  BY <1>3, <1>4 DEF Allowed

LEMMA CommitInv ==
    ASSUME FanoutInv, NEW entry \in Entry, Commit(entry) PROVE FanoutInv'
<1>1. /\ DataT /\ ReaderT /\ MemoryT /\ ConnT /\ DeliveryT /\ FaultT
      /\ ClearedInv /\ SeenInv /\ NoPayloadAfterRevocation /\ DuplicatesNeedEviction
  BY Parts
<1>2. /\ Len(log) < MaxEvents /\ log' = Append(log, entry)
      /\ UNCHANGED <<stream, reader, connection, subscribed, delivery, faults>>
  BY DEF Commit
<1>3. /\ log' \in Seq(Entry) /\ Len(log') <= MaxEvents
      /\ \A k \in Committed : k \in Committed'
  BY <1>1, <1>2, FanoutAssumption DEF DataT, Committed
<1>4. \A s \in Seq(Committed) : s \in Seq(Committed')
  BY <1>3
<1>5. \A s \in Seq(Frames) : s \in Seq(Frames')
  BY <1>3 DEF Frames, Presence
<1>6. DataT'
  BY <1>1, <1>2, <1>3, <1>4 DEF DataT
<1>7. ReaderT' /\ ConnT' /\ FaultT'
  BY <1>1, <1>2 DEF ReaderT, ConnT, FaultT, reader, connection
<1>8. MemoryT'
  <2>1. UNCHANGED <<seen, dispatched>>
    BY <1>2 DEF reader
  <2>2. seen \in [Instance -> Seq(Committed')] /\ dispatched \in [Instance -> Seq(Committed')]
    BY <1>1, <1>4 DEF MemoryT
  <2>3. QED
    BY <1>1, <2>1, <2>2 DEF MemoryT
<1>9. DeliveryT'
  <2>1. UNCHANGED <<queue, cleared, written>>
    BY <1>2 DEF delivery
  <2>2. queue \in [Conn -> Seq(Frames')] /\ written \in [Conn -> Seq(Committed')]
    BY <1>1, <1>4, <1>5 DEF DeliveryT
  <2>3. QED
    BY <1>1, <2>1, <2>2 DEF DeliveryT
<1>10. SeenInv' /\ DuplicatesNeedEviction'
  BY <1>1, <1>2 DEF SeenInv, DuplicatesNeedEviction, reader
<1>11. ClearedInv'
  <2>1. ASSUME NEW c \in Conn, cleared'[c]
        PROVE  (queue[c] # <<>> /\ (queue[c][1] # Presence => Allowed(c, queue[c][1])))'
    <3>1. queue'[c] = queue[c] /\ cleared[c] /\ queue[c] \in Seq(Frames)
      BY <1>1, <1>2, <2>1 DEF delivery, DeliveryT
    <3>2. queue[c] # <<>> /\ (queue[c][1] # Presence => Allowed(c, queue[c][1]))
      BY <1>1, <3>1 DEF ClearedInv
    <3>3. PICK e \in Frames : e = queue[c][1]
      BY <3>1, <3>2
    <3>4. e # Presence => Allowed(c, e)'
      BY <1>1, <1>2, <3>2, <3>3, AllowedStays DEF Frames
    <3>5. QED
      BY <3>1, <3>2, <3>3, <3>4 DEF Allowed, OwnRemoval, Removes, MemberAfter, Adds
  <2>2. QED
    BY <2>1 DEF ClearedInv
<1>12. NoPayloadAfterRevocation'
  <2>1. ASSUME NEW c \in Conn, NEW j \in 1 .. Len(written'[c])
        PROVE  Allowed(c, written[c][j])'
    <3>1. written'[c] = written[c] /\ written[c] \in Seq(Committed) /\ j \in 1 .. Len(written[c])
      BY <1>1, <1>2, <2>1 DEF delivery, DeliveryT
    <3>2. PICK e \in Committed : e = written[c][j] /\ Allowed(c, e)
      BY <1>1, <3>1 DEF NoPayloadAfterRevocation
    <3>3. Allowed(c, e)'
      BY <1>1, <1>2, <3>2, AllowedStays
    <3>4. QED
      BY <3>1, <3>2, <3>3 DEF Allowed, OwnRemoval, Removes, MemberAfter, Adds
  <2>2. QED
    BY <2>1 DEF NoPayloadAfterRevocation
<1>13. QED
  BY <1>6, <1>7, <1>8, <1>9, <1>10, <1>11, <1>12, NextParts

(* A step that changes neither the log nor a connection nor what an        *)
(* instance remembers.                                                     *)
LEMMA ReaderStep ==
    ASSUME FanoutInv, UNCHANGED <<log, seen, dispatched, connection, subscribed, delivery>>,
           stream' \in Seq(Committed), ReaderT', FaultT'
    PROVE  FanoutInv'
<1>1. /\ DataT /\ MemoryT /\ ConnT /\ DeliveryT
      /\ ClearedInv /\ SeenInv /\ NoPayloadAfterRevocation /\ DuplicatesNeedEviction
  BY Parts
<1>2. DataT' /\ MemoryT' /\ ConnT' /\ DeliveryT'
  BY <1>1 DEF DataT, MemoryT, ConnT, DeliveryT, Committed, Frames, connection, delivery
<1>3. SeenInv' /\ DuplicatesNeedEviction'
  BY <1>1 DEF SeenInv, DuplicatesNeedEviction
<1>4. ClearedInv' /\ NoPayloadAfterRevocation'
  BY <1>1 DEF ClearedInv, NoPayloadAfterRevocation, Allowed, OwnRemoval, Removes, Adds,
              MemberAfter, delivery
<1>5. QED
  BY <1>2, <1>3, <1>4, NextParts

LEMMA PublishInv == FanoutInv /\ Publish => FanoutInv'
<1> SUFFICES ASSUME FanoutInv, Publish PROVE FanoutInv'
  OBVIOUS
<1>1. DataT /\ ReaderT /\ FaultT
  BY Parts
<1>2. PICK k \in Committed :
        /\ Fault \/ UNCHANGED faults
        /\ stream' = Append(stream, k)
        /\ UNCHANGED <<log, reader, connection, subscribed, delivery>>
  BY DEF Publish, Committed
<1>3. stream' \in Seq(Committed) /\ Len(stream') = Len(stream) + 1
  BY <1>1, <1>2 DEF DataT
<1>4. ReaderT'
  <2>1. UNCHANGED <<active, cursor, reading, start, missed>>
    BY <1>2 DEF reader
  <2>2. \A n \in 0 .. Len(stream) : n \in 0 .. Len(stream')
    BY <1>1, <1>3 DEF DataT
  <2>3. QED
    BY <1>1, <2>1, <2>2 DEF ReaderT
<1>5. FaultT'
  BY <1>1, <1>2, FaultStep
<1>6. UNCHANGED <<seen, dispatched>>
  BY <1>2 DEF reader
<1>7. QED
  BY <1>2, <1>3, <1>4, <1>5, <1>6, ReaderStep

LEMMA ReadInv ==
    ASSUME FanoutInv, NEW i \in Instance, Read(i) \/ TimeOut(i) \/ Disable(i)
    PROVE  FanoutInv'
<1>1. DataT /\ ReaderT /\ FaultT
  BY Parts
<1>2. Len(stream) \in Nat /\ stream' = stream
  BY <1>1 DEF DataT, Read, TimeOut, Disable, database
<1>3. ReaderT'
  <2>1. CASE Read(i)
    BY <1>1, <1>2, <2>1 DEF Read, ReaderT
  <2>2. CASE TimeOut(i)
    BY <1>1, <1>2, <2>2 DEF TimeOut, ReaderT
  <2>3. CASE Disable(i)
    BY <1>1, <1>2, <2>3 DEF Disable, ReaderT
  <2>4. QED
    BY <2>1, <2>2, <2>3
<1>4. FaultT'
  BY <1>1, FaultStep DEF Read, TimeOut, Disable
<1>5. stream' \in Seq(Committed)
  BY <1>1, <1>2 DEF DataT
<1>6. UNCHANGED <<log, seen, dispatched, connection, subscribed, delivery>>
  BY DEF Read, TimeOut, Disable, database
<1>7. QED
  BY <1>3, <1>4, <1>5, <1>6, ReaderStep

-----------------------------------------------------------------------------
(* What an instance remembers. *)

Window(s, d) ==
    /\ Len(s) = IF Len(d) < SeenLimit THEN Len(d) ELSE SeenLimit
    /\ \A j \in 1 .. Len(s) : s[j] = d[Len(d) - Len(s) + j]

Spaced(d) == \A j, k \in 1 .. Len(d) : j < k /\ d[j] = d[k] => k - j > SeenLimit

LEMMA MemoryParts ==
    /\ SeenInv <=> \A i \in Instance : Window(seen[i], dispatched[i])
    /\ DuplicatesNeedEviction <=> \A i \in Instance : Spaced(dispatched[i])
BY DEF SeenInv, DuplicatesNeedEviction, Window, Spaced

(* A new event enters the window, and its last copy is not in the window.  *)
LEMMA RememberEffect ==
    ASSUME NEW S, NEW s \in Seq(S), NEW d \in Seq(S), NEW e \in S,
           Window(s, d), Spaced(d), \A j \in 1 .. Len(s) : s[j] # e
    PROVE  /\ Remember(s, e) \in Seq(S) /\ Len(Remember(s, e)) <= SeenLimit
           /\ Window(Remember(s, e), Append(d, e)) /\ Spaced(Append(d, e))
<1>1. PICK n \in Nat : n = Len(s)
  OBVIOUS
<1>2. PICK m \in Nat : m = Len(d)
  OBVIOUS
<1>3. PICK L \in Nat \ {0} : L = SeenLimit
  BY FanoutAssumption
<1>4. n = (IF m < L THEN m ELSE L) /\ \A j \in 1 .. n : s[j] = d[m - n + j]
  BY <1>1, <1>2, <1>3 DEF Window
<1> DEFINE a == Append(s, e)
           b == Append(d, e)
<1>5. a \in Seq(S) /\ Len(a) = n + 1 /\ a[n + 1] = e /\ \A j \in 1 .. n : a[j] = s[j]
  BY <1>1, AppendProperties
<1>6. b \in Seq(S) /\ Len(b) = m + 1 /\ b[m + 1] = e /\ \A j \in 1 .. m : b[j] = d[j]
  BY <1>2, AppendProperties
<1> HIDE DEF a, b
<1>7. ASSUME n < L
      PROVE  Remember(s, e) \in Seq(S) /\ Len(Remember(s, e)) <= L /\ Window(Remember(s, e), b)
  <2>1. Remember(s, e) = a /\ m = n
    BY <1>1, <1>3, <1>4, <1>7 DEF Remember, a
  <2>2. ASSUME NEW j \in 1 .. n + 1 PROVE a[j] = b[j]
    <3>1. CASE j = n + 1
      BY <1>5, <1>6, <2>1, <3>1
    <3>2. CASE j # n + 1
      <4>1. j \in 1 .. n /\ m - n + j = j
        BY <2>1, <3>2
      <4>2. a[j] = d[m - n + j] /\ b[j] = d[j]
        BY <1>4, <1>5, <1>6, <2>1, <4>1
      <4>3. QED
        BY <4>1, <4>2
    <3>3. QED
      BY <3>1, <3>2
  <2>3. Window(a, b)
    <3>1. Len(a) = (IF Len(b) < SeenLimit THEN Len(b) ELSE SeenLimit)
      <4>1. Len(a) = n + 1 /\ Len(b) = n + 1
        BY <1>5, <1>6, <2>1
      <4>2. n + 1 = (IF n + 1 < L THEN n + 1 ELSE L)
        BY <1>7
      <4>3. QED
        BY <1>3, <4>1, <4>2
    <3>2. ASSUME NEW j \in 1 .. Len(a) PROVE a[j] = b[Len(b) - Len(a) + j]
      <4>1. j \in 1 .. n + 1 /\ Len(b) - Len(a) + j = j
        BY <1>5, <1>6, <2>1
      <4>2. QED
        BY <2>2, <4>1
    <3>3. QED
      BY <3>1, <3>2 DEF Window
  <2>4. QED
    BY <1>5, <1>7, <2>1, <2>3
<1>8. ASSUME ~(n < L)
      PROVE  Remember(s, e) \in Seq(S) /\ Len(Remember(s, e)) <= L /\ Window(Remember(s, e), b)
  <2>1. Remember(s, e) = Tail(a) /\ n = L /\ m >= L
    BY <1>1, <1>3, <1>4, <1>8 DEF Remember, a
  <2>2. /\ Tail(a) \in Seq(S) /\ Len(Tail(a)) = n
        /\ \A j \in 1 .. n : Tail(a)[j] = a[j + 1]
    BY <1>5
  <2>3. ASSUME NEW j \in 1 .. n PROVE Tail(a)[j] = b[(m + 1) - n + j]
    <3>1. CASE j = n
      BY <1>5, <1>6, <2>2, <3>1
    <3>2. CASE j # n
      <4>1. j + 1 \in 1 .. n /\ m - n + (j + 1) \in 1 .. m
        BY <2>1, <3>2
      <4>2. a[j + 1] = d[m - n + (j + 1)]
        BY <1>4, <1>5, <4>1
      <4>3. b[m - n + (j + 1)] = d[m - n + (j + 1)]
        BY <1>6, <4>1
      <4>4. m - n + (j + 1) = (m + 1) - n + j
        BY <2>1
      <4>5. QED
        BY <2>2, <4>2, <4>3, <4>4
    <3>3. QED
      BY <3>1, <3>2
  <2>4. Window(Tail(a), b)
    <3>1. Len(Tail(a)) = (IF Len(b) < SeenLimit THEN Len(b) ELSE SeenLimit)
      BY <1>3, <1>6, <2>1, <2>2
    <3>2. ASSUME NEW j \in 1 .. Len(Tail(a)) PROVE Tail(a)[j] = b[Len(b) - Len(Tail(a)) + j]
      <4>1. j \in 1 .. n /\ Len(b) - Len(Tail(a)) + j = (m + 1) - n + j
        BY <1>6, <2>2
      <4>2. QED
        BY <2>3, <4>1
    <3>3. QED
      BY <3>1, <3>2 DEF Window
  <2>5. QED
    BY <2>1, <2>2, <2>4
<1>9. ASSUME NEW j \in 1 .. m + 1, NEW k \in 1 .. m + 1, j < k, b[j] = b[k]
      PROVE  k - j > L
  <2>1. CASE k <= m
    <3>1. j \in 1 .. m /\ k \in 1 .. m /\ d[j] = d[k]
      BY <1>6, <1>9, <2>1
    <3>2. QED
      BY <1>2, <1>3, <1>9, <3>1 DEF Spaced
  <2>2. CASE k = m + 1 /\ k - j <= L
    <3>1. j \in 1 .. m /\ d[j] = e
      BY <1>6, <1>9, <2>2
    <3>2. j - (m - n) \in 1 .. n
      <4>1. j \in Nat /\ 1 <= j /\ j <= m /\ m + 1 - j <= L
        BY <2>2, <3>1
      <4>2. CASE m < L
        <5>1. n = m
          BY <1>4, <4>2
        <5> QED BY ONLY <4>1, <5>1, n \in Nat, m \in Nat
      <4>3. CASE ~(m < L)
        <5>1. n = L
          BY <1>4, <4>3
        <5> QED BY ONLY <4>1, <5>1, n \in Nat, m \in Nat, L \in Nat
      <4> QED BY ONLY <4>2, <4>3
    <3>3. PICK x \in 1 .. n : x = j - (m - n)
      BY <3>2
    <3>4. s[x] = d[m - n + x] /\ m - n + x = j
      <4>1. s[x] = d[m - n + x]
        BY <1>4, <3>3
      <4>2. m - n + x = j
        BY <3>3
      <4>3. QED
        BY <4>1, <4>2
    <3>5. QED
      BY <1>1, <3>1, <3>3, <3>4
  <2>3. QED
    BY <1>9, <2>1, <2>2
<1>10. Spaced(b)
  BY <1>3, <1>6, <1>9 DEF Spaced
<1>11. QED
  BY <1>3, <1>7, <1>8, <1>10 DEF b

-----------------------------------------------------------------------------
(* Steps of the hub and of the connections. *)

\* A line that was not empty still starts with the same frame.
SameHead(p, q) == p # <<>> => q # <<>> /\ q[1] = p[1]

(* A step that leaves the log alone, and clears or writes nothing that     *)
(* was not allowed.                                                        *)
LEMMA DeliveryStep ==
    ASSUME FanoutInv, UNCHANGED database, ReaderT', MemoryT', SeenInv', DuplicatesNeedEviction',
           ConnT', DeliveryT', FaultT',
           \A c \in Conn : cleared'[c] =>
               queue'[c] # <<>> /\ (queue'[c][1] # Presence => Allowed(c, queue'[c][1])),
           \A c \in Conn : \A j \in 1 .. Len(written'[c]) : Allowed(c, written'[c][j])
    PROVE  FanoutInv'
<1>1. DataT'
  BY Parts DEF DataT, Committed, database
<1>2. ClearedInv' /\ NoPayloadAfterRevocation'
  BY DEF ClearedInv, NoPayloadAfterRevocation, Allowed, OwnRemoval, Removes, Adds, MemberAfter,
         database
<1>3. QED
  BY <1>1, <1>2, NextParts

(* The same, when what has been cleared and written stays.                 *)
LEMMA QueueStep ==
    ASSUME FanoutInv, UNCHANGED <<database, cleared, written>>, ReaderT', MemoryT', SeenInv',
           DuplicatesNeedEviction', ConnT', FaultT', queue' \in [Conn -> Seq(Frames)],
           \A c \in Conn : SameHead(queue[c], queue'[c])
    PROVE  FanoutInv'
<1>1. DataT /\ DeliveryT /\ ClearedInv /\ NoPayloadAfterRevocation
  BY Parts
<1>2. DeliveryT'
  BY <1>1 DEF DeliveryT, Frames, Committed, database
<1>3. \A c \in Conn : cleared'[c] =>
        queue'[c] # <<>> /\ (queue'[c][1] # Presence => Allowed(c, queue'[c][1]))
  BY <1>1 DEF ClearedInv, SameHead
<1>4. \A c \in Conn : \A j \in 1 .. Len(written'[c]) : Allowed(c, written'[c][j])
  BY <1>1 DEF NoPayloadAfterRevocation
<1>5. QED
  BY <1>2, <1>3, <1>4, DeliveryStep

LEMMA Longer ==
    ASSUME NEW S, NEW p \in Seq(S), NEW f \in Seq(S)
    PROVE  p \o f \in Seq(S) /\ SameHead(p, p \o f)
<1>1. PICK n \in Nat : n = Len(p)
  OBVIOUS
<1>2. PICK m \in Nat : m = Len(f)
  OBVIOUS
<1>3. /\ p \o f \in Seq(S) /\ Len(p \o f) = n + m
      /\ \A j \in 1 .. n + m : (p \o f)[j] = IF j <= n THEN p[j] ELSE f[j - n]
  BY <1>1, <1>2, ConcatProperties
<1>4. p # <<>> => n > 0
  BY <1>1, EmptySeq
<1>5. QED
  BY <1>1, <1>3, <1>4 DEF SameHead

LEMMA AnnounceEffect ==
    ASSUME DeliveryT, NEW A
    PROVE  /\ Announce(A) \in [Conn -> Seq(Frames)]
           /\ \A c \in Conn : SameHead(queue[c], Announce(A)[c])
<1>1. ASSUME NEW c \in Conn
      PROVE  Announce(A)[c] \in Seq(Frames) /\ SameHead(queue[c], Announce(A)[c])
  <2>1. queue[c] \in Seq(Frames) /\ Presence \in Frames
    BY DEF DeliveryT, Frames
  <2>2. PICK n \in Nat : n = Len(queue[c])
    BY <2>1
  <2>3. /\ Append(queue[c], Presence) \in Seq(Frames)
        /\ Len(Append(queue[c], Presence)) = n + 1
        /\ \A j \in 1 .. n : Append(queue[c], Presence)[j] = queue[c][j]
    BY <2>1, <2>2, AppendProperties
  <2>4. queue[c] # <<>> => n > 0
    BY <2>1, <2>2, EmptySeq
  <2>5. SameHead(queue[c], Append(queue[c], Presence)) /\ SameHead(queue[c], queue[c])
    BY <2>2, <2>3, <2>4 DEF SameHead
  <2>6. QED
    BY <2>1, <2>3, <2>5 DEF Announce
<1>2. QED
  BY <1>1 DEF Announce

(* The hub puts an event into the lines behind what is already there.      *)
LEMMA ReceiveEffect ==
    ASSUME DeliveryT, ConnT, NEW i \in Instance, NEW e \in Committed, Receive(i, e)
    PROVE  /\ queue' \in [Conn -> Seq(Frames)] /\ subscribed' \subseteq Conn
           /\ \A c \in Conn : SameHead(queue[c], queue'[c])
<1>1. ASSUME NEW c \in Conn
      PROVE  queue'[c] \in Seq(Frames) /\ SameHead(queue[c], queue'[c])
  <2>1. queue[c] \in Seq(Frames) /\ FramesFor(c, i, e) \in Seq(Frames)
    <3>1. e \in Frames /\ Presence \in Frames
      BY DEF Frames
    <3>2. <<e>> \in Seq(Frames) /\ <<e, Presence>> \in Seq(Frames)
      BY <3>1
    <3>3. QED
      BY <3>2 DEF DeliveryT, FramesFor
  <2>2. queue[c] \o FramesFor(c, i, e) \in Seq(Frames)
        /\ SameHead(queue[c], queue[c] \o FramesFor(c, i, e))
    BY <2>1, Longer
  <2>3. SameHead(queue[c], queue[c])
    BY DEF SameHead
  <2>4. QED
    BY <2>1, <2>2, <2>3 DEF Receive
<1>2. QED
  BY <1>1 DEF Receive, ConnT

LEMMA ConsumeInv == ASSUME FanoutInv, NEW i \in Instance, Consume(i) PROVE FanoutInv'
<1>1. /\ DataT /\ ReaderT /\ MemoryT /\ ConnT /\ DeliveryT /\ FaultT /\ SeenInv
      /\ DuplicatesNeedEviction
  BY Parts
<1>2. PICK p \in Nat : p = Position(i) /\ p < Len(stream)
  BY <1>1 DEF Consume, ReaderT, Position
<1>3. PICK e \in Committed : e = stream[p + 1]
  <2>1. p + 1 \in 1 .. Len(stream)
    BY <1>1, <1>2 DEF DataT
  <2>2. QED
    BY <1>1, <2>1 DEF DataT
<1>4. UNCHANGED <<log, stream>> /\ UNCHANGED <<cleared, written, status, at, since>>
  BY DEF Consume, database, connection
<1>5. ReaderT'
  <2>1. p + 1 \in 0 .. Len(stream) /\ 0 \in 0 .. Len(stream)
    BY <1>1, <1>2 DEF DataT
  <2>2. cursor' = [cursor EXCEPT ![i] = p + 1] /\ start' = [start EXCEPT ![i] = 0]
    BY <1>2 DEF Consume, MovedTo
  <2>3. active' = active /\ missed' = missed /\ reading' = [reading EXCEPT ![i] = FALSE]
    BY DEF Consume
  <2>4. QED
    BY <1>1, <1>4, <2>1, <2>2, <2>3 DEF ReaderT
<1>6. FaultT' /\ UNCHANGED faults
  BY <1>1 DEF Consume, FaultT
<1>7. CASE e \in Range(seen[i])
  <2>1. UNCHANGED <<seen, dispatched, queue, subscribed>>
    BY <1>2, <1>3, <1>7 DEF Consume
  <2>2. stream' \in Seq(Committed)
    BY <1>1, <1>4 DEF DataT
  <2>3. QED
    BY <1>4, <1>5, <1>6, <2>1, <2>2, ReaderStep DEF connection, delivery
<1>8. CASE e \notin Range(seen[i])
  <2>1. /\ seen' = [seen EXCEPT ![i] = Remember(seen[i], e)]
        /\ dispatched' = [dispatched EXCEPT ![i] = Append(dispatched[i], e)]
        /\ Receive(i, e)
    BY <1>2, <1>3, <1>8 DEF Consume
  <2>2. seen[i] \in Seq(Committed) /\ dispatched[i] \in Seq(Committed)
    BY <1>1 DEF MemoryT
  <2>3. \A j \in 1 .. Len(seen[i]) : seen[i][j] # e
    BY <1>8, <2>2 DEF Range
  <2>4. Window(seen[i], dispatched[i]) /\ Spaced(dispatched[i])
    BY <1>1, MemoryParts
  <2>5. /\ Remember(seen[i], e) \in Seq(Committed) /\ Len(Remember(seen[i], e)) <= SeenLimit
        /\ Window(Remember(seen[i], e), Append(dispatched[i], e))
        /\ Spaced(Append(dispatched[i], e))
    BY <2>2, <2>3, <2>4, RememberEffect
  <2>6. MemoryT'
    <3>1. Append(dispatched[i], e) \in Seq(Committed)
      BY <2>2
    <3>2. QED
      BY <1>1, <1>4, <2>1, <2>5, <3>1 DEF MemoryT, Committed
  <2>7. ASSUME NEW k \in Instance
        PROVE  Window(seen'[k], dispatched'[k]) /\ Spaced(dispatched'[k])
    <3>1. CASE k = i
      BY <1>1, <2>1, <2>5, <3>1 DEF MemoryT
    <3>2. CASE k # i
      BY <1>1, <2>1, <3>2, MemoryParts DEF MemoryT
    <3>3. QED
      BY <3>1, <3>2
  <2>8. SeenInv' /\ DuplicatesNeedEviction'
    BY <2>7 DEF SeenInv, DuplicatesNeedEviction, Window, Spaced
  <2>9. /\ queue' \in [Conn -> Seq(Frames)] /\ subscribed' \subseteq Conn
        /\ \A c \in Conn : SameHead(queue[c], queue'[c])
    BY <1>1, <2>1, ReceiveEffect
  <2>10. ConnT'
    BY <1>1, <1>4, <2>9 DEF ConnT
  <2>11. QED
    BY <1>4, <1>5, <1>6, <2>6, <2>8, <2>9, <2>10, QueueStep DEF database
<1>9. QED
  BY <1>7, <1>8

(* A step of connections only: the readers are as they were.               *)
LEMMA SameReaders ==
    ASSUME FanoutInv, UNCHANGED <<database, reader>>
    PROVE  ReaderT' /\ MemoryT' /\ SeenInv' /\ DuplicatesNeedEviction'
BY Parts DEF ReaderT, MemoryT, SeenInv, DuplicatesNeedEviction, database, reader, Committed

LEMMA RestartInv == ASSUME FanoutInv, NEW i \in Instance, Restart(i) PROVE FanoutInv'
<1>1. /\ DataT /\ ReaderT /\ MemoryT /\ ConnT /\ DeliveryT /\ FaultT /\ ClearedInv /\ SeenInv
      /\ NoPayloadAfterRevocation /\ DuplicatesNeedEviction
  BY Parts
<1>2. UNCHANGED <<log, stream, at, since>>
  BY DEF Restart, database
<1>3. ReaderT'
  BY <1>1, <1>2 DEF Restart, ReaderT, DataT, Latest
<1>4. MemoryT'
  BY <1>1, <1>2, FanoutAssumption DEF Restart, MemoryT, Committed
<1>5. SeenInv' /\ DuplicatesNeedEviction'
  <2>1. ASSUME NEW k \in Instance
        PROVE  Window(seen'[k], dispatched'[k]) /\ Spaced(dispatched'[k])
    <3>1. CASE k = i
      <4>1. seen'[k] = <<>> /\ dispatched'[k] = <<>>
        BY <1>1, <3>1 DEF Restart, MemoryT
      <4>2. QED
        BY <4>1, FanoutAssumption DEF Window, Spaced
    <3>2. CASE k # i
      BY <1>1, <3>2, MemoryParts DEF Restart, MemoryT
    <3>3. QED
      BY <3>1, <3>2
  <2>2. QED
    BY <2>1 DEF SeenInv, DuplicatesNeedEviction, Window, Spaced
<1>6. FaultT'
  BY <1>1, FaultStep DEF Restart
<1> DEFINE lost == {c \in Conn : at[c] = i /\ status[c] # "new"}
<1>7. /\ status' = [c \in Conn |-> IF c \in lost THEN "closed" ELSE status[c]]
      /\ subscribed' = subscribed \ lost
      /\ queue' = [c \in Conn |-> IF c \in lost THEN <<>> ELSE queue[c]]
      /\ cleared' = [c \in Conn |-> IF c \in lost THEN FALSE ELSE cleared[c]]
      /\ written' = [c \in Conn |-> IF c \in lost THEN <<>> ELSE written[c]]
  BY DEF Restart
<1> HIDE DEF lost
<1>8. ConnT'
  <2>1. status' \in [Conn -> {"new", "admitted", "gone", "open", "ending", "closed"}]
    BY <1>1, <1>7 DEF ConnT
  <2>2. QED
    BY <1>1, <1>2, <1>7, <2>1 DEF ConnT
<1>9. DeliveryT'
  <2>1. queue' \in [Conn -> Seq(Frames)]
    BY <1>1, <1>7 DEF DeliveryT
  <2>2. cleared' \in [Conn -> BOOLEAN]
    BY <1>1, <1>7 DEF DeliveryT
  <2>3. written' \in [Conn -> Seq(Committed)]
    <3>1. \A d \in Conn : written[d] \in Seq(Committed) /\ <<>> \in Seq(Committed)
      BY <1>1 DEF DeliveryT
    <3>2. QED
      BY <1>7, <3>1
  <2>4. QED
    BY <1>2, <2>1, <2>2, <2>3 DEF DeliveryT, Frames, Committed
<1>10. \A c \in Conn : cleared'[c] =>
         queue'[c] # <<>> /\ (queue'[c][1] # Presence => Allowed(c, queue'[c][1]))
  BY <1>1, <1>7 DEF ClearedInv
<1>11. \A c \in Conn : \A j \in 1 .. Len(written'[c]) : Allowed(c, written'[c][j])
  BY <1>1, <1>7 DEF NoPayloadAfterRevocation
<1>12. QED
  BY <1>2, <1>3, <1>4, <1>5, <1>6, <1>8, <1>9, <1>10, <1>11, DeliveryStep DEF database

LEMMA RequestInv ==
    ASSUME FanoutInv, NEW c \in Conn, Request(c) \/ Leave(c) PROVE FanoutInv'
<1>1. /\ ConnT /\ DeliveryT /\ FaultT
  BY Parts
<1>2. UNCHANGED <<database, reader, at, since, subscribed, delivery, faults>>
  BY DEF Request, Leave
<1>3. ConnT'
  <2>1. status' \in [Conn -> {"new", "admitted", "gone", "open", "ending", "closed"}]
    BY <1>1 DEF Request, Leave, ConnT
  <2>2. QED
    BY <1>1, <1>2, <2>1 DEF ConnT
<1>4. \A d \in Conn : SameHead(queue[d], queue'[d])
  BY <1>2 DEF SameHead, delivery
<1>5. queue' \in [Conn -> Seq(Frames)] /\ FaultT'
  BY <1>1, <1>2 DEF DeliveryT, FaultT, delivery
<1>6. QED
  BY <1>2, <1>3, <1>4, <1>5, SameReaders, QueueStep DEF delivery

LEMMA SubscribeInv == ASSUME FanoutInv, NEW c \in Conn, Subscribe(c) PROVE FanoutInv'
<1>1. /\ MemoryT /\ ConnT /\ DeliveryT /\ FaultT
  BY Parts
<1>2. UNCHANGED <<database, reader, at, cleared, written, faults>>
  BY DEF Subscribe, Enter
<1>3. ConnT'
  <2>1. status' \in [Conn -> {"new", "admitted", "gone", "open", "ending", "closed"}]
    BY <1>1 DEF Subscribe, Enter, ConnT
  <2>2. since' \in [Conn -> Nat]
    BY <1>1 DEF Subscribe, Enter, ConnT, MemoryT
  <2>3. QED
    BY <1>1, <1>2, <2>1, <2>2 DEF Subscribe, Enter, ConnT
<1>4. queue' \in [Conn -> Seq(Frames)] /\ \A d \in Conn : SameHead(queue[d], queue'[d])
  BY <1>1, AnnounceEffect DEF Subscribe
<1>5. FaultT'
  BY <1>1, <1>2 DEF FaultT
<1>6. QED
  BY <1>2, <1>3, <1>4, <1>5, SameReaders, QueueStep

(* A member at the last moment is a member at some moment not before e.    *)
LEMMA MemberAllowed ==
    ASSUME DataT, NEW c \in Conn, NEW e \in Committed, IsMember(UserOf[c])
    PROVE  Allowed(c, e)
<1>1. PICK n \in Nat : n = Len(log)
  BY DEF DataT
<1>2. n \in e .. Len(log) /\ MemberAfter(UserOf[c], n)
  BY <1>1 DEF Committed, IsMember
<1>3. QED
  BY <1>2 DEF Allowed

LEMMA CheckInv ==
    ASSUME FanoutInv, NEW c \in Conn, Check(c) \/ CheckFails(c) PROVE FanoutInv'
<1>1. /\ DataT /\ ConnT /\ DeliveryT /\ FaultT /\ ClearedInv /\ NoPayloadAfterRevocation
  BY Parts
<1>2. UNCHANGED <<database, reader, at, since, subscribed>>
  BY DEF Check, CheckFails
<1>3. FaultT'
  BY <1>1, FaultStep DEF Check, CheckFails
<1>4. queue[c] # <<>> /\ queue[c] \in Seq(Frames) /\ Head(queue[c]) = queue[c][1]
  BY <1>1 DEF DeliveryT, Check, CheckFails
<1>5. PICK f \in Frames : f = queue[c][1]
  BY <1>4
<1>6. CASE End(c)
  <2>1. /\ status' = [status EXCEPT ![c] = "ending"]
        /\ queue' = [queue EXCEPT ![c] = <<>>] /\ cleared' = [cleared EXCEPT ![c] = FALSE]
    BY <1>6 DEF End
  <2>2. ConnT'
    BY <1>1, <1>2, <2>1 DEF ConnT
  <2>3. \A d \in Conn : cleared'[d] =>
          queue'[d] # <<>> /\ (queue'[d][1] # Presence => Allowed(d, queue'[d][1]))
    BY <1>1, <2>1 DEF ClearedInv, DeliveryT
  <2>4. CASE written' = written
    <3>1. DeliveryT'
      BY <1>1, <1>2, <2>1, <2>4 DEF DeliveryT, Frames, Committed, database
    <3>2. \A d \in Conn : \A j \in 1 .. Len(written'[d]) : Allowed(d, written'[d][j])
      BY <1>1, <2>4 DEF NoPayloadAfterRevocation
    <3>3. QED
      BY <1>2, <1>3, <2>2, <2>3, <3>1, <3>2, SameReaders, DeliveryStep
  <2>5. CASE OwnRemoval(c, f) /\ written' = [written EXCEPT ![c] = Append(written[c], f)]
    <3>1. f \in Committed /\ Allowed(c, f)
      BY <2>5 DEF OwnRemoval, Frames, Allowed
    <3>2. DeliveryT'
      <4>1. Append(written[c], f) \in Seq(Committed)
        BY <1>1, <3>1 DEF DeliveryT
      <4>2. written' \in [Conn -> Seq(Committed)]
        BY <1>1, <2>5, <4>1 DEF DeliveryT
      <4>3. queue' \in [Conn -> Seq(Frames)] /\ cleared' \in [Conn -> BOOLEAN]
        BY <1>1, <2>1 DEF DeliveryT
      <4>4. QED
        BY <1>2, <4>2, <4>3 DEF DeliveryT, Frames, Committed, database
    <3>3. ASSUME NEW d \in Conn, NEW j \in 1 .. Len(written'[d])
          PROVE  Allowed(d, written'[d][j])
      BY <1>1, <2>5, <3>1, <3>3 DEF DeliveryT, NoPayloadAfterRevocation
    <3>4. QED
      BY <1>2, <1>3, <2>2, <2>3, <3>2, <3>3, SameReaders, DeliveryStep
  <2>6. QED
    BY <1>4, <1>5, <2>4, <2>5 DEF Check, CheckFails
<1>7. CASE /\ ~OwnRemoval(c, f) /\ IsMember(UserOf[c])
           /\ cleared' = [cleared EXCEPT ![c] = TRUE]
           /\ UNCHANGED <<status, queue, written>>
  <2>1. ConnT' /\ DeliveryT'
    BY <1>1, <1>2, <1>7 DEF ConnT, DeliveryT, Frames, Committed, database
  <2>2. f # Presence => Allowed(c, f)
    BY <1>1, <1>7, MemberAllowed DEF Frames
  <2>3. ASSUME NEW d \in Conn, cleared'[d]
        PROVE  queue'[d] # <<>> /\ (queue'[d][1] # Presence => Allowed(d, queue'[d][1]))
    <3>1. CASE d = c
      BY <1>4, <1>5, <1>7, <2>2, <3>1
    <3>2. CASE d # c
      BY <1>1, <1>7, <2>3, <3>2 DEF ClearedInv, DeliveryT
    <3>3. QED
      BY <3>1, <3>2
  <2>4. \A d \in Conn : \A j \in 1 .. Len(written'[d]) : Allowed(d, written'[d][j])
    BY <1>1, <1>7 DEF NoPayloadAfterRevocation
  <2>5. QED
    BY <1>2, <1>3, <2>1, <2>3, <2>4, SameReaders, DeliveryStep
<1>8. QED
  BY <1>4, <1>5, <1>6, <1>7 DEF Check, CheckFails

LEMMA WriteInv == ASSUME FanoutInv, NEW c \in Conn, Write(c) PROVE FanoutInv'
<1>1. /\ DataT /\ ConnT /\ DeliveryT /\ FaultT /\ ClearedInv /\ NoPayloadAfterRevocation
  BY Parts
<1>2. UNCHANGED <<database, reader, status, at, since, subscribed, faults>>
  BY DEF Write, connection
<1>3. queue[c] # <<>> /\ queue[c] \in Seq(Frames) /\ Head(queue[c]) = queue[c][1]
  BY <1>1 DEF DeliveryT, ClearedInv, Write
<1>4. PICK f \in Frames : f = queue[c][1] /\ (f # Presence => Allowed(c, f))
  BY <1>1, <1>3 DEF ClearedInv, Write
<1>5. /\ queue' = [queue EXCEPT ![c] = Tail(queue[c])]
      /\ cleared' = [cleared EXCEPT ![c] = FALSE]
      /\ written' = [written EXCEPT ![c] =
            IF f = Presence THEN written[c] ELSE Append(written[c], f)]
  BY <1>3, <1>4 DEF Write
<1>6. ConnT' /\ FaultT'
  BY <1>1, <1>2 DEF ConnT, FaultT
<1>7. DeliveryT'
  <2>1. Tail(queue[c]) \in Seq(Frames)
    BY <1>3
  <2>2. written[c] \in Seq(Committed) /\ (f # Presence => Append(written[c], f) \in Seq(Committed))
    BY <1>1 DEF DeliveryT, Frames
  <2>3. written' \in [Conn -> Seq(Committed)]
    BY <1>1, <1>5, <2>2 DEF DeliveryT
  <2>4. queue' \in [Conn -> Seq(Frames)] /\ cleared' \in [Conn -> BOOLEAN]
    BY <1>1, <1>5, <2>1 DEF DeliveryT
  <2>5. QED
    BY <1>2, <2>3, <2>4 DEF DeliveryT, Frames, Committed, database
<1>8. \A d \in Conn : cleared'[d] =>
        queue'[d] # <<>> /\ (queue'[d][1] # Presence => Allowed(d, queue'[d][1]))
  BY <1>1, <1>5 DEF ClearedInv, DeliveryT
<1>9. ASSUME NEW d \in Conn, NEW j \in 1 .. Len(written'[d])
      PROVE  Allowed(d, written'[d][j])
  <2>1. CASE d = c /\ f # Presence
    BY <1>1, <1>4, <1>5, <1>9, <2>1 DEF DeliveryT, NoPayloadAfterRevocation
  <2>2. CASE d # c \/ f = Presence
    BY <1>1, <1>5, <1>9, <2>2 DEF DeliveryT, NoPayloadAfterRevocation
  <2>3. QED
    BY <2>1, <2>2
<1>10. QED
  BY <1>2, <1>6, <1>7, <1>8, <1>9, SameReaders, DeliveryStep

LEMMA DisconnectInv == ASSUME FanoutInv, NEW c \in Conn, Disconnect(c) PROVE FanoutInv'
<1>1. /\ DataT /\ ConnT /\ DeliveryT /\ FaultT /\ ClearedInv /\ NoPayloadAfterRevocation
  BY Parts
<1>2. UNCHANGED <<database, reader, at, since, faults>>
  BY DEF Disconnect
<1> DEFINE A == Announce(Live(at[c]) \ {c})
<1>3. A \in [Conn -> Seq(Frames)] /\ \A d \in Conn : SameHead(queue[d], A[d])
  BY <1>1, AnnounceEffect
<1>4. /\ status' = [status EXCEPT ![c] = "closed"] /\ subscribed' = subscribed \ {c}
      /\ queue' = [A EXCEPT ![c] = <<>>]
      /\ cleared' = [cleared EXCEPT ![c] = FALSE]
      /\ written' = [written EXCEPT ![c] = <<>>]
  BY DEF Disconnect
<1> HIDE DEF A
<1>5. ConnT' /\ FaultT'
  BY <1>1, <1>2, <1>4 DEF ConnT, FaultT
<1>6. DeliveryT'
  <2>1. /\ queue' \in [Conn -> Seq(Frames)] /\ cleared' \in [Conn -> BOOLEAN]
        /\ written' \in [Conn -> Seq(Committed)]
    BY <1>1, <1>3, <1>4 DEF DeliveryT
  <2>2. QED
    BY <1>2, <2>1 DEF DeliveryT, Frames, Committed, database
<1>7. ASSUME NEW d \in Conn, cleared'[d]
      PROVE  queue'[d] # <<>> /\ (queue'[d][1] # Presence => Allowed(d, queue'[d][1]))
  <2>1. d # c /\ cleared[d] /\ queue'[d] = A[d]
    BY <1>1, <1>3, <1>4, <1>7 DEF DeliveryT
  <2>2. QED
    BY <1>1, <1>3, <2>1 DEF ClearedInv, SameHead
<1>8. \A d \in Conn : \A j \in 1 .. Len(written'[d]) : Allowed(d, written'[d][j])
  BY <1>1, <1>4 DEF NoPayloadAfterRevocation, DeliveryT
<1>9. QED
  BY <1>2, <1>5, <1>6, <1>7, <1>8, SameReaders, DeliveryStep

-----------------------------------------------------------------------------
LEMMA NextInv == FanoutInv /\ Next => FanoutInv'
<1> SUFFICES ASSUME FanoutInv, Next PROVE FanoutInv'
  OBVIOUS
<1>1. CASE Save
  BY <1>1, CommitInv DEF Save, Entry
<1>2. CASE \E u \in User : Change(u)
  <2>1. PICK u \in User : Change(u)
    BY <1>2
  <2>2. [change |-> IF IsMember(u) THEN "removed" ELSE "added", user |-> u] \in Entry
    BY DEF Entry
  <2>3. QED
    BY <2>1, <2>2, CommitInv DEF Change
<1>3. CASE Publish
  BY <1>3, PublishInv
<1>4. ASSUME NEW i \in Instance, Reader(i) \/ Broken(i) PROVE FanoutInv'
  BY <1>4, ReadInv, ConsumeInv, RestartInv DEF Reader, Broken
<1>5. ASSUME NEW c \in Conn, Deliver(c) PROVE FanoutInv'
  BY <1>5, SubscribeInv, CheckInv, WriteInv, DisconnectInv DEF Deliver, Close
<1>6. ASSUME NEW c \in Conn, Client(c) PROVE FanoutInv'
  BY <1>6, RequestInv, CheckInv, DisconnectInv DEF Client, HangUp
<1>7. QED
  BY <1>1, <1>2, <1>3, <1>4, <1>5, <1>6 DEF Next

LEMMA StutterInv == FanoutInv /\ UNCHANGED vars => FanoutInv'
<1> SUFFICES ASSUME FanoutInv, UNCHANGED vars PROVE FanoutInv'
  OBVIOUS
<1>1. stream' \in Seq(Committed) /\ ReaderT' /\ FaultT'
  BY Parts DEF DataT, ReaderT, FaultT, vars, database, reader
<1>2. UNCHANGED <<log, seen, dispatched, connection, subscribed, delivery>>
  BY DEF vars, database, reader
<1>3. QED
  BY <1>1, <1>2, ReaderStep

LEMMA InvHolds == Spec => []FanoutInv
<1>1. FanoutInv /\ [Next]_vars => FanoutInv'
  BY NextInv, StutterInv
<1>2. QED
  BY InitInv, <1>1, PTL DEF Spec

(* Every variable keeps its type: no position of a reader leaves the       *)
(* stream, and no memory of event ids outgrows its limit.                  *)
THEOREM TypeCorrect == Spec => []TypeOK
<1>1. FanoutInv => TypeOK
  BY DEF FanoutInv
<1>2. QED
  BY InvHolds, <1>1, PTL

(* A client whose user was removed is written nothing that was committed   *)
(* later, but the removal itself, whatever is duplicated, reordered,       *)
(* failing or restarted (the check before every write of the SSE handler). *)
THEOREM NothingAfterRevocation == Spec => []NoPayloadAfterRevocation
<1>1. FanoutInv => NoPayloadAfterRevocation
  BY DEF FanoutInv
<1>2. QED
  BY InvHolds, <1>1, PTL

(* Between two deliveries of one event to a hub there are at least         *)
(* SeenLimit other events (BoundedSet of the shared delivery).             *)
THEOREM DuplicatesAreOld == Spec => []DuplicatesNeedEviction
<1>1. FanoutInv => DuplicatesNeedEviction
  BY DEF FanoutInv
<1>2. QED
  BY InvHolds, <1>1, PTL

-----------------------------------------------------------------------------
(* Counting the events of a line.                                          *)

LEMMA EventsFacts ==
    ASSUME NEW line, NEW n \in Nat
    PROVE  /\ EventsIn(line, n) \in Nat /\ EventsIn(line, 0) = 0
           /\ EventsIn(line, n + 1) = EventsIn(line, n) + IF line[n + 1] # Presence THEN 1 ELSE 0
<1> DEFINE E(m) == {j \in 1 .. m : line[j] # Presence}
<1>1. IsFiniteSet(1 .. n)
  BY FS_Interval
<1>2. IsFiniteSet(E(n)) /\ Cardinality(E(n)) \in Nat
  <2>1. E(n) \in SUBSET (1 .. n)
    OBVIOUS
  <2> HIDE DEF E
  <2> QED BY <1>1, <2>1, FS_Subset, FS_CardinalityType
<1>3. E(0) = {}
  OBVIOUS
<1>4. E(n + 1) = IF line[n + 1] # Presence THEN E(n) \cup {n + 1} ELSE E(n)
  OBVIOUS
<1>5. n + 1 \notin E(n)
  OBVIOUS
<1>6. EventsIn(line, n) = Cardinality(E(n)) /\ EventsIn(line, n + 1) = Cardinality(E(n + 1))
      /\ EventsIn(line, 0) = Cardinality(E(0))
  BY DEF EventsIn
<1> HIDE DEF E
<1>7. Cardinality(E(n) \cup {n + 1}) = Cardinality(E(n)) + 1
  BY <1>2, <1>5, FS_AddElement
<1>8. Cardinality(E(0)) = 0
  BY <1>3, FS_EmptySet
<1>9. CASE line[n + 1] # Presence
  BY <1>2, <1>4, <1>6, <1>7, <1>8, <1>9
<1>10. CASE line[n + 1] = Presence
  <2>1. Cardinality(E(n + 1)) = Cardinality(E(n))
    BY <1>4, <1>10
  <2> QED BY <1>2, <1>6, <1>8, <1>10, <2>1
<1> QED BY <1>9, <1>10

LEMMA EventsAgree ==
    ASSUME NEW p, NEW q, NEW n \in Nat, \A j \in 1 .. n : p[j] = q[j]
    PROVE  EventsIn(p, n) = EventsIn(q, n)
<1>1. {j \in 1 .. n : p[j] # Presence} = {j \in 1 .. n : q[j] # Presence}
  OBVIOUS
<1> QED BY <1>1 DEF EventsIn

(* A line and the line without its first frame.                            *)
LEMMA EventsShift ==
    ASSUME NEW p, NEW q, NEW n \in Nat, \A j \in 1 .. n : q[j] = p[j + 1]
    PROVE  EventsIn(p, n + 1) = EventsIn(q, n) + IF p[1] # Presence THEN 1 ELSE 0
<1>1. PICK E, F, X : /\ E = {j \in 1 .. n : q[j] # Presence}
                     /\ F = {j \in 2 .. n + 1 : p[j] # Presence}
                     /\ X = {j \in 1 .. n + 1 : p[j] # Presence}
  OBVIOUS
<1>2. PICK f : f = [j \in E |-> j + 1]
  OBVIOUS
<1>3. f \in Bijection(E, F)
  <2>1. f \in [E -> F] /\ \A j \in E : f[j] = j + 1
    BY <1>1, <1>2
  <2>2. \A j, k \in E : f[j] = f[k] => j = k
    BY <1>1, <2>1
  <2>3. ASSUME NEW m \in F PROVE \E j \in E : f[j] = m
    <3>1. m - 1 \in E /\ f[m - 1] = m
      <4>1. m \in 2 .. n + 1 /\ m - 1 \in 1 .. n /\ m = (m - 1) + 1
        BY <1>1
      <4>2. m - 1 \in E
        BY <1>1, <4>1
      <4> QED BY <2>1, <4>1, <4>2
    <3> QED BY <3>1
  <2> QED BY <2>1, <2>2, <2>3 DEF Bijection, Injection, IsInjective, Surjection
<1>4. IsFiniteSet(E)
  <2>1. E \in SUBSET (1 .. n)
    BY <1>1
  <2>2. IsFiniteSet(1 .. n)
    BY FS_Interval
  <2> QED BY <2>1, <2>2, FS_Subset
<1>5. IsFiniteSet(F) /\ Cardinality(F) = Cardinality(E)
  <2>1. ExistsBijection(E, F)
    BY <1>3 DEF ExistsBijection
  <2> QED BY <1>4, <2>1, FS_Bijection
<1>6. X = IF p[1] # Presence THEN F \cup {1} ELSE F
  BY <1>1
<1>7. 1 \notin F
  BY <1>1
<1>8. Cardinality(F \cup {1}) = Cardinality(F) + 1
  BY <1>5, <1>7, FS_AddElement
<1>9. Cardinality(E) \in Nat
  BY <1>4, FS_CardinalityType
<1>10. EventsIn(p, n + 1) = Cardinality(X) /\ EventsIn(q, n) = Cardinality(E)
  BY <1>1 DEF EventsIn
<1> QED BY <1>5, <1>6, <1>8, <1>9, <1>10

-----------------------------------------------------------------------------
(* What the steps of a line keep.                                          *)

LEMMA FollowsPresence ==
    ASSUME NEW first \in Nat, NEW sent \in Seq(Nat), NEW line \in Seq(Nat), NEW told \in Seq(Nat),
           Follows(first, sent, line, told)
    PROVE  Follows(first, sent, Append(line, Presence), told)
<1>1. PICK n \in Nat : n = Len(line)
  OBVIOUS
<1>2. PICK new : new = Append(line, Presence)
  OBVIOUS
<1>3. /\ Len(new) = n + 1 /\ DOMAIN new = 1 .. n + 1 /\ DOMAIN line = 1 .. n
      /\ new[n + 1] = Presence /\ \A j \in 1 .. n : new[j] = line[j]
  BY <1>1, <1>2 DEF Presence
<1>4. ASSUME NEW j \in 0 .. n PROVE EventsIn(new, j) = EventsIn(line, j)
  <2>1. j \in Nat /\ \A k \in 1 .. j : new[k] = line[k]
    BY <1>3
  <2> QED BY <2>1, EventsAgree
<1>5. EventsIn(new, n + 1) = EventsIn(new, n) /\ EventsIn(new, n) = EventsIn(line, n)
  <2>1. EventsIn(new, n + 1) = EventsIn(new, n) + 0 /\ EventsIn(new, n) \in Nat
    BY <1>3, EventsFacts
  <2> QED BY <1>4, <2>1
<1>6. first + Len(sent) + EventsIn(new, Len(new)) = Len(told)
  BY <1>1, <1>3, <1>5 DEF Follows
<1>7. ASSUME NEW j \in DOMAIN new, new[j] # Presence
      PROVE  new[j] = told[first + Len(sent) + EventsIn(new, j)]
  <2>1. j \in 1 .. n
    BY <1>3, <1>7
  <2>2. EventsIn(new, j) = EventsIn(line, j)
    BY <1>4, <2>1
  <2> QED BY <1>3, <1>7, <2>1, <2>2 DEF Follows
<1>8. Follows(first, sent, new, told)
  BY <1>6, <1>7 DEF Follows
<1> QED BY <1>2, <1>8

LEMMA FramesJoin ==
    ASSUME NEW line \in Seq(Nat), NEW e \in Nat, NEW f \in Nat
    PROVE  line \o <<e>> = Append(line, e) /\ line \o <<e, f>> = Append(Append(line, e), f)
OBVIOUS

LEMMA FollowsEvent ==
    ASSUME NEW first \in Nat, NEW sent \in Seq(Nat), NEW line \in Seq(Nat), NEW told \in Seq(Nat),
           Follows(first, sent, line, told), NEW e \in Nat, e # Presence
    PROVE  Follows(first, sent, Append(line, e), Append(told, e))
<1>1. PICK n \in Nat, m \in Nat, l \in Nat : n = Len(line) /\ m = Len(told) /\ l = Len(sent)
  OBVIOUS
<1>2. PICK new, all : new = Append(line, e) /\ all = Append(told, e)
  OBVIOUS
<1>3. /\ Len(new) = n + 1 /\ DOMAIN new = 1 .. n + 1 /\ DOMAIN line = 1 .. n
      /\ new[n + 1] = e /\ \A j \in 1 .. n : new[j] = line[j]
      /\ Len(all) = m + 1 /\ all[m + 1] = e /\ \A j \in 1 .. m : all[j] = told[j]
      /\ DOMAIN sent = 1 .. l
  <2>1. /\ Len(new) = n + 1 /\ DOMAIN new = 1 .. n + 1 /\ DOMAIN line = 1 .. n
        /\ new[n + 1] = e /\ \A j \in 1 .. n : new[j] = line[j]
    BY <1>1, <1>2, AppendProperties
  <2>2. Len(all) = m + 1 /\ all[m + 1] = e /\ \A j \in 1 .. m : all[j] = told[j]
    BY <1>1, <1>2, AppendProperties
  <2>3. DOMAIN sent = 1 .. l
    BY <1>1
  <2> QED BY ONLY <2>1, <2>2, <2>3
<1>4. /\ \A j \in 0 .. n : EventsIn(new, j) = EventsIn(line, j)
      /\ EventsIn(new, n) \in Nat /\ EventsIn(new, n) = EventsIn(line, n)
      /\ EventsIn(new, n + 1) = EventsIn(new, n) + 1
  <2>1. ASSUME NEW j \in 0 .. n PROVE EventsIn(new, j) = EventsIn(line, j)
    <3>1. j \in Nat /\ \A k \in 1 .. j : new[k] = line[k]
      BY <1>3
    <3> QED BY <3>1, EventsAgree
  <2>2. /\ EventsIn(new, n) \in Nat
        /\ EventsIn(new, n + 1) = EventsIn(new, n) + IF new[n + 1] # Presence THEN 1 ELSE 0
    BY EventsFacts
  <2>3. n \in 0 .. n
    OBVIOUS
  <2> QED BY <1>3, <2>1, <2>2, <2>3
<1>5. first + l + EventsIn(line, n) = m
  BY <1>1 DEF Follows
<1>6. first + l + EventsIn(new, n + 1) = m + 1
  BY <1>4, <1>5
<1>7. ASSUME NEW j \in DOMAIN sent PROVE sent[j] = all[first + j]
  <2>1. sent[j] = told[first + j]
    BY DEF Follows
  <2>2. first + j \in 1 .. m
    <3>1. j \in Nat /\ 1 <= j /\ j <= l
      BY <1>3, <1>7
    <3>2. PICK k \in Nat : k = EventsIn(line, n)
      BY <1>4
    <3>3. first + l + k = m
      BY <1>5, <3>2
    <3> QED BY ONLY <3>1, <3>3, first \in Nat, l \in Nat, m \in Nat, k \in Nat
  <2> QED BY <1>3, <2>1, <2>2
<1>8. ASSUME NEW j \in DOMAIN new, new[j] # Presence
      PROVE  new[j] = all[first + l + EventsIn(new, j)]
  <2>1. CASE j = n + 1
    BY <1>3, <1>6, <2>1
  <2> j \in 1 .. n + 1
    BY <1>3
  <2>2. CASE j \in 1 .. n
    <3>1. line[j] = told[first + l + EventsIn(line, j)] /\ EventsIn(new, j) = EventsIn(line, j)
      BY <1>1, <1>3, <1>4, <1>8, <2>2 DEF Follows
    <3>2. EventsIn(line, j) \in 1 .. EventsIn(line, n)
      <4>1. PICK i \in Nat : j = i + 1
        <5>1. j - 1 \in Nat /\ j = (j - 1) + 1
          BY <2>2
        <5> QED BY <5>1
      <4>2. EventsIn(line, i) \in Nat /\ EventsIn(line, j) = EventsIn(line, i) + 1
        BY <1>3, <1>8, <2>2, <4>1, EventsFacts
      <4>3. {k \in 1 .. j : line[k] # Presence} \subseteq {k \in 1 .. n : line[k] # Presence}
        BY <2>2
      <4>4. IsFiniteSet({k \in 1 .. n : line[k] # Presence})
        <5>1. {k \in 1 .. n : line[k] # Presence} \in SUBSET (1 .. n)
          OBVIOUS
        <5>2. IsFiniteSet(1 .. n)
          BY FS_Interval
        <5> QED BY <5>1, <5>2, FS_Subset
      <4>5. EventsIn(line, j) <= EventsIn(line, n)
        BY <4>3, <4>4, FS_Subset DEF EventsIn
      <4> QED BY <1>4, <4>2, <4>5
    <3>3. first + l + EventsIn(line, j) \in 1 .. m
      BY <1>4, <1>5, <3>2
    <3> QED BY <1>3, <2>2, <3>1, <3>3
  <2>3. j = n + 1 \/ j \in 1 .. n
    OBVIOUS
  <2> QED BY <2>1, <2>2, <2>3
<1>9. Follows(first, sent, new, all)
  BY <1>1, <1>3, <1>6, <1>7, <1>8 DEF Follows
<1> QED BY <1>2, <1>9

LEMMA FollowsWrite ==
    ASSUME NEW first \in Nat, NEW sent \in Seq(Nat), NEW line \in Seq(Nat), NEW told \in Seq(Nat),
           Follows(first, sent, line, told), line # <<>>
    PROVE  Follows(first, IF Head(line) = Presence THEN sent ELSE Append(sent, Head(line)),
                   Tail(line), told)
<1>1. PICK n \in Nat, l \in Nat : n + 1 = Len(line) /\ l = Len(sent)
  <2>1. Len(line) \in Nat /\ Len(line) # 0
    BY EmptySeq
  <2> Len(line) - 1 \in Nat
    BY <2>1
  <2>2. PICK n \in Nat : n = Len(line) - 1
    OBVIOUS
  <2>3. n + 1 = Len(line) /\ Len(sent) \in Nat
    BY <2>1, <2>2
  <2> QED BY <2>3
<1>2. PICK new, all : /\ new = Tail(line)
                      /\ all = IF Head(line) = Presence THEN sent ELSE Append(sent, Head(line))
  OBVIOUS
<1>3. /\ Len(new) = n /\ DOMAIN new = 1 .. n /\ DOMAIN line = 1 .. n + 1
      /\ \A j \in 1 .. n : new[j] = line[j + 1]
      /\ Head(line) = line[1] /\ line[1] \in Nat
  BY <1>1, <1>2, HeadTailProperties
<1>4. PICK b \in {0, 1} : b = IF line[1] # Presence THEN 1 ELSE 0
  OBVIOUS
<1>5. /\ Len(all) = l + b /\ DOMAIN all = 1 .. l + b /\ DOMAIN sent = 1 .. l
      /\ \A j \in 1 .. l : all[j] = sent[j]
      /\ b = 1 => all[l + 1] = line[1]
  BY <1>1, <1>2, <1>3, <1>4
<1>6. \A j \in 0 .. n : EventsIn(line, j + 1) = EventsIn(new, j) + b /\ EventsIn(new, j) \in Nat
  <2> SUFFICES ASSUME NEW j \in 0 .. n
               PROVE  EventsIn(line, j + 1) = EventsIn(new, j) + b /\ EventsIn(new, j) \in Nat
    OBVIOUS
  <2>1. j \in Nat /\ \A k \in 1 .. j : new[k] = line[k + 1]
    BY <1>3
  <2>2. EventsIn(line, j + 1) = EventsIn(new, j) + IF line[1] # Presence THEN 1 ELSE 0
    BY <2>1, EventsShift
  <2>3. EventsIn(new, j) \in Nat
    BY <2>1, EventsFacts
  <2> QED BY <1>4, <2>2, <2>3
<1>7. first + (l + b) + EventsIn(new, n) = Len(told)
  <2>1. first + l + EventsIn(line, n + 1) = Len(told)
    BY <1>1 DEF Follows
  <2>2. EventsIn(line, n + 1) = EventsIn(new, n) + b /\ EventsIn(new, n) \in Nat
    BY <1>6
  <2> QED BY <1>1, <2>1, <2>2
<1>8. ASSUME NEW j \in DOMAIN all PROVE all[j] = told[first + j]
  <2>1. CASE j \in 1 .. l
    BY <1>5, <2>1 DEF Follows
  <2>2. CASE b = 1 /\ j = l + 1
    <3>1. EventsIn(line, 1) = 1
      <4>1. PICK z \in Nat : z = 0
        OBVIOUS
      <4>2. /\ EventsIn(line, 0) = 0
            /\ EventsIn(line, z + 1) = EventsIn(line, z) + IF line[z + 1] # Presence THEN 1 ELSE 0
        BY EventsFacts
      <4>3. z + 1 = 1 /\ line[z + 1] # Presence
        BY <1>4, <2>2, <4>1
      <4> QED BY <4>1, <4>2, <4>3
    <3>2. line[1] = told[first + l + EventsIn(line, 1)]
      <4>1. 1 \in DOMAIN line /\ line[1] # Presence
        BY <1>3, <1>4, <2>2
      <4> QED BY <1>1, <4>1 DEF Follows
    <3>3. first + l + EventsIn(line, 1) = first + j
      BY <2>2, <3>1
    <3> QED BY <1>5, <2>2, <3>2, <3>3
  <2> QED BY <1>5, <2>1, <2>2
<1>9. ASSUME NEW j \in DOMAIN new, new[j] # Presence
      PROVE  new[j] = told[first + (l + b) + EventsIn(new, j)]
  <2>1. new[j] = line[j + 1] /\ j + 1 \in DOMAIN line /\ j \in 0 .. n
    BY <1>3
  <2>2. line[j + 1] = told[first + l + EventsIn(line, j + 1)]
    BY <1>1, <1>9, <2>1 DEF Follows
  <2>3. EventsIn(line, j + 1) = EventsIn(new, j) + b /\ EventsIn(new, j) \in Nat
    BY <1>6, <2>1
  <2>4. first + l + EventsIn(line, j + 1) = first + (l + b) + EventsIn(new, j)
    BY <2>3
  <2> QED BY <2>1, <2>2, <2>4
<1>10. Follows(first, all, new, told)
  BY <1>3, <1>5, <1>7, <1>8, <1>9 DEF Follows
<1> QED BY <1>2, <1>10

LEMMA FollowsFirst ==
    ASSUME NEW told \in Seq(Nat)
    PROVE  Follows(Len(told), <<>>, <<>>, told)
<1>1. EventsIn(<<>>, 0) = 0
  BY EventsFacts
<1> QED BY <1>1 DEF Follows
-----------------------------------------------------------------------------
(* What the steps do to the line of a connection.                          *)

LineOf(c) ==
    /\ c \in subscribed /\ status[c] = "open" => FollowsDispatch(c)
    /\ status[c] \in {"new", "admitted", "gone"} => written[c] = <<>> /\ queue[c] = <<>>
    /\ c \in subscribed => status[c] \notin {"new", "admitted"}

LEMMA LineTypes ==
    ASSUME FanoutInv
    PROVE  /\ queue \in [Conn -> Seq(Nat)] /\ written \in [Conn -> Seq(Nat)]
           /\ dispatched \in [Instance -> Seq(Nat)] /\ since \in [Conn -> Nat]
           /\ status \in [Conn -> {"new", "admitted", "gone", "open", "ending", "closed"}]
           /\ at \in [Conn -> Instance]
<1>1. MemoryT /\ ConnT /\ DeliveryT /\ DataT
  BY Parts
<1>2. Committed \subseteq Nat /\ Frames \subseteq Nat
  BY <1>1 DEF Committed, Frames, Presence, DataT
<1>3. (\A s \in Seq(Committed) : s \in Seq(Nat)) /\ (\A s \in Seq(Frames) : s \in Seq(Nat))
  <2> SUFFICES ASSUME NEW S, \A x \in S : x \in Nat, NEW s \in Seq(S) PROVE s \in Seq(Nat)
    BY <1>2
  <2> QED OBVIOUS
<1>4. queue \in [Conn -> Seq(Frames)] /\ written \in [Conn -> Seq(Committed)]
      /\ dispatched \in [Instance -> Seq(Committed)]
  BY <1>1 DEF DeliveryT, MemoryT
<1>5. queue \in [Conn -> Seq(Nat)] /\ written \in [Conn -> Seq(Nat)]
      /\ dispatched \in [Instance -> Seq(Nat)]
  BY <1>3, <1>4
<1> QED BY <1>1, <1>5 DEF ConnT

(* A connection whose own line the step leaves alone.                      *)
LEMMA LineApart ==
    ASSUME LineInv, NEW c \in Conn, at' = at,
           dispatched'[at[c]] = dispatched[at[c]], since'[c] = since[c],
           written'[c] = written[c], queue'[c] = queue[c], status'[c] = status[c],
           c \in subscribed' => c \in subscribed
    PROVE  LineOf(c)'
BY DEF LineInv, LineOf, FollowsDispatch

LEMMA LineStays ==
    ASSUME LineInv, UNCHANGED <<dispatched, connection, subscribed, queue, written>>
    PROVE  LineInv'
BY DEF LineInv, connection, FollowsDispatch

(* A connection that is neither open nor waiting.                          *)
LEMMA LineEnded ==
    ASSUME NEW c \in Conn, status'[c] \in {"ending", "closed"}
    PROVE  LineOf(c)'
BY DEF LineOf

(* Presence goes to some connections, which are open and subscribed.       *)
LEMMA LineAnnounced ==
    ASSUME FanoutInv, LineInv, NEW c \in Conn, at' = at, dispatched' = dispatched,
           since'[c] = since[c], written'[c] = written[c], status'[c] = status[c],
           c \in subscribed' => c \in subscribed, NEW S \in SUBSET Live(at[c]),
           queue'[c] = IF c \in S THEN Append(queue[c], Presence) ELSE queue[c]
    PROVE  LineOf(c)'
<1>1. CASE c \notin S
  BY <1>1, LineApart
<1>2. CASE c \in S
  <2>1. c \in subscribed /\ status[c] = "open" /\ FollowsDispatch(c)
    BY <1>2 DEF Live, Served, LineInv
  <2>2. /\ since[c] \in Nat /\ written[c] \in Seq(Nat) /\ queue[c] \in Seq(Nat)
        /\ dispatched[at[c]] \in Seq(Nat)
    BY LineTypes
  <2>3. Follows(since[c], written[c], Append(queue[c], Presence), dispatched[at[c]])
    BY <2>1, <2>2, FollowsPresence DEF FollowsDispatch
  <2>4. FollowsDispatch(c)'
    BY <1>2, <2>3 DEF FollowsDispatch
  <2> QED BY <2>1, <2>4 DEF LineOf
<1> QED BY <1>1, <1>2

LEMMA ConsumeLine == ASSUME FanoutInv, LineInv, NEW i \in Instance, Consume(i) PROVE LineInv'
<1>1. DataT /\ ReaderT
  BY Parts
<1>2. PICK p \in Nat : p = Position(i) /\ p < Len(stream)
  BY <1>1 DEF Consume, ReaderT, Position
<1>3. PICK e \in Nat : e = stream[p + 1] /\ e # Presence
  <2>1. p + 1 \in 1 .. Len(stream)
    BY <1>1, <1>2 DEF DataT
  <2>2. stream[p + 1] \in Committed
    BY <1>1, <2>1 DEF DataT
  <2> QED BY <1>1, <2>2 DEF Committed, Presence, DataT
<1>4. UNCHANGED connection /\ UNCHANGED written
  BY DEF Consume
<1>5. CASE e \in Range(seen[i])
  <2>1. UNCHANGED <<dispatched, queue, subscribed>>
    BY <1>2, <1>3, <1>5 DEF Consume
  <2> QED BY <1>4, <2>1, LineStays
<1>6. CASE e \notin Range(seen[i])
  <2>1. dispatched' = [dispatched EXCEPT ![i] = Append(dispatched[i], e)] /\ Receive(i, e)
    BY <1>2, <1>3, <1>6 DEF Consume
  <2>2. ASSUME NEW c \in Conn PROVE LineOf(c)'
    <3>1. /\ since[c] \in Nat /\ written[c] \in Seq(Nat) /\ queue[c] \in Seq(Nat)
          /\ dispatched[i] \in Seq(Nat) /\ dispatched \in [Instance -> Seq(Nat)]
          /\ at[c] \in Instance
      BY LineTypes
    <3>2. /\ at' = at /\ since'[c] = since[c] /\ written'[c] = written[c]
          /\ status'[c] = status[c] /\ (c \in subscribed' => c \in subscribed)
      BY <1>4, <2>1 DEF connection, Receive
    <3>3. queue'[c] = IF c \in Live(i) THEN queue[c] \o FramesFor(c, i, e) ELSE queue[c]
      BY <2>1 DEF Receive
    <3>4. CASE at[c] # i
      <4>1. c \notin Live(i) /\ dispatched'[at[c]] = dispatched[at[c]]
        BY <2>1, <3>1, <3>4 DEF Live, Served
      <4> QED BY <3>2, <3>3, <4>1, LineApart
    <3>5. CASE at[c] = i /\ c \notin Live(i)
      <4>1. ~(c \in subscribed /\ status[c] = "open")
        BY <3>5 DEF Live, Served
      <4> QED BY <3>2, <3>3, <3>5, <4>1 DEF LineOf, LineInv
    <3>6. CASE at[c] = i /\ c \in Live(i)
      <4>1. c \in subscribed /\ status[c] = "open" /\ FollowsDispatch(c)
        BY <3>6 DEF Live, Served, LineInv
      <4>2. dispatched'[i] = Append(dispatched[i], e)
        BY <2>1, <3>1
      <4>3. Follows(since[c], written[c], Append(queue[c], e), Append(dispatched[i], e))
        BY <1>3, <3>1, <3>6, <4>1, FollowsEvent DEF FollowsDispatch
      <4>4. Follows(since[c], written[c], Append(Append(queue[c], e), Presence),
                    Append(dispatched[i], e))
        <5>1. Append(queue[c], e) \in Seq(Nat) /\ Append(dispatched[i], e) \in Seq(Nat)
          BY <3>1
        <5> QED BY <3>1, <4>3, <5>1, FollowsPresence
      <4>5. queue'[c] = Append(queue[c], e) \/ queue'[c] = Append(Append(queue[c], e), Presence)
        <5>1. /\ queue[c] \o <<e>> = Append(queue[c], e)
              /\ queue[c] \o <<e, Presence>> = Append(Append(queue[c], e), Presence)
          BY <3>1, FramesJoin DEF Presence
        <5>3. FramesFor(c, i, e) \in {<<e>>, <<e, Presence>>}
          BY DEF FramesFor
        <5> QED BY <3>3, <3>6, <5>1, <5>3
      <4>6. FollowsDispatch(c)'
        <5>1. Follows(since[c], written[c], queue'[c], dispatched'[i])
          BY <4>2, <4>3, <4>4, <4>5
        <5> QED BY <3>2, <3>6, <5>1 DEF FollowsDispatch
      <4> QED BY <3>2, <4>1, <4>6 DEF LineOf
    <3> QED BY <3>4, <3>5, <3>6
  <2> QED BY <2>2 DEF LineInv, LineOf
<1> QED BY <1>5, <1>6

LEMMA RestartLine == ASSUME FanoutInv, LineInv, NEW i \in Instance, Restart(i) PROVE LineInv'
<1>1. ASSUME NEW c \in Conn PROVE LineOf(c)'
  <2>1. /\ dispatched \in [Instance -> Seq(Nat)] /\ at[c] \in Instance
        /\ status \in [Conn -> {"new", "admitted", "gone", "open", "ending", "closed"}]
    BY LineTypes
  <2>2. at' = at /\ since'[c] = since[c]
    BY DEF Restart
  <2>3. CASE at[c] = i /\ status[c] # "new"
    <3>1. status'[c] = "closed"
      BY <2>3 DEF Restart
    <3> QED BY <3>1, LineEnded
  <2>4. CASE ~(at[c] = i /\ status[c] # "new")
    <3>1. /\ status'[c] = status[c] /\ written'[c] = written[c] /\ queue'[c] = queue[c]
          /\ (c \in subscribed' => c \in subscribed)
      BY <2>4 DEF Restart
    <3>2. CASE at[c] # i
      <4>1. dispatched'[at[c]] = dispatched[at[c]]
        BY <2>1, <3>2 DEF Restart
      <4> QED BY <2>2, <3>1, <4>1, LineApart
    <3>3. CASE status[c] = "new"
      BY <3>1, <3>3 DEF LineInv, LineOf
    <3> QED BY <2>4, <3>2, <3>3
  <2> QED BY <2>3, <2>4
<1> QED BY <1>1 DEF LineInv, LineOf

LEMMA RequestLine ==
    ASSUME FanoutInv, LineInv, NEW c \in Conn, Request(c) \/ Leave(c) PROVE LineInv'
<1>1. status \in [Conn -> {"new", "admitted", "gone", "open", "ending", "closed"}]
  BY LineTypes
<1>2. UNCHANGED <<dispatched, at, since, subscribed, queue, written>>
  BY DEF Request, Leave, reader, delivery
<1>3. /\ status[c] \in {"new", "admitted"} /\ status'[c] \in {"admitted", "gone", "closed"}
      /\ \A d \in Conn : d # c => status'[d] = status[d]
  BY <1>1 DEF Request, Leave
<1>4. LineOf(c)'
  <2>1. c \notin subscribed /\ written[c] = <<>> /\ queue[c] = <<>>
    BY <1>3 DEF LineInv
  <2> QED BY <1>2, <2>1 DEF LineOf
<1>5. ASSUME NEW d \in Conn, d # c PROVE LineOf(d)'
  BY <1>2, <1>3, <1>5, LineApart
<1> QED BY <1>4, <1>5 DEF LineInv, LineOf

LEMMA SubscribeLine == ASSUME FanoutInv, LineInv, NEW c \in Conn, Subscribe(c) PROVE LineInv'
<1>1. /\ status \in [Conn -> {"new", "admitted", "gone", "open", "ending", "closed"}]
      /\ queue \in [Conn -> Seq(Nat)] /\ since \in [Conn -> Nat]
      /\ dispatched[at[c]] \in Seq(Nat)
  BY LineTypes
<1>2. UNCHANGED <<dispatched, at, written>>
  BY DEF Subscribe, Enter, reader
<1>3. /\ status[c] \in {"admitted", "gone"} /\ c \notin subscribed
      /\ subscribed' = subscribed \cup {c}
      /\ status'[c] = IF status[c] = "admitted" THEN "open" ELSE status[c]
      /\ since'[c] = Len(dispatched[at[c]])
      /\ \A d \in Conn : d # c => status'[d] = status[d] /\ since'[d] = since[d]
  BY <1>1 DEF Subscribe, Enter
<1>4. PICK S : /\ S = IF status[c] = "admitted" THEN Live(at[c]) \cup {c} ELSE Live(at[c])
               /\ \A d \in Conn :
                     queue'[d] = IF d \in S THEN Append(queue[d], Presence) ELSE queue[d]
  BY DEF Subscribe, Announce
<1>5. written[c] = <<>> /\ queue[c] = <<>>
  BY <1>3 DEF LineInv
<1>6. LineOf(c)'
  <2>1. CASE status[c] = "admitted"
    <3>1. queue'[c] = Append(<<>>, Presence) /\ written'[c] = <<>>
      BY <1>2, <1>4, <1>5, <2>1
    <3>2. <<>> \in Seq(Nat) /\ Len(dispatched[at[c]]) \in Nat
      BY <1>1
    <3>3. Follows(Len(dispatched[at[c]]), <<>>, <<>>, dispatched[at[c]])
      BY <1>1, FollowsFirst
    <3>4. Follows(Len(dispatched[at[c]]), <<>>, Append(<<>>, Presence), dispatched[at[c]])
      BY <1>1, <3>2, <3>3, FollowsPresence
    <3>5. FollowsDispatch(c)'
      BY <1>2, <1>3, <3>1, <3>4 DEF FollowsDispatch
    <3> QED BY <1>3, <2>1, <3>5 DEF LineOf
  <2>2. CASE status[c] = "gone"
    <3>1. c \notin S /\ queue'[c] = <<>> /\ written'[c] = <<>> /\ status'[c] = "gone"
      BY <1>2, <1>3, <1>4, <1>5, <2>2 DEF Live, Served
    <3> QED BY <3>1 DEF LineOf
  <2> QED BY <1>3, <2>1, <2>2
<1>7. ASSUME NEW d \in Conn, d # c PROVE LineOf(d)'
  <2>1. /\ written'[d] = written[d] /\ since'[d] = since[d] /\ status'[d] = status[d]
        /\ (d \in subscribed' => d \in subscribed) /\ at' = at /\ dispatched' = dispatched
    BY <1>2, <1>3, <1>7
  <2>2. PICK T \in SUBSET Live(at[d]) : T = S \cap {d}
    BY <1>4, <1>7 DEF Live, Served
  <2>3. queue'[d] = IF d \in T THEN Append(queue[d], Presence) ELSE queue[d]
    BY <1>4, <2>2
  <2> QED BY <2>1, <2>3, LineAnnounced
<1> QED BY <1>6, <1>7 DEF LineInv, LineOf

LEMMA CheckLine ==
    ASSUME FanoutInv, LineInv, NEW c \in Conn, Check(c) \/ CheckFails(c) PROVE LineInv'
<1>1. /\ status \in [Conn -> {"new", "admitted", "gone", "open", "ending", "closed"}]
      /\ queue \in [Conn -> Seq(Nat)] /\ written \in [Conn -> Seq(Nat)]
  BY LineTypes
<1>2. UNCHANGED <<dispatched, at, since, subscribed>>
  BY DEF Check, CheckFails, reader
<1>3. CASE End(c)
  <2>1. /\ status'[c] = "ending"
        /\ \A d \in Conn : d # c => status'[d] = status[d] /\ queue'[d] = queue[d]
    BY <1>1, <1>3 DEF End
  <2>2. \A d \in Conn : d # c => written'[d] = written[d]
    BY <1>1 DEF Check, CheckFails
  <2>3. ASSUME NEW d \in Conn PROVE LineOf(d)'
    <3>1. CASE d = c
      BY <2>1, <3>1, LineEnded
    <3>2. CASE d # c
      BY <1>2, <2>1, <2>2, <3>2, LineApart
    <3> QED BY <3>1, <3>2
  <2> QED BY <2>3 DEF LineInv, LineOf
<1>4. CASE ~End(c)
  <2>1. UNCHANGED <<status, queue, written>>
    BY <1>4 DEF Check, CheckFails
  <2> QED BY <1>2, <2>1, LineStays DEF connection
<1> QED BY <1>3, <1>4

LEMMA WriteLine == ASSUME FanoutInv, LineInv, NEW c \in Conn, Write(c) PROVE LineInv'
<1>1. /\ queue \in [Conn -> Seq(Nat)] /\ written \in [Conn -> Seq(Nat)]
      /\ since[c] \in Nat /\ dispatched[at[c]] \in Seq(Nat)
  BY LineTypes
<1>2. UNCHANGED <<dispatched, at, since, status, subscribed>>
  BY DEF Write, reader, connection
<1>3. queue[c] # <<>>
  BY Parts DEF Write, ClearedInv
<1>4. /\ queue'[c] = Tail(queue[c])
      /\ written'[c] = IF Head(queue[c]) = Presence THEN written[c]
                       ELSE Append(written[c], Head(queue[c]))
      /\ \A d \in Conn : d # c => queue'[d] = queue[d] /\ written'[d] = written[d]
  BY <1>1 DEF Write
<1>5. LineOf(c)'
  <2>1. ASSUME c \in subscribed PROVE FollowsDispatch(c)'
    <3>1. Follows(since[c], written[c], queue[c], dispatched[at[c]])
      BY <2>1 DEF Write, LineInv, FollowsDispatch
    <3>2. Follows(since[c], written'[c], Tail(queue[c]), dispatched[at[c]])
      BY <1>1, <1>3, <1>4, <3>1, FollowsWrite
    <3> QED BY <1>2, <1>4, <3>2 DEF FollowsDispatch
  <2>2. status'[c] = "open"
    BY <1>2 DEF Write
  <2> QED BY <1>2, <2>1, <2>2 DEF LineOf
<1>6. ASSUME NEW d \in Conn, d # c PROVE LineOf(d)'
  BY <1>2, <1>4, <1>6, LineApart
<1> QED BY <1>5, <1>6 DEF LineInv, LineOf

LEMMA DisconnectLine == ASSUME FanoutInv, LineInv, NEW c \in Conn, Disconnect(c) PROVE LineInv'
<1>1. /\ status \in [Conn -> {"new", "admitted", "gone", "open", "ending", "closed"}]
      /\ queue \in [Conn -> Seq(Nat)] /\ written \in [Conn -> Seq(Nat)]
  BY LineTypes
<1>2. UNCHANGED <<dispatched, at, since>> /\ subscribed' = subscribed \ {c}
  BY DEF Disconnect, reader
<1>3. status'[c] = "closed"
      /\ \A d \in Conn : d # c => status'[d] = status[d] /\ written'[d] = written[d]
  BY <1>1 DEF Disconnect
<1>4. PICK S : /\ S = Live(at[c]) \ {c}
               /\ \A d \in Conn : d # c =>
                     queue'[d] = IF d \in S THEN Append(queue[d], Presence) ELSE queue[d]
  BY DEF Disconnect, Announce
<1>5. ASSUME NEW d \in Conn PROVE LineOf(d)'
  <2>1. CASE d = c
    BY <1>3, <2>1, LineEnded
  <2>2. CASE d # c
    <3>1. PICK T \in SUBSET Live(at[d]) : T = S \cap {d}
      BY <1>4 DEF Live, Served
    <3>2. queue'[d] = IF d \in T THEN Append(queue[d], Presence) ELSE queue[d]
      BY <1>4, <2>2, <3>1
    <3> QED BY <1>2, <1>3, <2>2, <3>2, LineAnnounced
  <2> QED BY <2>1, <2>2
<1> QED BY <1>5 DEF LineInv, LineOf

LEMMA NextLine == FanoutInv /\ LineInv /\ [Next]_vars => LineInv'
<1> SUFFICES ASSUME FanoutInv, LineInv, [Next]_vars PROVE LineInv'
  OBVIOUS
<1>1. CASE Save
  BY <1>1, LineStays DEF Save, Commit, reader, delivery
<1>2. CASE \E u \in User : Change(u)
  BY <1>2, LineStays DEF Change, Commit, reader, delivery
<1>3. CASE Publish
  BY <1>3, LineStays DEF Publish, reader, delivery
<1>4. ASSUME NEW i \in Instance, Reader(i) \/ Broken(i) PROVE LineInv'
  <2>1. CASE Read(i) \/ TimeOut(i) \/ Disable(i)
    BY <2>1, LineStays DEF Read, TimeOut, Disable, delivery
  <2> QED BY <1>4, <2>1, ConsumeLine, RestartLine DEF Reader, Broken
<1>5. ASSUME NEW c \in Conn, Deliver(c) PROVE LineInv'
  BY <1>5, SubscribeLine, CheckLine, WriteLine, DisconnectLine DEF Deliver, Close
<1>6. ASSUME NEW c \in Conn, Client(c) PROVE LineInv'
  BY <1>6, RequestLine, CheckLine, DisconnectLine DEF Client, HangUp
<1>7. CASE UNCHANGED vars
  BY <1>7, LineStays DEF vars, reader, delivery
<1> QED BY <1>1, <1>2, <1>3, <1>4, <1>5, <1>6, <1>7 DEF Next

(* A subscribed client receives what its instance dispatches, all of it,   *)
(* once and in order, and the instance repeats only what it has forgotten  *)
(* (receiveSharedEvent, the promise chain of an SSE connection).           *)
THEOREM ClientsFollowTheirInstance == Spec => []DeliveredAsDispatched
<1>1. Init => LineInv
  BY DEF Init, LineInv
<1>2. FanoutInv /\ LineInv => DeliveredAsDispatched
  BY Parts DEF ConnT, LineInv, DeliveredAsDispatched
<1>3. FanoutInv /\ LineInv /\ [Next]_vars => LineInv'
  BY NextLine
<1>4. QED
  BY InvHolds, <1>1, <1>2, <1>3, PTL DEF Spec

-----------------------------------------------------------------------------
(* The shell.  What an explorer may be, and what its assets are for.       *)
ShellExplorer ==
    [asset : ShellAsset \cup {NoPlace},
     snapshot : (Shell!Scope \X ShellAsset) \cup {NoneYet},
     asked : (Shell!Scope \X ShellAsset) \cup {NoneYet},
     listing : Shell!Scope \cup {NoneYet}, busy : BOOLEAN]

ShellHistory == [entries : Seq(Shell!AppRoute), at : Nat]

ShellIsHistory(h) ==
    /\ h \in ShellHistory /\ h.at \in DOMAIN h.entries
    /\ \A i \in DOMAIN h.entries : Shell!Normal(h.entries[i]) = h.entries[i]

ShellRouteIn(h) == h.entries[h.at]

ShellNames(r, asset) == r.view = "explorer" => r.asset \in {NoPlace, asset}

ShellHeld(e, r, c) ==
    /\ e.asked # NoneYet =>
          /\ e.asked[1] = c /\ e.asset = e.asked[2] /\ e.busy
          /\ ShellNames(r, e.asset) /\ r.view = "explorer" /\ ~r.search
    /\ e.snapshot # NoneYet =>
          /\ e.snapshot[1] = c /\ r.view = "explorer" /\ ~r.search
          /\ e.busy \/ (e.asset = e.snapshot[2] /\ ShellNames(r, e.asset))

\* The invariant, part by part: of the explorer, and of the choice.
ShellExplored ==
    /\ explorer \in ShellExplorer /\ shellLate \in BOOLEAN
    /\ explorer.listing \in {NoneYet, context}
    /\ explorer.listing # NoneYet => Shell!Route.view = "explorer"
    /\ ~shellLate => ShellHeld(explorer, Shell!Route, context)

ShellChosen ==
    /\ Shell!ContextIsListed /\ Shell!AddressAgrees /\ Shell!LoadsAreSound
    /\ \A p \in projects : Shell!SelectedIs(p[1])

ShellTyped ==
    /\ revoked \in BOOLEAN /\ tenants \in {<<>>, Tenants}
    /\ selected \in ShellTenant \cup {NoPlace} /\ projects \subseteq Shell!Scope
    /\ context \in Shell!Scope \cup {NoneYet}
    /\ shellStatus \in {"loading", "ready", "empty", "failed"}
    /\ discoveries \subseteq [retry : BOOLEAN, tenant : ShellTenant \cup {NoPlace}]
    /\ loads \subseteq [tenant : ShellTenant, project : ShellProject \cup {NoPlace},
                        mode : {"push", "replace", "none"}]
    /\ workspace \in [shown : {NoneYet, context}, asked : {NoneYet, context}]
    /\ reloads \subseteq Shell!Scope
    /\ shellCount \in [acts : 0..MaxShellActs, failures : 0..MaxShellFailures]

LEMMA ShellParseNormal ==
    ASSUME WebPlaneAssumptions, NEW r \in Shell!AppRoute
    PROVE  /\ Shell!Normal(r) \in Shell!AppRoute /\ Shell!Normal(Shell!Normal(r)) = Shell!Normal(r)
           /\ Shell!Normal(r).view = r.view /\ Shell!Normal(r).tenant = r.tenant
           /\ Shell!Normal(r).search = (r.view = "explorer" /\ r.search)
           /\ Shell!Normal(r).asset = (IF r.view = "explorer" /\ ~r.search THEN r.asset ELSE NoPlace)
           /\ Shell!Normal(r).project = (IF r.tenant = NoPlace THEN NoPlace ELSE r.project)
<1> DEFINE n(s) == [view |-> s.view, tenant |-> s.tenant,
                    project |-> IF s.tenant = NoPlace THEN NoPlace ELSE s.project,
                    asset |-> IF s.view = "explorer" /\ ~s.search THEN s.asset ELSE NoPlace,
                    search |-> s.view = "explorer" /\ s.search]
<1>1. ASSUME NEW s \in Shell!AppRoute PROVE Shell!Normal(s) = n(s)
  <2> PICK t : t = Shell!Normal(s)
    OBVIOUS
  <2>1. t = [s EXCEPT !.asset = IF s.view = "explorer" /\ ~s.search THEN s.asset ELSE NoPlace,
                      !.search = s.view = "explorer" /\ s.search,
                      !.project = IF s.tenant = NoPlace THEN NoPlace ELSE s.project]
    BY DEF Shell!Normal
  <2>2. t = n(s)
    BY <1>1, <2>1 DEF Shell!AppRoute
  <2> QED BY <2>2
<1>2. n(r) \in Shell!AppRoute
  BY DEF Shell!AppRoute
<1>3. n(n(r)) = n(r)
  OBVIOUS
<1> QED BY <1>1, <1>2, <1>3

LEMMA ShellPartsOfInv ==
    Shell!WebShellInv <=> ShellIsHistory(history) /\ ShellTyped /\ ShellExplored /\ ShellChosen
BY DEF Shell!WebShellInv, ShellIsHistory, ShellTyped, ShellExplored, ShellChosen, Shell!TypeOK,
   Shell!ShownForContext, Shell!ExplorerIsSound,
       ShellHeld, ShellNames, Shell!AddressNames, ShellHistory, ShellExplorer

LEMMA ShellPartsMakeInv ==
    ShellIsHistory(history') /\ ShellTyped' /\ ShellExplored' /\ ShellChosen' => Shell!WebShellInv'
BY DEF Shell!WebShellInv, ShellIsHistory, ShellTyped, ShellExplored, ShellChosen, Shell!TypeOK,
   Shell!ShownForContext, Shell!ExplorerIsSound,
       ShellHeld, ShellNames, Shell!AddressNames, ShellHistory, ShellExplorer

LEMMA ShellCommittedIs ==
    ASSUME WebPlaneAssumptions, NEW h, ShellIsHistory(h), NEW r \in Shell!AppRoute, NEW mode
    PROVE  /\ ShellIsHistory(Shell!Committed(h, r, mode))
           /\ mode = "none" => Shell!Committed(h, r, mode) = h
           /\ mode # "none" => ShellRouteIn(Shell!Committed(h, r, mode)) = Shell!Normal(r)
<1> DEFINE to == Shell!Normal(r)
<1>1. to \in Shell!AppRoute /\ Shell!Normal(to) = to
  BY ShellParseNormal
<1>2. CASE mode = "none" \/ to = h.entries[h.at]
  BY <1>2 DEF Shell!Committed, ShellRouteIn
<1>3. CASE ~(mode = "none" \/ to = h.entries[h.at]) /\ mode = "replace"
  <2> DEFINE new == [h.entries EXCEPT ![h.at] = to]
  <2>1. Shell!Committed(h, r, mode) = [h EXCEPT !.entries = new]
    BY <1>3 DEF Shell!Committed
  <2>2. new \in Seq(Shell!AppRoute) /\ DOMAIN new = DOMAIN h.entries
    BY <1>1, ExceptSeq DEF ShellIsHistory, ShellHistory
  <2>3. \A i \in DOMAIN new : new[i] = IF i = h.at THEN to ELSE h.entries[i]
    BY DEF ShellIsHistory, ShellHistory
  <2> HIDE DEF new, to
  <2> QED BY <1>1, <1>3, <2>1, <2>2, <2>3 DEF ShellIsHistory, ShellHistory, ShellRouteIn, to
<1>4. CASE ~(mode = "none" \/ to = h.entries[h.at]) /\ mode # "replace"
  <2> DEFINE kept == SubSeq(h.entries, 1, h.at)
             new == kept \o <<to>>
  <2>1. Shell!Committed(h, r, mode) = [entries |-> new, at |-> h.at + 1]
    BY <1>4 DEF Shell!Committed
  <2>2. h.entries \in Seq(Shell!AppRoute) /\ h.at \in 1..Len(h.entries)
    BY DEF ShellIsHistory, ShellHistory
  <2>3. kept \in Seq(Shell!AppRoute) /\ Len(kept) = h.at /\ \A i \in 1..h.at : kept[i] = h.entries[i]
    BY <2>2
  <2>4. new \in Seq(Shell!AppRoute) /\ Len(new) = h.at + 1 /\ new[h.at + 1] = to
        /\ \A i \in 1..h.at : new[i] = kept[i]
    <3> HIDE DEF kept, to
    <3> QED BY <2>2, <2>3, <1>1
  <2>5. DOMAIN new = 1..(h.at + 1)
    BY <2>4, <2>2
  <2> HIDE DEF kept, new, to
  <2> QED BY <1>1, <1>4, <2>1, <2>2, <2>3, <2>4, <2>5 DEF ShellIsHistory, ShellHistory,
             ShellRouteIn, to
<1> QED BY <1>2, <1>3, <1>4

LEMMA ShellEffectIs ==
    ASSUME NEW e \in ShellExplorer, NEW c \in Shell!Scope \cup {NoneYet}, NEW view, NEW r,
           NEW x, x = Shell!ExplorerEffect(e, c, view, r)
    PROVE  /\ x \in ShellExplorer /\ x.asset = e.asset /\ x.busy = e.busy
           /\ c = context /\ view = r.view => x = e
           /\ ~(c = context /\ view = r.view) =>
                 x.asked = NoneYet /\ x.listing = IF view = "explorer" THEN c ELSE NoneYet
           /\ ~(c = context /\ view = r.view) =>
                 x.snapshot = IF view = "explorer" /\ c # NoneYet THEN e.snapshot ELSE NoneYet
<1>1. CASE c = context /\ view = r.view
  BY <1>1 DEF Shell!ExplorerEffect
<1>2. CASE ~(c = context /\ view = r.view) /\ view = "explorer" /\ c # NoneYet
  <2>1. x = [e EXCEPT !.asked = NoneYet, !.listing = c]
    BY <1>2 DEF Shell!ExplorerEffect
  <2> QED BY <1>2, <2>1 DEF ShellExplorer
<1>3. CASE ~(c = context /\ view = r.view) /\ ~(view = "explorer" /\ c # NoneYet)
  <2>1. x = [e EXCEPT !.asked = NoneYet, !.listing = NoneYet, !.snapshot = NoneYet]
    BY <1>3 DEF Shell!ExplorerEffect
  <2> QED BY <1>3, <2>1 DEF ShellExplorer
<1> QED BY <1>1, <1>2, <1>3

LEMMA ShellInvalidatedIs ==
    ASSUME WebPlaneAssumptions, explorer \in ShellExplorer, NEW x, x = Shell!Invalidated
    PROVE  /\ x \in ShellExplorer /\ x.asset = NoPlace /\ x.snapshot = NoneYet /\ x.asked = NoneYet
           /\ ~x.busy /\ x.listing = explorer.listing
BY DEF Shell!Invalidated, ShellExplorer

LEMMA ShellLoadAssetIs ==
    ASSUME NEW e \in ShellExplorer, NEW c \in Shell!Scope, NEW asset \in ShellAsset,
           WebPlaneAssumptions,
           NEW x, x = Shell!LoadAsset(e, c, asset)
    PROVE  /\ x \in ShellExplorer /\ x.asset = asset /\ x.snapshot = e.snapshot
           /\ x.asked = <<c, asset>> /\ x.busy /\ x.listing = e.listing /\ x.asked # NoneYet
<1>1. c # NoneYet /\ <<c, asset>> # NoneYet /\ <<c, asset>> \in Shell!Scope \X ShellAsset
  BY DEF WebPlaneAssumptions, Shell!WebShellAssumption
<1>2. x = [e EXCEPT !.asset = asset, !.asked = <<c, asset>>, !.busy = TRUE]
  BY <1>1 DEF Shell!LoadAsset
<1> QED BY <1>1, <1>2 DEF ShellExplorer

LEMMA ShellRouteIs ==
    ASSUME NEW h, ShellIsHistory(h)
    PROVE  /\ ShellRouteIn(h) \in Shell!AppRoute /\ Shell!Normal(ShellRouteIn(h)) = ShellRouteIn(h)
BY DEF ShellIsHistory, ShellHistory, ShellRouteIn

LEMMA ShellNormalHolds ==
    ASSUME WebPlaneAssumptions, NEW r \in Shell!AppRoute, Shell!Normal(r) = r
    PROVE  /\ r.search => r.view = "explorer" /\ r.asset = NoPlace
           /\ r.asset # NoPlace => r.view = "explorer"
           /\ r.tenant = NoPlace => r.project = NoPlace
<1>1. /\ r.search = (r.view = "explorer" /\ r.search)
      /\ r.asset = (IF r.view = "explorer" /\ ~r.search THEN r.asset ELSE NoPlace)
      /\ r.project = (IF r.tenant = NoPlace THEN NoPlace ELSE r.project)
  BY ShellParseNormal
<1> QED BY <1>1

(* Where nothing is asked for or shown, there is nothing to hold.          *)
LEMMA ShellNothingHeld ==
    ASSUME NEW e, e.asked = NoneYet, e.snapshot = NoneYet, NEW r, NEW c PROVE ShellHeld(e, r, c)
BY DEF ShellHeld

LEMMA ShellLoadedHeld ==
    ASSUME NEW e, NEW r, NEW c, e.asked = NoneYet \/ e.asked = <<c, e.asset>>, e.busy,
           e.snapshot # NoneYet => e.snapshot[1] = c, ShellNames(r, e.asset),
           r.view = "explorer", ~r.search
    PROVE  ShellHeld(e, r, c)
BY DEF ShellHeld

LEMMA ShellStartsSound == WebPlaneAssumptions /\ Shell!Init => Shell!WebShellInv
<1> SUFFICES ASSUME WebPlaneAssumptions, Shell!Init PROVE Shell!WebShellInv
  OBVIOUS
<1> PICK r \in Address :
        /\ revoked = FALSE /\ tenants = <<>> /\ projects = {} /\ context = NoneYet
        /\ shellStatus = "loading" /\ selected = Shell!readAppRoute(r).tenant
        /\ history = [entries |-> <<Shell!readAppRoute(r)>>, at |-> 1]
        /\ discoveries = {[retry |-> FALSE, tenant |-> NoPlace]}
        /\ loads = {} /\ reloads = {} /\ shellLate = FALSE
        /\ workspace = [shown |-> NoneYet, asked |-> NoneYet]
        /\ explorer = [asset |-> Shell!readAppRoute(r).asset, snapshot |-> NoneYet, asked |-> NoneYet,
                       listing |-> NoneYet, busy |-> FALSE]
        /\ shellCount = [acts |-> 0, failures |-> 0]
  BY DEF Shell!Init
<1>1. r \in Shell!AppRoute
  BY DEF WebPlaneAssumptions, Shell!WebShellAssumption
<1> DEFINE n == Shell!Normal(r)
<1>2. n \in Shell!AppRoute /\ Shell!Normal(n) = n /\ Shell!readAppRoute(r) = n
  BY <1>1, ShellParseNormal DEF Shell!readAppRoute
<1> HIDE DEF n
<1>3. ShellIsHistory(history)
  BY <1>2 DEF ShellIsHistory, ShellHistory
<1>4. n.tenant \in ShellTenant \cup {NoPlace} /\ n.asset \in ShellAsset \cup {NoPlace}
  BY <1>2 DEF Shell!AppRoute
<1>5. ShellTyped
  <2>1. 0 \in 0..MaxShellActs /\ 0 \in 0..MaxShellFailures
    BY DEF WebPlaneAssumptions, Shell!WebShellAssumption
  <2>2. selected \in ShellTenant \cup {NoPlace}
    BY <1>2, <1>4
  <2>3. discoveries \subseteq [retry : BOOLEAN, tenant : ShellTenant \cup {NoPlace}]
    OBVIOUS
  <2>4. workspace \in [shown : {NoneYet, context}, asked : {NoneYet, context}]
    OBVIOUS
  <2>5. shellCount \in [acts : 0..MaxShellActs, failures : 0..MaxShellFailures]
    BY <2>1
  <2> QED BY <2>2, <2>3, <2>4, <2>5 DEF ShellTyped
<1>6. ShellExplored
  BY <1>2, <1>4 DEF ShellExplored, ShellExplorer, ShellHeld
<1>7. ShellChosen
  BY DEF ShellChosen, Shell!ContextIsListed, Shell!AddressAgrees, Shell!LoadsAreSound
<1> QED BY <1>3, <1>5, <1>6, <1>7, ShellPartsOfInv

(* The projects of a tenant are asked for: nothing is chosen or shown until *)
(* they arrive.                                                             *)
LEMMA ShellBeginKeeps ==
    ASSUME WebPlaneAssumptions, Shell!WebShellInv, ShellIsHistory(history'),
           NEW tenant \in ShellTenant, NEW project \in ShellProject \cup {NoPlace},
           NEW mode \in {"push", "replace", "none"}, Shell!Begin(tenant, project, mode),
           mode = "none" => Shell!Route'.tenant = tenant /\ Shell!Route'.project = project,
           UNCHANGED <<revoked, reloads, shellLate>>, tenants' \in {<<>>, Tenants},
           discoveries' \subseteq discoveries,
           shellCount' \in [acts : 0..MaxShellActs, failures : 0..MaxShellFailures]
    PROVE  Shell!WebShellInv'
<1>1. ShellIsHistory(history) /\ ShellTyped /\ ShellExplored /\ ShellChosen
  BY ShellPartsOfInv
<1> PICK x : x = Shell!Invalidated
  OBVIOUS
<1>2. /\ x \in ShellExplorer /\ x.snapshot = NoneYet /\ x.asked = NoneYet
  BY <1>1, ShellInvalidatedIs DEF ShellExplored
<1>3. explorer' = [x EXCEPT !.listing = NoneYet]
  BY DEF Shell!Begin
<1>4. explorer' \in ShellExplorer /\ explorer'.snapshot = NoneYet /\ explorer'.asked = NoneYet
      /\ explorer'.listing = NoneYet
  BY <1>2, <1>3 DEF ShellExplorer
<1>5. ShellExplored'
  <2>1. ShellHeld(explorer', Shell!Route', context')
    BY <1>4, ShellNothingHeld
  <2> QED BY <1>1, <1>4, <2>1 DEF ShellExplored
<1>6. ShellTyped'
  BY <1>1 DEF ShellTyped, Shell!Begin, Shell!OnlyLoad
<1>7. ShellChosen'
  BY DEF Shell!Begin, Shell!OnlyLoad, ShellChosen, Shell!ContextIsListed, Shell!AddressAgrees,
     Shell!LoadsAreSound, Shell!SelectedIs
<1> QED BY <1>5, <1>6, <1>7, ShellPartsMakeInv

\* What the invariant says of every state, in the terms of the steps.
LEMMA ShellStateIs ==
    ASSUME WebPlaneAssumptions, Shell!WebShellInv
    PROVE  /\ ShellIsHistory(history) /\ ShellTyped /\ ShellExplored /\ ShellChosen
           /\ Shell!Route \in Shell!AppRoute /\ Shell!Normal(Shell!Route) = Shell!Route /\ Shell!Route = ShellRouteIn(history)
           /\ shellCount.acts \in Nat /\ shellCount.failures \in Nat
<1>1. ShellIsHistory(history) /\ ShellTyped /\ ShellExplored /\ ShellChosen
  BY ShellPartsOfInv
<1>2. Shell!Route = ShellRouteIn(history)
  BY DEF Shell!Route, ShellRouteIn
<1>3. shellCount.acts \in Nat /\ shellCount.failures \in Nat
  BY <1>1 DEF ShellTyped
<1> QED BY <1>1, <1>2, <1>3, ShellRouteIs

LEMMA ShellActsCount ==
    ASSUME WebPlaneAssumptions, ShellTyped, Shell!Acts \/ Shell!Fails \/ UNCHANGED shellCount
    PROVE  shellCount' \in [acts : 0..MaxShellActs, failures : 0..MaxShellFailures]
<1>1. shellCount \in [acts : 0..MaxShellActs, failures : 0..MaxShellFailures] /\ MaxShellActs \in Nat /\ MaxShellFailures \in Nat
  BY DEF ShellTyped, WebPlaneAssumptions, Shell!WebShellAssumption
<1> QED BY <1>1 DEF Shell!Acts, Shell!Fails

(* Discovery, retries and failures.                                        *)
LEMMA ShellDiscoveryKeeps ==
    ASSUME WebPlaneAssumptions, Shell!WebShellInv, NEW d \in discoveries, Shell!TenantsArrive(d)
    PROVE  Shell!WebShellInv'
<1>1. ShellIsHistory(history) /\ ShellTyped /\ Shell!Route \in Shell!AppRoute
  BY ShellStateIs
<1> DEFINE wanted == Shell!Preferred(d)
           tenant == IF wanted \in Shell!Range(Tenants) THEN wanted ELSE Tenants[1]
           project == IF d.retry /\ tenant # Shell!Route.tenant THEN NoPlace ELSE Shell!Route.project
<1>2. tenant \in ShellTenant
  BY DEF WebPlaneAssumptions, Shell!WebShellAssumption, Shell!Range
<1>3. project \in ShellProject \cup {NoPlace}
  BY <1>1 DEF Shell!AppRoute
<1>4. Shell!Begin(tenant, project, "replace") /\ tenants' = Tenants /\ UNCHANGED <<revoked, history, reloads, shellLate, shellCount>>
      /\ discoveries' \subseteq discoveries
  BY DEF Shell!TenantsArrive
<1>5. shellCount' \in [acts : 0..MaxShellActs, failures : 0..MaxShellFailures] /\ ShellIsHistory(history')
  BY <1>1, <1>4 DEF ShellTyped
<1> HIDE DEF tenant, project
<1> QED BY <1>2, <1>3, <1>4, <1>5, ShellBeginKeeps

LEMMA ShellNoneLeftKeeps ==
    ASSUME WebPlaneAssumptions, Shell!WebShellInv, NEW d \in discoveries,
           Shell!NoTenantsArrive(d)
    PROVE  Shell!WebShellInv'
<1>1. ShellIsHistory(history) /\ ShellTyped /\ ShellExplored /\ ShellChosen
  BY ShellStateIs
<1>2. ShellIsHistory(history')
  BY <1>1 DEF Shell!NoTenantsArrive
<1> PICK x : x = Shell!Invalidated
  OBVIOUS
<1>3. /\ x \in ShellExplorer /\ x.snapshot = NoneYet /\ x.asked = NoneYet
  BY <1>1, ShellInvalidatedIs DEF ShellExplored
<1>4. CASE d.retry
  <2>1. explorer' = [x EXCEPT !.listing = NoneYet] /\ context' = NoneYet /\ shellLate' = shellLate /\ history' = history
    BY <1>4 DEF Shell!NoTenantsArrive
  <2>2. explorer' \in ShellExplorer /\ explorer'.snapshot = NoneYet /\ explorer'.asked = NoneYet
        /\ explorer'.listing = NoneYet
    BY <1>3, <2>1 DEF ShellExplorer
  <2>3. ShellExplored'
    <3>1. ShellHeld(explorer', Shell!Route', context')
      BY <2>2, ShellNothingHeld
    <3> QED BY <1>1, <2>1, <2>2, <3>1 DEF ShellExplored
  <2>4. ShellTyped'
    BY <1>1, <1>4 DEF ShellTyped, Shell!NoTenantsArrive
  <2>5. ShellChosen'
    BY <1>1, <1>4 DEF Shell!NoTenantsArrive, ShellChosen, Shell!ContextIsListed,
       Shell!AddressAgrees, Shell!LoadsAreSound, Shell!SelectedIs, Shell!Route
  <2> QED BY <1>2, <2>3, <2>4, <2>5, ShellPartsMakeInv
<1>5. CASE ~d.retry
  <2>3. ShellExplored'
    BY <1>1, <1>5 DEF Shell!NoTenantsArrive, ShellExplored, Shell!Route
  <2>4. ShellTyped'
    BY <1>1, <1>5 DEF ShellTyped, Shell!NoTenantsArrive
  <2>5. ShellChosen'
    BY <1>1, <1>5 DEF Shell!NoTenantsArrive, ShellChosen, Shell!ContextIsListed,
       Shell!AddressAgrees, Shell!LoadsAreSound, Shell!SelectedIs, Shell!Route
  <2> QED BY <1>2, <2>3, <2>4, <2>5, ShellPartsMakeInv
<1> QED BY <1>4, <1>5

LEMMA ShellQuietKeeps ==
    ASSUME WebPlaneAssumptions, Shell!WebShellInv,
           \/ Shell!Revoke \/ Shell!retryPlatformBootstrap \/ Shell!reloadAssets
           \/ \E d \in discoveries : Shell!TenantsFail(d)
           \/ \E l \in loads : Shell!ProjectsFail(l)
           \/ \E c \in reloads : Shell!AssetsAgainFail(c)
    PROVE  Shell!WebShellInv'
<1>1. ShellIsHistory(history) /\ ShellTyped /\ ShellExplored /\ ShellChosen
  BY ShellStateIs
<1>2. /\ UNCHANGED <<tenants, selected, projects, context, history, workspace, explorer, shellLate>>
      /\ revoked' \in {revoked, TRUE} /\ loads' \subseteq loads
      /\ reloads' \subseteq reloads \cup ({context} \ {NoneYet})
      /\ shellStatus' \in {shellStatus, "loading", "failed"}
      /\ discoveries' \subseteq discoveries \cup {[retry |-> TRUE, tenant |-> selected]}
  BY DEF Shell!Revoke, Shell!retryPlatformBootstrap, Shell!reloadAssets, Shell!TenantsFail,
     Shell!ProjectsFail, Shell!AssetsAgainFail
<1>3. shellCount' \in [acts : 0..MaxShellActs, failures : 0..MaxShellFailures]
  <2>1. Shell!Acts \/ Shell!Fails \/ UNCHANGED shellCount
    BY DEF Shell!Revoke, Shell!retryPlatformBootstrap, Shell!reloadAssets, Shell!TenantsFail,
       Shell!ProjectsFail, Shell!AssetsAgainFail
  <2> QED BY <1>1, <2>1, ShellActsCount
<1>4. ShellTyped'
  <2>1. selected \in ShellTenant \cup {NoPlace} /\ context \in Shell!Scope \cup {NoneYet}
    BY <1>1 DEF ShellTyped
  <2>2. [retry |-> TRUE, tenant |-> selected] \in [retry : BOOLEAN, tenant : ShellTenant \cup {NoPlace}]
    BY <2>1
  <2>3. discoveries' \subseteq [retry : BOOLEAN, tenant : ShellTenant \cup {NoPlace}]
    BY <1>1, <1>2, <2>2 DEF ShellTyped
  <2>4. reloads' \subseteq Shell!Scope
    BY <1>1, <1>2, <2>1 DEF ShellTyped
  <2> QED BY <1>1, <1>2, <1>3, <2>3, <2>4 DEF ShellTyped
<1>5. ShellExplored' /\ ShellIsHistory(history')
  BY <1>1, <1>2 DEF ShellExplored, Shell!Route
<1>6. ShellChosen'
  <2>1. Shell!ContextIsListed' /\ Shell!LoadsAreSound' /\ \A p \in projects' : Shell!SelectedIs(p[1])'
    <3>1. \A t : Shell!SelectedIs(t) => Shell!SelectedIs(t)'
      BY <1>1, <1>2 DEF Shell!SelectedIs, ShellTyped
    <3>2. Shell!ContextIsListed'
      <4>1. context # NoneYet => context \in projects /\ Shell!SelectedIs(context[1])
        BY <1>1 DEF ShellChosen, Shell!ContextIsListed, Shell!SelectedIs
      <4> PICK t : t = context[1]
        OBVIOUS
      <4>2. context # NoneYet => context \in projects /\ Shell!SelectedIs(t)'
        BY <3>1, <4>1
      <4> QED BY <1>2, <4>2 DEF Shell!ContextIsListed, Shell!SelectedIs
    <3>3. Shell!LoadsAreSound'
      BY <1>1, <1>2, <3>1 DEF ShellChosen, Shell!LoadsAreSound, Shell!Route
    <3> QED BY <1>1, <1>2, <3>1, <3>2, <3>3 DEF ShellChosen
  <2>2. Shell!AddressAgrees'
    BY <1>1, <1>2 DEF ShellChosen, Shell!AddressAgrees, Shell!LoadsAreSound, Shell!Route
  <2> QED BY <2>1, <2>2 DEF ShellChosen
<1> QED BY <1>4, <1>5, <1>6, ShellPartsMakeInv

(* The projects of a tenant arrive, and one of them is chosen.             *)
LEMMA ShellProjectsKeep ==
    ASSUME WebPlaneAssumptions, Shell!WebShellInv, NEW l \in loads,
           NEW list \in Seq(ShellProject),
           Shell!ProjectsArrive(l, list)
    PROVE  Shell!WebShellInv'
<1>1. /\ ShellIsHistory(history) /\ ShellTyped /\ ShellExplored /\ ShellChosen
      /\ Shell!Route \in Shell!AppRoute /\ Shell!Normal(Shell!Route) = Shell!Route /\ Shell!Route = ShellRouteIn(history)
  BY ShellStateIs
<1>2. /\ l.tenant \in ShellTenant /\ l.project \in ShellProject \cup {NoPlace}
      /\ l.mode \in {"push", "replace", "none"}
  BY <1>1 DEF ShellTyped
<1>3. /\ loads = {l} /\ projects = {} /\ context = NoneYet /\ Shell!SelectedIs(l.tenant)
      /\ l.mode = "none" /\ Shell!Route.tenant # NoPlace =>
            Shell!Route.tenant = l.tenant /\ Shell!Route.project = l.project
  BY <1>1 DEF ShellChosen, Shell!LoadsAreSound
<1>4. /\ loads' = {} /\ projects' = {<<l.tenant, p>> : p \in Shell!Range(list)}
      /\ UNCHANGED <<revoked, tenants, selected, discoveries, reloads, shellLate, shellCount>>
  BY <1>3 DEF Shell!ProjectsArrive
<1>5. projects' \subseteq Shell!Scope /\ \A p \in projects' : Shell!SelectedIs(p[1])'
  <2>1. \A p \in projects' : p \in Shell!Scope /\ p[1] = l.tenant
    BY <1>2, <1>4 DEF Shell!Range, Shell!Scope
  <2>2. Shell!SelectedIs(l.tenant)'
    BY <1>3, <1>4 DEF Shell!SelectedIs
  <2> QED BY <2>1, <2>2
<1> DEFINE wanted == IF l.project # NoPlace THEN {p \in Shell!Range(list) : p = l.project}
                     ELSE IF list = <<>> THEN {} ELSE {list[1]}
           base == [Shell!Route EXCEPT !.tenant = l.tenant]
<1>6. CASE wanted = {}
  <2> DEFINE r == [base EXCEPT !.project = NoPlace]
  <2>1. /\ shellStatus' = "empty"
        /\ history' \in {history, Shell!Committed(history, r, l.mode)}
        /\ UNCHANGED <<context, workspace, explorer>>
    BY <1>6 DEF Shell!ProjectsArrive
  <2>2. r \in Shell!AppRoute
    BY <1>1, <1>2 DEF Shell!AppRoute
  <2>3. ShellIsHistory(history')
    BY <1>1, <2>1, <2>2, ShellCommittedIs
  <2>4. ShellHeld(explorer, Shell!Route, context) => ShellHeld(explorer', Shell!Route', context')
    <3> SUFFICES ASSUME ShellHeld(explorer, Shell!Route, context), explorer \in ShellExplorer
                 PROVE  ShellHeld(explorer', Shell!Route', context')
      BY <1>1 DEF ShellExplored
    <3>1. explorer.asked = NoneYet /\ explorer.snapshot = NoneYet
      BY <1>3 DEF ShellHeld, ShellExplorer, Shell!Scope, WebPlaneAssumptions,
         Shell!WebShellAssumption
    <3> QED BY <2>1, <3>1, ShellNothingHeld
  <2>5. ShellExplored'
    BY <1>1, <1>3, <1>4, <2>1, <2>4 DEF ShellExplored
  <2>6. ShellTyped'
    BY <1>1, <1>4, <1>5, <2>1 DEF ShellTyped
  <2>7. ShellChosen'
    BY <1>3, <1>4, <1>5, <2>1 DEF ShellChosen, Shell!ContextIsListed, Shell!AddressAgrees,
       Shell!LoadsAreSound
  <2> QED BY <2>3, <2>5, <2>6, <2>7, ShellPartsMakeInv
<1>7. CASE wanted # {}
  <2> DEFINE project == CHOOSE p \in wanted : TRUE
             to == <<l.tenant, project>>
             r == [base EXCEPT !.project = project]
  <2>1. project \in wanted
    BY <1>7
  <2>2. project \in Shell!Range(list) /\ (l.project # NoPlace => project = l.project)
    BY <2>1 DEF Shell!Range
  <2>3. to \in projects' /\ to \in Shell!Scope /\ to # NoneYet /\ project \in ShellProject
    <3>1. \A p \in Shell!Range(list) : p \in ShellProject
      BY DEF Shell!Range
    <3>4. project \in ShellProject
      <4> HIDE DEF project
      <4> QED BY <2>2, <3>1
    <3>2. to \in projects'
      BY <1>4, <2>2
    <3>3. to \in Shell!Scope
      BY <1>5, <3>2
    <3> QED BY <3>2, <3>3, <3>4 DEF WebPlaneAssumptions, Shell!WebShellAssumption
  <2>4. /\ shellStatus' = "ready" /\ context' = to
        /\ history' = Shell!Committed(history, r, l.mode)
        /\ Shell!WorkspaceEffect(to)
        /\ explorer' = Shell!ExplorerEffect(explorer, to, Shell!Route.view, Shell!Route)
    BY <1>7 DEF Shell!ProjectsArrive
  <2>5. r \in Shell!AppRoute /\ r.tenant = l.tenant /\ r.project = project
    BY <1>1, <1>2, <2>3 DEF Shell!AppRoute
  <2> HIDE DEF project, to, r, wanted
  <2>6. ShellIsHistory(history') /\ (l.mode = "none" => Shell!Route' = Shell!Route) /\ (l.mode # "none" => Shell!Route' = Shell!Normal(r))
    BY <1>1, <2>4, <2>5, ShellCommittedIs DEF ShellRouteIn, Shell!Route
  <2>7. ShellExplored'
    <3>1. /\ explorer' \in ShellExplorer /\ explorer'.asked = NoneYet
          /\ explorer'.listing \in {NoneYet, to} /\ explorer'.snapshot \in {explorer.snapshot, NoneYet}
      BY <1>1, <1>3, <2>3, <2>4, ShellEffectIs DEF ShellExplored
    <3>2. ShellHeld(explorer, Shell!Route, context) => ShellHeld(explorer', Shell!Route', context')
      <4> SUFFICES ASSUME ShellHeld(explorer, Shell!Route, context), explorer \in ShellExplorer
                   PROVE  ShellHeld(explorer', Shell!Route', context')
        BY <1>1 DEF ShellExplored
      <4>1. explorer.snapshot = NoneYet
        BY <1>3 DEF ShellHeld, ShellExplorer, Shell!Scope, WebPlaneAssumptions,
           Shell!WebShellAssumption
      <4> QED BY <3>1, <4>1, ShellNothingHeld
    <3>3. Shell!Route'.view = Shell!Route.view
      <4>1. r.view = Shell!Route.view
        BY <1>1 DEF r, Shell!AppRoute
      <4> QED BY <2>5, <2>6, <4>1, ShellParseNormal
    <3>4. explorer'.listing = IF Shell!Route.view = "explorer" THEN to ELSE NoneYet
      BY <1>1, <1>3, <2>3, <2>4, ShellEffectIs DEF ShellExplored
    <3> QED BY <1>1, <1>4, <2>4, <3>1, <3>2, <3>3, <3>4 DEF ShellExplored
  <2>8. ShellTyped'
    <3>1. workspace' = [shown |-> NoneYet, asked |-> to]
      BY <1>3, <2>3, <2>4 DEF Shell!WorkspaceEffect
    <3> QED BY <1>1, <1>4, <1>5, <2>3, <2>4, <3>1 DEF ShellTyped
  <2>9. ShellChosen'
    <3>1. Shell!ContextIsListed'
      <4>1. Shell!SelectedIs(to[1])'
        BY <1>3, <1>4 DEF Shell!SelectedIs, to
      <4> QED BY <2>3, <2>4, <4>1 DEF Shell!ContextIsListed, Shell!SelectedIs
    <3>2. Shell!Route'.tenant # NoPlace => Shell!Route'.tenant = to[1] /\ Shell!Route'.project \in {NoPlace, to[2]}
      <4>1. CASE l.mode = "none"
        BY <1>3, <2>2, <2>6, <4>1 DEF to
      <4>2. CASE l.mode # "none"
        <5>1. Shell!Normal(r).tenant = r.tenant /\ Shell!Normal(r).project \in {NoPlace, r.project}
          BY <2>5, ShellParseNormal
        <5> QED BY <2>5, <2>6, <4>2, <5>1 DEF to
      <4> QED BY <4>1, <4>2
    <3>3. Shell!AddressAgrees' /\ Shell!LoadsAreSound'
      BY <1>4, <2>4, <3>2 DEF Shell!AddressAgrees, Shell!LoadsAreSound
    <3> QED BY <1>5, <3>1, <3>3 DEF ShellChosen
  <2> QED BY <2>6, <2>7, <2>8, <2>9, ShellPartsMakeInv
<1> QED BY <1>6, <1>7

(* What the user does.                                                     *)
LEMMA ShellSelectTenantKeeps ==
    ASSUME WebPlaneAssumptions, Shell!WebShellInv, NEW tenant \in ShellTenant,
           Shell!selectPlatformTenant(tenant)
    PROVE  Shell!WebShellInv'
<1>1. ShellIsHistory(history) /\ ShellTyped
  BY ShellStateIs
<1>2. Shell!Begin(tenant, NoPlace, "push") /\ UNCHANGED <<revoked, tenants, history, discoveries, reloads, shellLate>>
  BY DEF Shell!selectPlatformTenant
<1>3. shellCount' \in [acts : 0..MaxShellActs, failures : 0..MaxShellFailures]
  BY <1>1, ShellActsCount DEF Shell!selectPlatformTenant
<1>4. ShellIsHistory(history') /\ tenants' \in {<<>>, Tenants}
  BY <1>1, <1>2 DEF ShellTyped
<1> QED BY <1>2, <1>3, <1>4, ShellBeginKeeps

LEMMA ShellSelectProjectKeeps ==
    ASSUME WebPlaneAssumptions, Shell!WebShellInv, NEW project \in ShellProject,
           Shell!selectPlatformProject(project)
    PROVE  Shell!WebShellInv'
<1>1. /\ ShellIsHistory(history) /\ ShellTyped /\ ShellExplored /\ ShellChosen
      /\ Shell!Route \in Shell!AppRoute /\ Shell!Normal(Shell!Route) = Shell!Route /\ Shell!Route = ShellRouteIn(history)
  BY ShellStateIs
<1> DEFINE to == <<selected, project>>
           r == [Shell!Route EXCEPT !.tenant = selected, !.project = project]
<1>2. /\ selected # NoPlace /\ selected \in ShellTenant /\ context # to
      /\ context' = to /\ shellStatus' = "ready" /\ history' = Shell!Committed(history, r, "push")
      /\ Shell!WorkspaceEffect(to) /\ explorer' = Shell!ExplorerEffect(Shell!Invalidated, to, Shell!Route.view, Shell!Route)
      /\ UNCHANGED <<revoked, tenants, selected, projects, discoveries, loads, reloads, shellLate>>
  BY <1>1 DEF Shell!selectPlatformProject, ShellTyped
<1>3. to \in projects
  <2>1. PICK p \in projects : p[2] = project
    BY DEF Shell!selectPlatformProject
  <2>2. p[1] = selected /\ p \in ShellTenant \X ShellProject
    BY <1>1, <1>2 DEF ShellChosen, Shell!SelectedIs, ShellTyped, Shell!Scope
  <2> QED BY <2>1, <2>2
<1>4. to \in Shell!Scope /\ to # NoneYet
  BY <1>2 DEF WebPlaneAssumptions, Shell!WebShellAssumption, Shell!Scope
<1>5. loads = {}
  <2>1. projects # {}
    BY <1>3
  <2> QED BY <1>1, <2>1 DEF ShellChosen, Shell!LoadsAreSound
<1>6. r \in Shell!AppRoute /\ r.tenant = selected /\ r.project = project
  BY <1>1, <1>2 DEF Shell!AppRoute
<1> HIDE DEF to, r
<1>7. ShellIsHistory(history') /\ Shell!Route' = Shell!Normal(r)
  BY <1>1, <1>2, <1>6, ShellCommittedIs DEF ShellRouteIn, Shell!Route
<1>8. ShellExplored'
  <2> PICK e : e = Shell!Invalidated
    OBVIOUS
  <2>1. e \in ShellExplorer /\ e.snapshot = NoneYet /\ e.asked = NoneYet
    BY <1>1, ShellInvalidatedIs DEF ShellExplored
  <2>2. /\ explorer' \in ShellExplorer /\ explorer'.asked = NoneYet
        /\ explorer'.listing \in {NoneYet, to} /\ explorer'.snapshot = NoneYet
    BY <1>2, <1>4, <2>1, ShellEffectIs
  <2>3. ShellHeld(explorer', Shell!Route', context')
    BY <2>2, ShellNothingHeld
  <2>4. Shell!Route'.view = Shell!Route.view
    <3>1. r.view = Shell!Route.view
      BY <1>1 DEF r, Shell!AppRoute
    <3> QED BY <1>6, <1>7, <3>1, ShellParseNormal
  <2>5. explorer'.listing = IF Shell!Route.view = "explorer" THEN to ELSE NoneYet
    BY <1>2, <1>4, <2>1, ShellEffectIs
  <2> QED BY <1>1, <1>2, <2>2, <2>3, <2>4, <2>5 DEF ShellExplored
<1>9. ShellTyped'
  <2>1. shellCount' \in [acts : 0..MaxShellActs, failures : 0..MaxShellFailures]
    BY <1>1, ShellActsCount DEF Shell!selectPlatformProject
  <2>2. workspace' = [shown |-> NoneYet, asked |-> to]
    BY <1>2 DEF Shell!WorkspaceEffect
  <2> QED BY <1>1, <1>2, <1>4, <2>1, <2>2 DEF ShellTyped
<1>10. ShellChosen'
  <2>1. Shell!ContextIsListed'
    BY <1>2, <1>3 DEF Shell!ContextIsListed, to
  <2>2. Shell!Normal(r).tenant = selected /\ Shell!Normal(r).project \in {NoPlace, project}
    BY <1>6, ShellParseNormal
  <2>3. Shell!AddressAgrees' /\ Shell!LoadsAreSound'
    BY <1>2, <1>5, <1>7, <2>2 DEF Shell!AddressAgrees, Shell!LoadsAreSound, to
  <2>4. \A p \in projects' : Shell!SelectedIs(p[1])'
    BY <1>1, <1>2 DEF ShellChosen, Shell!SelectedIs
  <2> QED BY <2>1, <2>3, <2>4 DEF ShellChosen
<1> QED BY <1>7, <1>8, <1>9, <1>10, ShellPartsMakeInv

(* A step in the view, of the context there is: what was chosen stays, so  *)
(* that it is left to see what the explorer holds for the new address.     *)
LEMMA ShellViewStepKeeps ==
    ASSUME WebPlaneAssumptions, Shell!WebShellInv, ShellIsHistory(history'),
           UNCHANGED <<revoked, tenants, selected, projects, context, shellStatus, discoveries,
           loads>>,
           reloads' \subseteq reloads,
           workspace' \in [shown : {NoneYet, context}, asked : {NoneYet, context}],
           shellCount' \in [acts : 0..MaxShellActs, failures : 0..MaxShellFailures],
           \/ Shell!Route'.tenant = NoPlace
           \/ Shell!Route'.tenant = Shell!Route.tenant /\ Shell!Route'.project = Shell!Route.project,
           explorer' \in ShellExplorer, explorer'.listing \in {NoneYet, context},
           shellLate' \in BOOLEAN,
           explorer'.listing # NoneYet => Shell!Route'.view = "explorer",
           ~shellLate' => ShellHeld(explorer', Shell!Route', context)
    PROVE  Shell!WebShellInv'
<1>1. ShellIsHistory(history) /\ ShellTyped /\ ShellExplored /\ ShellChosen
  BY ShellStateIs
<1>2. ShellTyped'
  BY <1>1 DEF ShellTyped
<1>3. ShellExplored'
  BY DEF ShellExplored
<1>4. ShellChosen'
  <2>1. Shell!ContextIsListed' /\ \A p \in projects' : Shell!SelectedIs(p[1])'
    BY <1>1 DEF ShellChosen, Shell!ContextIsListed, Shell!SelectedIs
  <2>2. Shell!AddressAgrees'
    BY <1>1 DEF ShellChosen, Shell!AddressAgrees
  <2>3. Shell!LoadsAreSound'
    BY <1>1 DEF ShellChosen, Shell!LoadsAreSound, Shell!SelectedIs
  <2> QED BY <2>1, <2>2, <2>3 DEF ShellChosen
<1> QED BY <1>2, <1>3, <1>4, ShellPartsMakeInv

LEMMA ShellEffectHeld ==
    ASSUME WebPlaneAssumptions, Shell!WebShellInv, NEW e \in ShellExplorer, NEW r,
           e.listing = explorer.listing,
           r.view = Shell!Route.view /\ ~shellLate => ShellHeld(e, r, context),
           Shell!Route.view # "explorer" /\ ~shellLate => e.snapshot = NoneYet,
           NEW x, x = Shell!ExplorerEffect(e, context, r.view, Shell!Route)
    PROVE  /\ x \in ShellExplorer /\ x.listing \in {NoneYet, context}
           /\ x.listing # NoneYet => r.view = "explorer"
           /\ ~shellLate => ShellHeld(x, r, context)
<1>1. /\ ShellTyped /\ ShellExplored
  BY ShellStateIs
<1>2. context \in Shell!Scope \cup {NoneYet}
  BY <1>1 DEF ShellTyped
<1>3. CASE r.view = Shell!Route.view
  BY <1>1, <1>2, <1>3, ShellEffectIs DEF ShellExplored
<1>4. CASE r.view # Shell!Route.view
  <2>1. /\ x \in ShellExplorer /\ x.asked = NoneYet
        /\ x.listing = (IF r.view = "explorer" THEN context ELSE NoneYet)
        /\ x.snapshot = (IF r.view = "explorer" /\ context # NoneYet THEN e.snapshot ELSE NoneYet)
    BY <1>2, <1>4, ShellEffectIs
  <2>2. ~shellLate => x.snapshot = NoneYet
    BY <1>4, <2>1
  <2> QED BY <2>1, <2>2, ShellNothingHeld
<1> QED BY <1>3, <1>4

\* The explorer that goes with an asset of the address.
LEMMA ShellLoadHeld ==
    ASSUME WebPlaneAssumptions, Shell!WebShellInv, context # NoneYet, NEW asset \in ShellAsset,
           NEW r, r.view = "explorer", ~r.search, r.asset \in {NoPlace, asset}, ~shellLate,
           NEW e \in ShellExplorer, e.snapshot = explorer.snapshot,
           NEW x, x = Shell!LoadAsset(e, context, asset)
    PROVE  ShellHeld(x, r, context)
<1>1. ShellHeld(explorer, Shell!Route, context) /\ context \in Shell!Scope
  BY ShellStateIs DEF ShellExplored, ShellTyped
<1>2. /\ x.asset = asset /\ x.snapshot = explorer.snapshot
      /\ x.asked = <<context, asset>> /\ x.busy
  BY <1>1, ShellLoadAssetIs
<1>3. explorer.snapshot # NoneYet => explorer.snapshot[1] = context
  BY <1>1 DEF ShellHeld
<1> QED BY <1>2, <1>3, ShellLoadedHeld DEF ShellNames

LEMMA ShellRestoreKeeps ==
    ASSUME WebPlaneAssumptions, Shell!WebShellInv, NEW i \in DOMAIN history.entries,
           Shell!restoreRoute(i)
    PROVE  Shell!WebShellInv'
<1>1. /\ ShellIsHistory(history) /\ ShellTyped /\ ShellExplored
  BY ShellStateIs
<1> PICK r : r = history.entries[i]
  OBVIOUS
<1>2. r \in Shell!AppRoute /\ Shell!Normal(r) = r
  BY <1>1 DEF ShellIsHistory, ShellHistory
<1>3. history' = [history EXCEPT !.at = i] /\ UNCHANGED <<revoked, tenants, discoveries, reloads, shellLate>>
  BY DEF Shell!restoreRoute
<1>4. ShellIsHistory(history') /\ Shell!Route' = r
  <2>1. i \in Nat
    BY <1>1 DEF ShellIsHistory, ShellHistory
  <2> QED BY <1>1, <1>3, <2>1 DEF ShellIsHistory, ShellHistory, Shell!Route
<1>5. shellCount' \in [acts : 0..MaxShellActs, failures : 0..MaxShellFailures]
  BY <1>1, ShellActsCount DEF Shell!restoreRoute
<1>6. CASE r.tenant # NoPlace
  <2>1. Shell!Begin(r.tenant, r.project, "none")
    BY <1>6 DEF Shell!restoreRoute
  <2>2. r.tenant \in ShellTenant /\ r.project \in ShellProject \cup {NoPlace}
    BY <1>2, <1>6 DEF Shell!AppRoute
  <2>3. tenants' \in {<<>>, Tenants} /\ discoveries' \subseteq discoveries
    BY <1>1, <1>3 DEF ShellTyped
  <2> QED BY <1>3, <1>4, <1>5, <2>1, <2>2, <2>3, ShellBeginKeeps
<1>7. CASE r.tenant = NoPlace
  <2> DEFINE kept == IF r.search THEN Shell!Invalidated
                     ELSE IF r.asset # NoPlace THEN Shell!LoadAsset(explorer, context, r.asset)
                     ELSE explorer
  <2>1. /\ explorer' = Shell!ExplorerEffect(kept, context, r.view, Shell!Route)
        /\ UNCHANGED <<selected, projects, context, shellStatus, loads, workspace>>
    BY <1>7 DEF Shell!restoreRoute
  <2> PICK e : e = kept
    OBVIOUS
  <2>2. /\ e \in ShellExplorer /\ e.listing = explorer.listing
        /\ r.view = Shell!Route.view /\ ~shellLate => ShellHeld(e, r, context)
        /\ Shell!Route.view # "explorer" /\ ~shellLate => e.snapshot = NoneYet
    <3>1. explorer \in ShellExplorer /\ (~shellLate => ShellHeld(explorer, Shell!Route, context)) /\ context \in Shell!Scope \cup {NoneYet}
      BY <1>1 DEF ShellExplored, ShellTyped
    <3>2. Shell!Route.view # "explorer" /\ ~shellLate => explorer.snapshot = NoneYet /\ explorer.asked = NoneYet
      BY <3>1 DEF ShellHeld
    <3>3. CASE r.search
      <4>1. e \in ShellExplorer /\ e.listing = explorer.listing /\ e.asked = NoneYet /\ e.snapshot = NoneYet
        BY <3>1, <3>3, ShellInvalidatedIs
      <4> QED BY <4>1, ShellNothingHeld
    <3>4. CASE ~r.search /\ r.asset # NoPlace /\ context # NoneYet
      <4>1. r.view = "explorer" /\ r.asset \in ShellAsset
        BY <1>2, <3>4, ShellNormalHolds DEF Shell!AppRoute
      <4>2. e = Shell!LoadAsset(explorer, context, r.asset)
        BY <3>4
      <4>3. e \in ShellExplorer /\ e.listing = explorer.listing /\ e.snapshot = explorer.snapshot
        BY <3>1, <3>4, <4>1, <4>2, ShellLoadAssetIs
      <4>4. ~shellLate => ShellHeld(e, r, context)
        BY <3>1, <3>4, <4>1, <4>2, ShellLoadHeld
      <4> QED BY <3>2, <4>3, <4>4
    <3>5. CASE ~r.search /\ r.asset # NoPlace /\ context = NoneYet
      <4>1. e = explorer
        BY <3>5 DEF Shell!LoadAsset
      <4>2. ~shellLate => explorer.snapshot = NoneYet /\ explorer.asked = NoneYet
        BY <3>1, <3>5 DEF ShellHeld, ShellExplorer, Shell!Scope, WebPlaneAssumptions,
           Shell!WebShellAssumption
      <4> QED BY <3>1, <4>1, <4>2, ShellNothingHeld
    <3>6. CASE ~r.search /\ r.asset = NoPlace
      <4>1. e = explorer
        BY <3>6
      <4>2. r.view = Shell!Route.view /\ ~shellLate => ShellHeld(explorer, r, context)
        BY <3>1, <3>6 DEF ShellHeld, ShellNames
      <4> QED BY <3>1, <3>2, <4>1, <4>2
    <3> QED BY <3>3, <3>4, <3>5, <3>6
  <2> HIDE DEF kept
  <2>3. /\ explorer' \in ShellExplorer /\ explorer'.listing \in {NoneYet, context}
        /\ explorer'.listing # NoneYet => r.view = "explorer"
        /\ ~shellLate => ShellHeld(explorer', r, context)
    BY <2>1, <2>2, ShellEffectHeld
  <2>4. reloads' \subseteq reloads /\ workspace' \in [shown : {NoneYet, context}, asked : {NoneYet, context}]
        /\ shellLate' \in BOOLEAN
    BY <1>1, <1>3, <2>1 DEF ShellTyped, ShellExplored
  <2> QED BY <1>3, <1>4, <1>5, <1>7, <2>1, <2>3, <2>4, ShellViewStepKeeps
<1> QED BY <1>6, <1>7

LEMMA ShellVisitKeeps ==
    ASSUME WebPlaneAssumptions, Shell!WebShellInv, NEW r \in Shell!AppRoute,
           r.tenant = Shell!Route.tenant, r.project = Shell!Route.project,
           NEW e \in ShellExplorer, e.listing = explorer.listing, Shell!Visit(r, e),
           r.view = Shell!Route.view /\ ~shellLate => ShellHeld(e, Shell!Normal(r), context),
           Shell!Route.view # "explorer" /\ ~shellLate => e.snapshot = NoneYet
    PROVE  Shell!WebShellInv'
<1>1. /\ ShellIsHistory(history) /\ ShellTyped /\ ShellExplored
      /\ Shell!Route \in Shell!AppRoute /\ Shell!Normal(Shell!Route) = Shell!Route /\ Shell!Route = ShellRouteIn(history)
  BY ShellStateIs
<1>2. /\ history' = Shell!Committed(history, r, "push") /\ explorer' = Shell!ExplorerEffect(e, context, r.view, Shell!Route)
      /\ UNCHANGED <<revoked, tenants, selected, projects, context, shellStatus, discoveries, loads,
                     workspace, reloads, shellLate>>
  BY DEF Shell!Visit
<1>3. ShellIsHistory(history') /\ Shell!Route' = Shell!Normal(r)
  BY <1>1, <1>2, ShellCommittedIs DEF ShellRouteIn, Shell!Route
<1> PICK n : n = Shell!Normal(r)
  OBVIOUS
<1>4. n.view = r.view /\ n.tenant = Shell!Route.tenant /\ n.project = Shell!Route.project
  BY <1>1, ShellParseNormal, ShellNormalHolds
<1>5. /\ explorer' \in ShellExplorer /\ explorer'.listing \in {NoneYet, context}
      /\ explorer'.listing # NoneYet => n.view = "explorer"
      /\ ~shellLate => ShellHeld(explorer', n, context)
  BY <1>2, <1>4, ShellEffectHeld
<1>6. shellCount' \in [acts : 0..MaxShellActs, failures : 0..MaxShellFailures]
  BY <1>1, ShellActsCount DEF Shell!Visit
<1>7. reloads' \subseteq reloads /\ workspace' \in [shown : {NoneYet, context}, asked : {NoneYet, context}]
      /\ shellLate' \in BOOLEAN
  BY <1>1, <1>2 DEF ShellTyped, ShellExplored
<1> QED BY <1>2, <1>3, <1>4, <1>5, <1>6, <1>7, ShellViewStepKeeps

\* The address with another asset, and the search left.
LEMMA ShellRouteSearched ==
    ASSUME WebPlaneAssumptions, Shell!WebShellInv,
           NEW r, r = [view |-> "explorer", tenant |-> Shell!Route.tenant, project |-> Shell!Route.project,
                       asset |-> Shell!Route.asset, search |-> TRUE]
    PROVE  r \in Shell!AppRoute /\ r.tenant = Shell!Route.tenant /\ r.project = Shell!Route.project
BY ShellStateIs DEF Shell!AppRoute

LEMMA ShellRouteShown ==
    ASSUME WebPlaneAssumptions, Shell!WebShellInv, NEW r \in Shell!AppRoute, r.search = FALSE,
           r.tenant = Shell!Route.tenant, r.project = Shell!Route.project, NEW n,
           n = Shell!Normal(r)
    PROVE  /\ n.view = r.view /\ n.search = FALSE /\ n.asset \in {NoPlace, r.asset}
           /\ n.tenant = Shell!Route.tenant /\ n.project = Shell!Route.project
<1>1. Shell!Route \in Shell!AppRoute /\ Shell!Normal(Shell!Route) = Shell!Route
  BY ShellStateIs
<1>3. Shell!Normal(r).view = r.view /\ Shell!Normal(r).search = FALSE /\ Shell!Normal(r).asset \in {NoPlace, r.asset}
  BY ShellParseNormal
<1>4. /\ Shell!Normal(r).tenant = Shell!Route.tenant /\ Shell!Normal(r).project = Shell!Route.project
  BY <1>1, ShellParseNormal, ShellNormalHolds
<1> QED BY <1>3, <1>4

LEMMA ShellShowViewKeeps ==
    ASSUME WebPlaneAssumptions, Shell!WebShellInv, NEW v \in {"explorer", "other"},
           Shell!showView(v)
    PROVE  Shell!WebShellInv'
<1>1. /\ ShellExplored /\ Shell!Route \in Shell!AppRoute
  BY ShellStateIs
<1> PICK r : r = [Shell!Route EXCEPT !.view = v, !.asset = explorer.asset, !.search = FALSE]
  OBVIOUS
<1>3. explorer \in ShellExplorer /\ explorer.asset \in ShellAsset \cup {NoPlace}
  BY <1>1 DEF ShellExplored, ShellExplorer
<1>2. /\ r \in Shell!AppRoute /\ r.tenant = Shell!Route.tenant /\ r.project = Shell!Route.project /\ r.view = v
      /\ r.asset = explorer.asset /\ r.search = FALSE
  BY <1>1, <1>3 DEF Shell!AppRoute
<1>4. Shell!Visit(r, explorer)
  BY DEF Shell!showView
<1>5. ~shellLate => ShellHeld(explorer, Shell!Route, context)
  BY <1>1 DEF ShellExplored
<1> PICK n : n = Shell!Normal(r)
  OBVIOUS
<1>6. /\ r \in Shell!AppRoute /\ r.tenant = Shell!Route.tenant /\ r.project = Shell!Route.project /\ r.view = v
      /\ n.view = v /\ ~n.search /\ n.asset \in {NoPlace, explorer.asset}
  BY <1>2, ShellRouteShown
<1>7. r.view = Shell!Route.view /\ ~shellLate => ShellHeld(explorer, n, context)
  BY <1>5, <1>6 DEF ShellHeld, ShellNames
<1>8. Shell!Route.view # "explorer" /\ ~shellLate => explorer.snapshot = NoneYet
  BY <1>5 DEF ShellHeld
<1> QED BY <1>3, <1>4, <1>6, <1>7, <1>8, ShellVisitKeeps

LEMMA ShellOpenAssetKeeps ==
    ASSUME WebPlaneAssumptions, Shell!WebShellInv, NEW asset \in ShellAsset,
           Shell!openAsset(asset)
    PROVE  Shell!WebShellInv'
<1>1. /\ ShellExplored /\ ShellTyped /\ Shell!Route \in Shell!AppRoute
  BY ShellStateIs
<1> PICK r : r = [Shell!Route EXCEPT !.view = "explorer", !.asset = asset, !.search = FALSE]
  OBVIOUS
<1>2. /\ r \in Shell!AppRoute /\ r.tenant = Shell!Route.tenant /\ r.project = Shell!Route.project
      /\ r.view = "explorer" /\ r.asset = asset /\ r.search = FALSE
  BY <1>1 DEF Shell!AppRoute
<1> PICK e : e = Shell!LoadAsset(explorer, context, asset)
  OBVIOUS
<1>3. context # NoneYet /\ context \in Shell!Scope /\ Shell!Visit(r, e)
  BY <1>1 DEF Shell!openAsset, ShellTyped
<1>4. e \in ShellExplorer /\ e.listing = explorer.listing /\ e.snapshot = explorer.snapshot
  BY <1>1, <1>3, ShellLoadAssetIs DEF ShellExplored
<1> PICK n : n = Shell!Normal(r)
  OBVIOUS
<1>6. /\ r \in Shell!AppRoute /\ r.tenant = Shell!Route.tenant /\ r.project = Shell!Route.project
      /\ n.view = "explorer" /\ ~n.search /\ n.asset \in {NoPlace, asset}
  BY <1>2, ShellRouteShown
<1>7. ~shellLate => ShellHeld(e, n, context)
  BY <1>1, <1>3, <1>6, ShellLoadHeld DEF ShellExplored
<1>8. Shell!Route.view # "explorer" /\ ~shellLate => e.snapshot = NoneYet
  BY <1>1, <1>4 DEF ShellExplored, ShellHeld
<1> QED BY <1>3, <1>4, <1>6, <1>7, <1>8, ShellVisitKeeps

LEMMA ShellOpenSearchKeeps ==
    ASSUME WebPlaneAssumptions, Shell!WebShellInv, Shell!openDataExplorer
    PROVE  Shell!WebShellInv'
<1>1. /\ ShellExplored /\ Shell!Route \in Shell!AppRoute
  BY ShellStateIs
<1> PICK r : r = [Shell!Route EXCEPT !.view = "explorer", !.search = TRUE]
  OBVIOUS
<1> PICK e : e = Shell!Invalidated
  OBVIOUS
<1>2. r = [view |-> "explorer", tenant |-> Shell!Route.tenant, project |-> Shell!Route.project,
           asset |-> Shell!Route.asset, search |-> TRUE]
  BY <1>1 DEF Shell!AppRoute
<1>3. r \in Shell!AppRoute /\ r.tenant = Shell!Route.tenant /\ r.project = Shell!Route.project
  BY <1>2, ShellRouteSearched
<1>4. e \in ShellExplorer /\ e.listing = explorer.listing /\ e.asked = NoneYet /\ e.snapshot = NoneYet
  BY <1>1, ShellInvalidatedIs DEF ShellExplored
<1>5. Shell!Visit(r, e)
  BY DEF Shell!openDataExplorer
<1> QED BY <1>3, <1>4, <1>5, ShellNothingHeld, ShellVisitKeeps

LEMMA ShellCloseSearchKeeps ==
    ASSUME WebPlaneAssumptions, Shell!WebShellInv, NEW asset \in ShellAsset \cup {NoPlace},
           Shell!clearDataExplorer(asset)
    PROVE  Shell!WebShellInv'
<1>1. /\ ShellIsHistory(history) /\ ShellExplored /\ ShellTyped /\ Shell!Route \in Shell!AppRoute /\ Shell!Normal(Shell!Route) = Shell!Route
  BY ShellStateIs
<1> PICK r : r = [Shell!Route EXCEPT !.asset = asset, !.search = FALSE]
  OBVIOUS
<1>2. /\ Shell!Route.search /\ history' = Shell!Committed(history, r, "replace")
      /\ UNCHANGED <<revoked, tenants, selected, projects, context, shellStatus, discoveries, loads,
                     workspace, reloads, shellLate>>
  BY DEF Shell!clearDataExplorer
<1>3. Shell!Route.view = "explorer"
  BY <1>1, <1>2, ShellNormalHolds
<1>4. /\ r \in Shell!AppRoute /\ r.tenant = Shell!Route.tenant /\ r.project = Shell!Route.project
      /\ r.view = "explorer" /\ r.asset = asset /\ r.search = FALSE
  BY <1>1, <1>3 DEF Shell!AppRoute
<1> PICK n : n = Shell!Normal(r)
  OBVIOUS
<1>5. /\ r \in Shell!AppRoute /\ n.view = "explorer" /\ ~n.search /\ n.asset \in {NoPlace, asset}
      /\ n.tenant = Shell!Route.tenant /\ n.project = Shell!Route.project
  BY <1>4, ShellRouteShown
<1>6. ShellIsHistory(history') /\ Shell!Route' = n
  BY <1>1, <1>2, <1>5, ShellCommittedIs DEF ShellRouteIn, Shell!Route
<1>7. explorer \in ShellExplorer /\ context \in Shell!Scope \cup {NoneYet}
      /\ (~shellLate => explorer.asked = NoneYet /\ explorer.snapshot = NoneYet)
  BY <1>1, <1>2 DEF ShellExplored, ShellHeld, ShellTyped
<1>8. explorer' \in ShellExplorer /\ explorer'.listing = explorer.listing /\ (~shellLate => ShellHeld(explorer', n, context))
  <2>1. CASE asset # NoPlace /\ context # NoneYet
    <3>1. explorer' = Shell!LoadAsset(explorer, context, asset)
      BY <2>1 DEF Shell!clearDataExplorer
    <3>2. explorer' \in ShellExplorer /\ explorer'.listing = explorer.listing
      BY <1>7, <2>1, <3>1, ShellLoadAssetIs
    <3>3. ~shellLate => ShellHeld(explorer', n, context)
      BY <1>5, <1>7, <2>1, <3>1, ShellLoadHeld
    <3> QED BY <3>2, <3>3
  <2>2. CASE ~(asset # NoPlace /\ context # NoneYet)
    BY <1>7, <2>2, ShellNothingHeld DEF Shell!clearDataExplorer
  <2> QED BY <2>1, <2>2
<1>9. shellCount' \in [acts : 0..MaxShellActs, failures : 0..MaxShellFailures]
  BY <1>1, ShellActsCount DEF Shell!clearDataExplorer
<1>10. reloads' \subseteq reloads /\ workspace' \in [shown : {NoneYet, context}, asked : {NoneYet, context}]
       /\ shellLate' \in BOOLEAN /\ explorer'.listing \in {NoneYet, context}
  BY <1>1, <1>2, <1>8 DEF ShellTyped, ShellExplored
<1> QED BY <1>2, <1>5, <1>6, <1>8, <1>9, <1>10, ShellViewStepKeeps

\* An asset that is loaded is put in the address, if assets are shown.
LEMMA ShellRouteOfAssetIs ==
    ASSUME WebPlaneAssumptions, Shell!WebShellInv, NEW c, NEW asset \in ShellAsset,
           history' = Shell!RouteOfAsset(history, c, asset)
    PROVE  /\ ShellIsHistory(history') /\ Shell!Route'.tenant = Shell!Route.tenant /\ Shell!Route'.project = Shell!Route.project
           /\ Shell!Route'.view = Shell!Route.view /\ Shell!Route'.search = Shell!Route.search
           /\ c # NoneYet /\ Shell!Route.view = "explorer" /\ ~Shell!Route.search => Shell!Route'.asset \in {NoPlace, asset}
<1>1. ShellIsHistory(history) /\ Shell!Route \in Shell!AppRoute
  BY ShellStateIs
<1>2. CASE ~(c # NoneYet /\ Shell!Route.view = "explorer" /\ ~Shell!Route.search)
  <2>1. history' = history
    BY <1>2 DEF Shell!RouteOfAsset, Shell!Route
  <2> QED BY <1>1, <1>2, <2>1 DEF Shell!Route
<1>3. CASE c # NoneYet /\ Shell!Route.view = "explorer" /\ ~Shell!Route.search
  <2> PICK r : r = [Shell!Route EXCEPT !.asset = asset]
    OBVIOUS
  <2>1. /\ r \in Shell!AppRoute /\ r.tenant = Shell!Route.tenant /\ r.project = Shell!Route.project
        /\ r.view = "explorer" /\ r.asset = asset /\ r.search = FALSE
    BY <1>1, <1>3 DEF Shell!AppRoute
  <2>2. history' = Shell!Committed(history, r, "replace")
    BY <1>3 DEF Shell!RouteOfAsset, Shell!Route
  <2> PICK n : n = Shell!Normal(r)
    OBVIOUS
  <2>3. /\ r \in Shell!AppRoute /\ n.view = "explorer" /\ (n.search = FALSE) /\ n.asset \in {NoPlace, asset}
        /\ n.tenant = Shell!Route.tenant /\ n.project = Shell!Route.project
    BY <2>1, ShellRouteShown
  <2>4. ShellIsHistory(history') /\ Shell!Route' = n
    BY <1>1, <2>2, <2>3, ShellCommittedIs DEF ShellRouteIn, Shell!Route
  <2>5. Shell!Route.search = FALSE
    BY <1>1, <1>3 DEF Shell!AppRoute
  <2> QED BY <1>3, <2>3, <2>4, <2>5
<1> QED BY <1>2, <1>3

LEMMA ShellRetryKeeps ==
    ASSUME WebPlaneAssumptions, Shell!WebShellInv, Shell!retryAsset PROVE Shell!WebShellInv'
<1>1. /\ ShellIsHistory(history) /\ ShellExplored /\ ShellTyped
  BY ShellStateIs
<1> PICK asset : asset = explorer.asset
  OBVIOUS
<1>2. /\ Shell!Route.view = "explorer" /\ ~Shell!Route.search /\ asset \in ShellAsset
      /\ explorer' = Shell!LoadAsset(explorer, context, asset) /\ history' = Shell!RouteOfAsset(history, context, asset)
      /\ UNCHANGED <<revoked, tenants, selected, projects, context, shellStatus, discoveries, loads,
                     workspace, reloads, shellLate>>
  BY <1>1 DEF Shell!retryAsset, ShellExplored, ShellExplorer
<1>3. /\ ShellIsHistory(history') /\ Shell!Route'.tenant = Shell!Route.tenant /\ Shell!Route'.project = Shell!Route.project
      /\ Shell!Route'.view = "explorer" /\ ~Shell!Route'.search
      /\ context # NoneYet => Shell!Route'.asset \in {NoPlace, asset}
  BY <1>2, ShellRouteOfAssetIs
<1>4. explorer' \in ShellExplorer /\ explorer'.listing = explorer.listing /\ (~shellLate => ShellHeld(explorer', Shell!Route', context))
  <2>1. CASE context = NoneYet
    <3>1. explorer' = explorer
      BY <1>2, <2>1 DEF Shell!LoadAsset
    <3>2. ~shellLate => explorer.asked = NoneYet /\ explorer.snapshot = NoneYet
      BY <1>1, <2>1 DEF ShellExplored, ShellHeld, ShellExplorer, Shell!Scope,
         WebPlaneAssumptions, Shell!WebShellAssumption
    <3> QED BY <1>1, <3>1, <3>2, ShellNothingHeld DEF ShellExplored
  <2>2. CASE context # NoneYet
    <3>1. context \in Shell!Scope /\ explorer \in ShellExplorer
      BY <1>1, <2>2 DEF ShellTyped, ShellExplored
    <3>2. explorer' \in ShellExplorer /\ explorer'.listing = explorer.listing
      BY <1>2, <3>1, ShellLoadAssetIs
    <3>3. ~shellLate => ShellHeld(explorer', Shell!Route', context)
      <4> PICK x, n : x = explorer' /\ n = Shell!Route'
        OBVIOUS
      <4>1. /\ x = Shell!LoadAsset(explorer, context, asset) /\ n.view = "explorer" /\ ~n.search
            /\ n.asset \in {NoPlace, asset}
        BY <1>2, <1>3, <2>2
      <4> QED BY <1>2, <2>2, <3>1, <4>1, ShellLoadHeld
    <3> QED BY <3>2, <3>3
  <2> QED BY <2>1, <2>2
<1>5. shellCount' \in [acts : 0..MaxShellActs, failures : 0..MaxShellFailures]
  BY <1>1, ShellActsCount DEF Shell!retryAsset
<1>6. reloads' \subseteq reloads /\ workspace' \in [shown : {NoneYet, context}, asked : {NoneYet, context}]
      /\ shellLate' \in BOOLEAN /\ explorer'.listing \in {NoneYet, context}
  BY <1>1, <1>2, <1>4 DEF ShellTyped, ShellExplored
<1> QED BY <1>2, <1>3, <1>4, <1>5, <1>6, ShellViewStepKeeps

(* What was asked for arrives.                                             *)
LEMMA ShellAnswerCounts ==
    ASSUME WebPlaneAssumptions, Shell!WebShellInv, NEW ok \in BOOLEAN, Shell!Answered(ok)
    PROVE  shellCount' \in [acts : 0..MaxShellActs, failures : 0..MaxShellFailures]
<1>1. ShellTyped
  BY ShellStateIs
<1>2. Shell!Fails \/ UNCHANGED shellCount
  BY DEF Shell!Answered
<1> QED BY <1>1, <1>2, ShellActsCount

LEMMA ShellWorkspaceKeeps ==
    ASSUME WebPlaneAssumptions, Shell!WebShellInv, NEW ok \in BOOLEAN,
           Shell!WorkspaceArrives(ok)
    PROVE  Shell!WebShellInv'
<1>1. /\ ShellIsHistory(history) /\ ShellTyped /\ ShellExplored
  BY ShellStateIs
<1>2. UNCHANGED <<revoked, tenants, selected, projects, context, shellStatus, history, discoveries,
                  loads, explorer, reloads, shellLate>>
      /\ workspace' = [shown |-> IF ok THEN workspace.asked ELSE NoneYet, asked |-> NoneYet]
  BY DEF Shell!WorkspaceArrives
<1>3. shellCount' \in [acts : 0..MaxShellActs, failures : 0..MaxShellFailures]
  BY ShellAnswerCounts DEF Shell!WorkspaceArrives
<1>4. workspace' \in [shown : {NoneYet, context}, asked : {NoneYet, context}]
  <2>1. workspace.asked \in {NoneYet, context}
    BY <1>1 DEF ShellTyped
  <2> QED BY <1>2, <2>1
<1>5. Shell!Route' = Shell!Route /\ ShellIsHistory(history')
  BY <1>1, <1>2 DEF Shell!Route
<1>6. ShellExplored'
  BY <1>1, <1>2, <1>5 DEF ShellExplored
<1> QED BY <1>1, <1>2, <1>3, <1>4, <1>5, <1>6, ShellViewStepKeeps DEF ShellExplored

LEMMA ShellSnapshotKeeps ==
    ASSUME WebPlaneAssumptions, Shell!WebShellInv, NEW ok \in BOOLEAN, Shell!SnapshotArrives(ok)
    PROVE  Shell!WebShellInv'
<1>1. /\ ShellIsHistory(history) /\ ShellTyped /\ ShellExplored
  BY ShellStateIs
<1>2. UNCHANGED <<revoked, tenants, selected, projects, context, shellStatus, history, discoveries,
                  loads, workspace, reloads, shellLate>> /\ explorer.asked # NoneYet
  BY DEF Shell!SnapshotArrives
<1>3. shellCount' \in [acts : 0..MaxShellActs, failures : 0..MaxShellFailures]
  BY ShellAnswerCounts DEF Shell!SnapshotArrives
<1> PICK x : x = explorer'
  OBVIOUS
<1>4. /\ x \in ShellExplorer /\ x.listing = explorer.listing /\ x.asset = explorer.asset
      /\ x.asked = NoneYet /\ x.snapshot = IF ok THEN explorer.asked ELSE NoneYet
  <2>1. x = [explorer EXCEPT !.snapshot = IF ok THEN explorer.asked ELSE NoneYet,
                             !.asked = NoneYet, !.busy = FALSE]
    BY DEF Shell!SnapshotArrives
  <2> QED BY <1>1, <2>1 DEF ShellExplorer, ShellExplored
<1>5. ~shellLate => ShellHeld(x, Shell!Route, context)
  BY <1>1, <1>2, <1>4 DEF ShellExplored, ShellHeld
<1>6. Shell!Route' = Shell!Route /\ ShellIsHistory(history') /\ reloads' \subseteq reloads
      /\ workspace' \in [shown : {NoneYet, context}, asked : {NoneYet, context}] /\ shellLate' \in BOOLEAN
  BY <1>1, <1>2 DEF Shell!Route, ShellTyped, ShellExplored
<1>7. x.listing \in {NoneYet, context} /\ (x.listing # NoneYet => Shell!Route.view = "explorer")
  BY <1>1, <1>4 DEF ShellExplored
<1>8. (~shellLate' => ShellHeld(explorer', Shell!Route', context)) /\ explorer' \in ShellExplorer /\ explorer'.listing \in {NoneYet, context}
      /\ (explorer'.listing # NoneYet => Shell!Route'.view = "explorer")
  BY <1>2, <1>4, <1>5, <1>6, <1>7
<1> QED BY <1>2, <1>3, <1>6, <1>8, ShellViewStepKeeps

LEMMA ShellLoadListing ==
    ASSUME WebPlaneAssumptions, NEW e \in ShellExplorer, e.listing = NoneYet,
           NEW c \in Shell!Scope, NEW a \in ShellAsset
    PROVE  Shell!LoadAsset(e, c, a) \in ShellExplorer /\ Shell!LoadAsset(e, c, a).listing = NoneYet
BY ShellLoadAssetIs

LEMMA ShellAssetsKeep ==
    ASSUME WebPlaneAssumptions, Shell!WebShellInv, NEW ok \in BOOLEAN, Shell!AssetsArrive(ok)
    PROVE  Shell!WebShellInv'
<1>1. /\ ShellIsHistory(history) /\ ShellTyped /\ ShellExplored /\ Shell!Route \in Shell!AppRoute
  BY ShellStateIs
<1>2. UNCHANGED <<revoked, tenants, selected, projects, context, shellStatus, discoveries, loads,
                  workspace, reloads>> /\ explorer.listing # NoneYet
  BY DEF Shell!AssetsArrive
<1>3. explorer.listing = context /\ context \in Shell!Scope /\ context # NoneYet /\ Shell!Route.view = "explorer"
  BY <1>1, <1>2 DEF ShellExplored, ShellTyped
<1>4. shellCount' \in [acts : 0..MaxShellActs, failures : 0..MaxShellFailures]
  BY ShellAnswerCounts DEF Shell!AssetsArrive
<1> PICK listed : listed = [explorer EXCEPT !.listing = NoneYet]
  OBVIOUS
<1>5. /\ listed \in ShellExplorer /\ listed.listing = NoneYet /\ listed.asset = explorer.asset
      /\ listed.asked = explorer.asked /\ listed.snapshot = explorer.snapshot /\ listed.busy = explorer.busy
  BY <1>1 DEF ShellExplored, ShellExplorer
<1> DEFINE asset == IF Shell!Route.asset # NoPlace THEN Shell!Route.asset ELSE FirstAsset[explorer.listing[2]]
<1>6. reloads' \subseteq reloads /\ workspace' \in [shown : {NoneYet, context}, asked : {NoneYet, context}]
  BY <1>1, <1>2 DEF ShellTyped
<1>7. CASE ok /\ ~Shell!Route.search /\ asset # NoPlace
  <2>1. explorer' = Shell!LoadAsset(listed, context, asset) /\ history' = Shell!RouteOfAsset(history, context, asset)
        /\ shellLate' = shellLate
    BY <1>3, <1>7 DEF Shell!AssetsArrive
  <2>2. asset \in ShellAsset
    <3>1. context[2] \in ShellProject
      BY <1>3 DEF Shell!Scope
    <3>2. FirstAsset[context[2]] \in ShellAsset \cup {NoPlace}
      BY <3>1 DEF WebPlaneAssumptions, Shell!WebShellAssumption
    <3> QED BY <1>1, <1>3, <1>7, <3>2 DEF Shell!AppRoute
  <2> HIDE DEF asset
  <2>3. /\ ShellIsHistory(history') /\ Shell!Route'.tenant = Shell!Route.tenant /\ Shell!Route'.project = Shell!Route.project
        /\ Shell!Route'.view = "explorer" /\ ~Shell!Route'.search /\ Shell!Route'.asset \in {NoPlace, asset}
    BY <1>3, <1>7, <2>1, <2>2, ShellRouteOfAssetIs
  <2> PICK x, n : x = explorer' /\ n = Shell!Route'
    OBVIOUS
  <2>4. x \in ShellExplorer /\ x.listing = NoneYet
    BY <1>3, <1>5, <2>1, <2>2, ShellLoadListing
  <2>5. ~shellLate => ShellHeld(x, n, context)
    BY <1>3, <1>5, <2>1, <2>2, <2>3, ShellLoadHeld
  <2>6. shellLate' \in BOOLEAN
    BY <1>1, <2>1 DEF ShellExplored
  <2> QED BY <1>2, <1>4, <1>6, <2>1, <2>3, <2>4, <2>5, <2>6, ShellViewStepKeeps
<1>8. CASE ~(ok /\ ~Shell!Route.search /\ asset # NoPlace)
  <2>1. /\ explorer' = (IF ~ok THEN listed
                        ELSE [listed EXCEPT !.asset = NoPlace, !.snapshot = NoneYet,
                                 !.busy = IF Shell!Route.search THEN FALSE ELSE listed.busy])
        /\ shellLate' = (shellLate \/ (ok /\ explorer.asked # NoneYet)) /\ history' = history
    BY <1>8 DEF Shell!AssetsArrive
  <2> HIDE DEF asset
  <2>2. ShellIsHistory(history') /\ Shell!Route' = Shell!Route /\ shellLate' \in BOOLEAN
    BY <1>1, <2>1 DEF Shell!Route
  <2> PICK x : x = explorer'
    OBVIOUS
  <2>3. CASE ~ok
    <3>1. x = listed
      BY <2>1, <2>3
    <3>2. ~shellLate' => ShellHeld(x, Shell!Route, context)
      BY <1>1, <1>5, <2>1, <3>1 DEF ShellExplored, ShellHeld, ShellNames
    <3> QED BY <1>2, <1>4, <1>5, <1>6, <2>2, <3>1, <3>2, ShellViewStepKeeps
  <2>4. CASE ok
    <3>1. x = [listed EXCEPT !.asset = NoPlace, !.snapshot = NoneYet,
                             !.busy = IF Shell!Route.search THEN FALSE ELSE listed.busy]
      BY <2>1, <2>4
    <3>2. x \in ShellExplorer /\ x.listing = NoneYet /\ x.snapshot = NoneYet /\ x.asked = explorer.asked
      BY <1>5, <3>1 DEF ShellExplorer
    <3>3. ~shellLate' => ShellHeld(x, Shell!Route, context)
      BY <2>1, <2>4, <3>2, ShellNothingHeld
    <3> QED BY <1>2, <1>4, <1>6, <2>2, <3>2, <3>3, ShellViewStepKeeps
  <2> QED BY <2>3, <2>4
<1> QED BY <1>7, <1>8

LEMMA ShellAgainKeeps ==
    ASSUME WebPlaneAssumptions, Shell!WebShellInv, NEW c \in reloads, NEW asset \in ShellAsset,
           Shell!AssetsAgain(c, asset)
    PROVE  Shell!WebShellInv'
<1>1. /\ ShellIsHistory(history) /\ ShellTyped /\ ShellExplored
  BY ShellStateIs
<1>2. /\ explorer' = Shell!LoadAsset(explorer, c, asset) /\ history' = Shell!RouteOfAsset(history, c, asset)
      /\ shellLate' = (shellLate \/ c # context \/ Shell!Route.search \/ Shell!Route.view # "explorer")
      /\ reloads' \subseteq reloads
      /\ UNCHANGED <<revoked, tenants, selected, projects, context, shellStatus, discoveries, loads,
                     workspace, shellCount>>
  BY DEF Shell!AssetsAgain
<1>3. c \in Shell!Scope /\ c # NoneYet
  BY <1>1 DEF ShellTyped, WebPlaneAssumptions, Shell!WebShellAssumption
<1>4. /\ ShellIsHistory(history') /\ Shell!Route'.tenant = Shell!Route.tenant /\ Shell!Route'.project = Shell!Route.project
      /\ Shell!Route'.view = Shell!Route.view /\ Shell!Route'.search = Shell!Route.search
      /\ c # NoneYet /\ Shell!Route.view = "explorer" /\ ~Shell!Route.search => Shell!Route'.asset \in {NoPlace, asset}
  BY <1>2, ShellRouteOfAssetIs
<1> PICK x, n : x = explorer' /\ n = Shell!Route'
  OBVIOUS
<1>5. x \in ShellExplorer /\ x.listing = explorer.listing
  BY <1>1, <1>2, <1>3, ShellLoadAssetIs DEF ShellExplored
<1>6. ASSUME ~shellLate' PROVE ShellHeld(x, n, context)
  <2>1. ~shellLate /\ c = context /\ ~Shell!Route.search /\ Shell!Route.view = "explorer"
    BY <1>2, <1>6
  <2>2. n.view = "explorer" /\ ~n.search /\ n.asset \in {NoPlace, asset}
    BY <1>3, <1>4, <2>1
  <2> QED BY <1>1, <1>2, <1>3, <2>1, <2>2, ShellLoadHeld DEF ShellExplored
<1>7. workspace' \in [shown : {NoneYet, context}, asked : {NoneYet, context}] /\ shellLate' \in BOOLEAN
      /\ shellCount' \in [acts : 0..MaxShellActs, failures : 0..MaxShellFailures]
  BY <1>1, <1>2 DEF ShellTyped
<1>8. x.listing \in {NoneYet, context} /\ (x.listing # NoneYet => n.view = "explorer")
  BY <1>1, <1>4, <1>5 DEF ShellExplored
<1> QED BY <1>2, <1>4, <1>5, <1>6, <1>7, <1>8, ShellViewStepKeeps

LEMMA ShellStep ==
    WebPlaneAssumptions /\ Shell!WebShellInv /\ (Shell!Next \/ UNCHANGED Shell!vars) => Shell!WebShellInv'
<1> SUFFICES ASSUME WebPlaneAssumptions, Shell!WebShellInv, Shell!Next \/ UNCHANGED Shell!vars
             PROVE  Shell!WebShellInv'
  OBVIOUS
<1>1. CASE UNCHANGED Shell!vars
  <2>1. /\ ShellIsHistory(history) /\ ShellTyped /\ ShellExplored /\ ShellChosen
    BY ShellStateIs
  <2>2. ShellIsHistory(history') /\ Shell!Route' = Shell!Route
    BY <1>1, <2>1 DEF Shell!vars, Shell!Route
  <2>3. ShellTyped' /\ ShellExplored' /\ ShellChosen'
    BY <1>1, <2>1, <2>2 DEF Shell!vars, ShellTyped, ShellExplored, ShellChosen,
       Shell!ContextIsListed, Shell!AddressAgrees, Shell!LoadsAreSound, Shell!SelectedIs
  <2> QED BY <2>2, <2>3, ShellPartsMakeInv
<1>2. CASE Shell!Revoke \/ Shell!retryPlatformBootstrap \/ Shell!reloadAssets
  BY <1>2, ShellQuietKeeps
<1>3. CASE Shell!openDataExplorer
  BY <1>3, ShellOpenSearchKeeps
<1>4. CASE Shell!retryAsset
  BY <1>4, ShellRetryKeeps
<1>5. ASSUME NEW d \in discoveries, Shell!TenantsArrive(d) \/ Shell!NoTenantsArrive(d) \/ Shell!TenantsFail(d)
      PROVE  Shell!WebShellInv'
  BY <1>5, ShellDiscoveryKeeps, ShellNoneLeftKeeps, ShellQuietKeeps
<1>6. ASSUME NEW l \in loads,
             \/ Shell!ProjectsArrive(l, ProjectsOf[l.tenant])
             \/ revoked /\ Shell!ProjectsArrive(l, <<>>)
             \/ Shell!ProjectsFail(l)
      PROVE  Shell!WebShellInv'
  <2>1. CASE Shell!ProjectsArrive(l, ProjectsOf[l.tenant])
    <3>1. l.tenant \in ShellTenant
      BY ShellStateIs DEF ShellTyped
    <3>2. ProjectsOf[l.tenant] \in Seq(ShellProject)
      BY <3>1 DEF WebPlaneAssumptions, Shell!WebShellAssumption
    <3> QED BY <2>1, <3>2, ShellProjectsKeep
  <2>2. CASE Shell!ProjectsArrive(l, <<>>)
    <3>1. <<>> \in Seq(ShellProject)
      OBVIOUS
    <3> QED BY <2>2, <3>1, ShellProjectsKeep
  <2>3. CASE Shell!ProjectsFail(l)
    BY <2>3, ShellQuietKeeps
  <2> QED BY <1>6, <2>1, <2>2, <2>3
<1>7. ASSUME NEW t \in ShellTenant, Shell!selectPlatformTenant(t) PROVE Shell!WebShellInv'
  BY <1>7, ShellSelectTenantKeeps
<1>8. ASSUME NEW p \in ShellProject, Shell!selectPlatformProject(p) PROVE Shell!WebShellInv'
  BY <1>8, ShellSelectProjectKeeps
<1>9. ASSUME NEW i \in DOMAIN history.entries, Shell!restoreRoute(i) PROVE Shell!WebShellInv'
  BY <1>9, ShellRestoreKeeps
<1>10. ASSUME NEW v \in {"explorer", "other"}, Shell!showView(v) PROVE Shell!WebShellInv'
  BY <1>10, ShellShowViewKeeps
<1>11. ASSUME NEW a \in ShellAsset, Shell!openAsset(a) PROVE Shell!WebShellInv'
  BY <1>11, ShellOpenAssetKeeps
<1>12. ASSUME NEW a \in ShellAsset \cup {NoPlace}, Shell!clearDataExplorer(a)
       PROVE  Shell!WebShellInv'
  BY <1>12, ShellCloseSearchKeeps
<1>13. ASSUME NEW ok \in BOOLEAN, Shell!WorkspaceArrives(ok) \/ Shell!AssetsArrive(ok) \/ Shell!SnapshotArrives(ok)
       PROVE  Shell!WebShellInv'
  BY <1>13, ShellWorkspaceKeeps, ShellAssetsKeep, ShellSnapshotKeeps
<1>14. ASSUME NEW c \in reloads, Shell!AssetsAgainFail(c) PROVE Shell!WebShellInv'
  BY <1>14, ShellQuietKeeps
<1>15. ASSUME NEW c \in reloads, NEW a \in ShellAsset, Shell!AssetsAgain(c, a)
       PROVE  Shell!WebShellInv'
  BY <1>15, ShellAgainKeeps
<1> QED BY <1>1, <1>2, <1>3, <1>4, <1>5, <1>6, <1>7, <1>8, <1>9, <1>10, <1>11, <1>12, <1>13,
           <1>14,
           <1>15 DEF Shell!Next

LEMMA ShellAgrees ==
    Shell!WebShellInv => Shell!ContextIsListed /\ Shell!ShownForContext /\ Shell!AddressAgrees /\ Shell!AssetAgrees
BY DEF Shell!WebShellInv, Shell!ExplorerIsSound, Shell!AddressNames, Shell!AssetAgrees

(***************************************************************************)
(* The lists of the web application.  Its finite sets are those of the     *)
(* library; a non-empty set of naturals has a least element.               *)
(***************************************************************************)
LEMMA PanelsFinite ==
    ASSUME NEW S
    PROVE  (Panels!IsFiniteSet(S) <=> IsFiniteSet(S)) /\ Panels!Cardinality(S) = Cardinality(S)
<1>1. Panels!IsFiniteSet(S) <=> IsFiniteSet(S)
  BY DEF Panels!IsFiniteSet, IsFiniteSet
<1>2. Panels!Cardinality(S) = Cardinality(S)
  BY DEF Panels!Cardinality, Cardinality
<1> QED BY <1>1, <1>2

LEMMA LeastNatural ==
    ASSUME NEW S \in SUBSET Nat, S # {} PROVE \E x \in S : \A y \in S : x <= y
<1>1. PICK R : R = OpToRel(<, Nat)
  OBVIOUS
<1>2. \A x, y \in Nat : x < y => <<x, y>> \in R
  BY <1>1 DEF OpToRel
<1>3. IsWellFoundedOn(R, Nat)
  BY <1>1, NatLessThanWellFounded
<1>4. PICK x \in S : \A y \in S : ~ (<<y, x>> \in R)
  BY <1>3, WFMin
<1>5. ASSUME NEW y \in S PROVE x <= y
  <2>1. x \in Nat /\ y \in Nat /\ ~(y < x)
    BY <1>2, <1>4
  <2> QED BY <2>1
<1> QED BY <1>5

LEMMA PanelsSubsetCount ==
    ASSUME NEW S, Panels!IsFiniteSet(S), NEW T \in SUBSET S
    PROVE  /\ Panels!IsFiniteSet(T) /\ Panels!Cardinality(T) \in Nat /\ Panels!Cardinality(S) \in Nat
           /\ Panels!Cardinality(T) <= Panels!Cardinality(S)
           /\ Panels!Cardinality(T) = Panels!Cardinality(S) => T = S
BY PanelsFinite, FS_Subset, FS_CardinalityType

LEMMA PanelsOneMore ==
    ASSUME NEW S, Panels!IsFiniteSet(S), NEW x
    PROVE  Panels!IsFiniteSet(S \cup {x})
BY PanelsFinite, FS_AddElement

LEMMA PanelsAllInOrder ==
    ASSUME NEW S, Panels!IsFiniteSet(S), NEW f, f = Panels!SetToSeq(S)
    PROVE  /\ f \in Seq(S) /\ \A i, j \in DOMAIN f : f[i] = f[j] => i = j
           /\ \A x \in S : \E i \in DOMAIN f : f[i] = x
<1> DEFINE n == Panels!Cardinality(S)
<1>1. n = Cardinality(S) /\ IsFiniteSet(S) /\ n \in Nat /\ ExistsBijection(1..n, S)
  BY PanelsFinite, FS_CardinalityType
<1>2. PICK g : g \in Bijection(1..n, S)
  BY <1>1 DEF ExistsBijection
<1>3. g \in [1..n -> S] /\ \A i, j \in 1..n : g[i] = g[j] => i = j
  BY <1>2 DEF Bijection, Injection, IsInjective
<1>4. Panels!IsInjective(g)
  BY <1>3 DEF Panels!IsInjective
<1>5. f \in [1..n -> S] /\ Panels!IsInjective(f)
  BY <1>3, <1>4 DEF Panels!SetToSeq
<1>6. \A i, j \in 1..n : f[i] = f[j] => i = j
  BY <1>5 DEF Panels!IsInjective
<1>7. f \in Surjection(1..n, S)
  <2>1. f \in Injection(1..n, S)
    BY <1>5, <1>6 DEF Injection, IsInjective
  <2>2. IsFiniteSet(1..n) /\ Cardinality(1..n) = n
    BY <1>1, FS_Interval
  <2> QED BY <1>1, <2>1, <2>2, FS_Injection
<1>8. \A x \in S : \E i \in 1..n : f[i] = x
  BY <1>7 DEF Surjection
<1> QED BY <1>1, <1>5, <1>6, <1>8

\* What the panels have in common.
PanelsFits ==
    /\ panel.load.guarded \in BOOLEAN /\ panel.load.empties \in BOOLEAN
    /\ panel.load.resets = panel.load.guarded
    /\ panel.load.guarded => panel.load.empties /\ panel.paging # "offset"
    /\ panel.form = "keyed" => panel.load.guarded
    /\ panel.paging \in {"cursor", "offset", "whole"}
    /\ panel.paging = "whole" => panel.handlers = {}
    /\ \A h \in panel.handlers :
          /\ h.guarded = panel.load.guarded
          /\ panel.paging = "offset" => h.does \in {"more", "reload"}
          /\ h.does = "reload" => panel.paging = "offset"
          /\ ~panel.load.empties => h.does = "more"
          /\ panel.form = "keyed" => h.does \in {"more", "create", "beside"}

LEMMA PanelsHaveThat == panel \in Panels!Panels => PanelsFits
<1>1. ASSUME panel \in Panels!Guarded PROVE PanelsFits
  <2>1. CASE panel = Panels!Panel(Panels!SourcesEffect,
                                  {Panels!loadMoreSources, Panels!createSource,
                                  Panels!replayBeside}, Panels!SourceForm, "cursor")
    <3>1. \A h \in {Panels!loadMoreSources, Panels!createSource, Panels!replayBeside} :
             h.guarded = TRUE /\ h.does \in {"more", "create", "beside"}
      BY DEF Panels!Handler, Panels!loadMoreSources, Panels!createSource, Panels!replayBeside
    <3> QED BY <2>1, <3>1 DEF PanelsFits, Panels!Panel, Panels!Load, Panels!SourcesEffect,
               Panels!SourceForm
  <2>2. CASE panel = Panels!Panel(Panels!SourcesEffect,
                                  {Panels!loadMoreConnectors, Panels!createConnector,
                                  Panels!replayBeside}, Panels!ConnectorForm, "cursor")
    <3>1. \A h \in {Panels!loadMoreConnectors, Panels!createConnector, Panels!replayBeside} :
             h.guarded = TRUE /\ h.does \in {"more", "create", "beside"}
      BY DEF Panels!Handler, Panels!loadMoreConnectors, Panels!createConnector,
         Panels!replayBeside
    <3> QED BY <2>2, <3>1 DEF PanelsFits, Panels!Panel, Panels!Load, Panels!SourcesEffect,
               Panels!ConnectorForm
  <2>3. CASE panel = Panels!Panel(Panels!SourcesEffect,
                                  {Panels!loadMoreDatasets, Panels!createDataset,
                                  Panels!replayBeside}, Panels!DatasetForm, "cursor")
    <3>1. \A h \in {Panels!loadMoreDatasets, Panels!createDataset, Panels!replayBeside} :
             h.guarded = TRUE /\ h.does \in {"more", "create", "beside"}
      BY DEF Panels!Handler, Panels!loadMoreDatasets, Panels!createDataset, Panels!replayBeside
    <3> QED BY <2>3, <3>1 DEF PanelsFits, Panels!Panel, Panels!Load, Panels!SourcesEffect,
               Panels!DatasetForm
  <2>4. CASE panel = Panels!Panel(Panels!SourcesEffect,
                                  {Panels!loadMoreRawEvidence, Panels!replayRawEvidence}, "none",
                                  "cursor")
    <3>1. \A h \in {Panels!loadMoreRawEvidence, Panels!replayRawEvidence} :
             h.guarded = TRUE /\ h.does \in {"more", "change"}
      BY DEF Panels!Handler, Panels!loadMoreRawEvidence, Panels!replayRawEvidence
    <3> QED BY <2>4, <3>1 DEF PanelsFits, Panels!Panel, Panels!Load, Panels!SourcesEffect
  <2>5. CASE panel = Panels!Panel(Panels!PipelinesEffect,
                                  {Panels!loadMorePipelines, Panels!createPipeline},
                                  Panels!PipelineForm, "cursor")
    <3>1. \A h \in {Panels!loadMorePipelines, Panels!createPipeline} :
             h.guarded = TRUE /\ h.does \in {"more", "create"}
      BY DEF Panels!Handler, Panels!loadMorePipelines, Panels!createPipeline
    <3> QED BY <2>5, <3>1 DEF PanelsFits, Panels!Panel, Panels!Load, Panels!PipelinesEffect,
               Panels!PipelineForm
  <2>6. CASE panel = Panels!Panel(Panels!PipelinesEffect,
                                  {Panels!loadMoreQualityRules, Panels!createQualityRule},
                                  Panels!QualityRuleForm, "cursor")
    <3>1. \A h \in {Panels!loadMoreQualityRules, Panels!createQualityRule} :
             h.guarded = TRUE /\ h.does \in {"more", "create"}
      BY DEF Panels!Handler, Panels!loadMoreQualityRules, Panels!createQualityRule
    <3> QED BY <2>6, <3>1 DEF PanelsFits, Panels!Panel, Panels!Load, Panels!PipelinesEffect,
               Panels!QualityRuleForm
  <2>7. CASE panel = Panels!Panel(Panels!PipelinesEffect,
                                  {Panels!loadMoreRuns, Panels!runPipeline}, "none", "cursor")
    <3>1. \A h \in {Panels!loadMoreRuns, Panels!runPipeline} :
             h.guarded = TRUE /\ h.does \in {"more", "run"}
      BY DEF Panels!Handler, Panels!loadMoreRuns, Panels!runPipeline
    <3> QED BY <2>7, <3>1 DEF PanelsFits, Panels!Panel, Panels!Load, Panels!PipelinesEffect
  <2>8. CASE panel = Panels!Panel(Panels!PipelinesEffect,
                                  {Panels!loadMoreQuality, Panels!runPipeline}, "none", "cursor")
    <3>1. \A h \in {Panels!loadMoreQuality, Panels!runPipeline} :
             h.guarded = TRUE /\ h.does \in {"more", "run"}
      BY DEF Panels!Handler, Panels!loadMoreQuality, Panels!runPipeline
    <3> QED BY <2>8, <3>1 DEF PanelsFits, Panels!Panel, Panels!Load, Panels!PipelinesEffect
  <2>9. CASE panel = Panels!Panel(Panels!ModelsEffect,
                                  {Panels!loadMoreModels, Panels!createModelVersion},
                                  Panels!ModelVersionForm, "cursor")
    <3>1. \A h \in {Panels!loadMoreModels, Panels!createModelVersion} :
             h.guarded = TRUE /\ h.does \in {"more", "create"}
      BY DEF Panels!Handler, Panels!loadMoreModels, Panels!createModelVersion
    <3> QED BY <2>9, <3>1 DEF PanelsFits, Panels!Panel, Panels!Load, Panels!ModelsEffect,
               Panels!ModelVersionForm
  <2> QED BY <1>1, <2>1, <2>2, <2>3, <2>4, <2>5, <2>6, <2>7, <2>8, <2>9 DEF Panels!Guarded
<1>2. ASSUME panel \in Panels!Unguarded PROVE PanelsFits
  <2>1. CASE panel = Panels!Panel(Panels!ContextEffect,
                                  {Panels!loadMoreCandidates, Panels!reviewCandidate}, "none",
                                  "cursor")
    <3>1. \A h \in {Panels!loadMoreCandidates, Panels!reviewCandidate} :
             h.guarded = FALSE /\ h.does \in {"more", "change"}
      BY DEF Panels!Handler, Panels!loadMoreCandidates, Panels!reviewCandidate
    <3> QED BY <2>1, <3>1 DEF PanelsFits, Panels!Panel, Panels!Load, Panels!ContextEffect
  <2>2. CASE panel = Panels!Panel(Panels!DiagramsEffect,
                                  {Panels!loadMoreExtractions, Panels!submitExtraction},
                                  Panels!ExtractionForm, "cursor")
    <3>1. \A h \in {Panels!loadMoreExtractions, Panels!submitExtraction} :
             h.guarded = FALSE /\ h.does \in {"more", "create"}
      BY DEF Panels!Handler, Panels!loadMoreExtractions, Panels!submitExtraction
    <3> QED BY <2>2, <3>1 DEF PanelsFits, Panels!Panel, Panels!Load, Panels!DiagramsEffect,
               Panels!ExtractionForm
  <2>3. CASE panel = Panels!Panel(Panels!MatchingEffect,
                                  {Panels!loadMoreEvaluations, Panels!submitEvaluation}, "kept",
                                  "cursor")
    <3>1. \A h \in {Panels!loadMoreEvaluations, Panels!submitEvaluation} :
             h.guarded = FALSE /\ h.does \in {"more", "create"}
      BY DEF Panels!Handler, Panels!loadMoreEvaluations, Panels!submitEvaluation
    <3> QED BY <2>3, <3>1 DEF PanelsFits, Panels!Panel, Panels!Load, Panels!MatchingEffect
  <2>4. CASE panel = Panels!Panel(Panels!SpatialEffect,
                                  {Panels!loadMoreLinks, Panels!propose, Panels!reviewLink},
                                  "kept", "cursor")
    <3>1. \A h \in {Panels!loadMoreLinks, Panels!propose, Panels!reviewLink} :
             h.guarded = FALSE /\ h.does \in {"more", "create", "change"}
      BY DEF Panels!Handler, Panels!loadMoreLinks, Panels!propose, Panels!reviewLink
    <3> QED BY <2>4, <3>1 DEF PanelsFits, Panels!Panel, Panels!Load, Panels!SpatialEffect
  <2>5. CASE panel = Panels!Panel(Panels!WritebackEffect,
                                  {Panels!loadMoreRequests, Panels!createRequest,
                                  Panels!reviewRequest, Panels!execute}, "kept", "cursor")
    <3>1. \A h \in {Panels!loadMoreRequests, Panels!createRequest, Panels!reviewRequest,
                    Panels!execute} :
             h.guarded = FALSE /\ h.does \in {"more", "create", "change", "execute"}
      BY DEF Panels!Handler, Panels!loadMoreRequests, Panels!createRequest,
         Panels!reviewRequest, Panels!execute
    <3> QED BY <2>5, <3>1 DEF PanelsFits, Panels!Panel, Panels!Load, Panels!WritebackEffect
  <2>6. CASE panel = Panels!Panel(Panels!AuditEffect, {Panels!loadMoreEvents}, "none", "offset")
    <3>1. \A h \in {Panels!loadMoreEvents} : h.guarded = FALSE /\ h.does \in {"more"}
      BY DEF Panels!Handler, Panels!loadMoreEvents
    <3> QED BY <2>6, <3>1 DEF PanelsFits, Panels!Panel, Panels!Load, Panels!AuditEffect
  <2>7. CASE panel = Panels!Panel(Panels!ExplorerEffect,
                                  {Panels!loadMoreAssets, Panels!reloadAssets}, "none", "offset")
    <3>1. \A h \in {Panels!loadMoreAssets, Panels!reloadAssets} :
             h.guarded = FALSE /\ h.does \in {"more", "reload"}
      BY DEF Panels!Handler, Panels!loadMoreAssets, Panels!reloadAssets
    <3> QED BY <2>7, <3>1 DEF PanelsFits, Panels!Panel, Panels!Load, Panels!ExplorerEffect
  <2>8. CASE panel = Panels!Panel(Panels!OverviewEffect, {}, "none", "whole")
    BY <2>8 DEF PanelsFits, Panels!Panel, Panels!Load, Panels!Handler, Panels!OverviewEffect
  <2>9. CASE panel = Panels!Panel(Panels!SearchEffect, {}, "none", "whole")
    BY <2>9 DEF PanelsFits, Panels!Panel, Panels!Load, Panels!Handler, Panels!SearchEffect
  <2>10. CASE panel = Panels!Panel(Panels!ResultsEffect, {}, "none", "whole")
    BY <2>10 DEF PanelsFits, Panels!Panel, Panels!Load, Panels!Handler, Panels!ResultsEffect
  <2> QED BY <1>2, <2>1, <2>2, <2>3, <2>4, <2>5, <2>6, <2>7, <2>8, <2>9, <2>10 DEF
             Panels!Unguarded
<1> QED BY <1>1, <1>2 DEF Panels!Panels

LEMMA PanelsGuardIs ==
    ASSUME panel \in Panels!Panels, NEW op, Panels!Does(op)
    PROVE  /\ Panels!GuardOf(op) <=> panel.load.guarded
           /\ Panels!ByOffset => op \in {"more", "reload"}
           /\ op = "reload" => Panels!ByOffset
           /\ ~panel.load.empties => op = "more"
           /\ panel.form = "keyed" => op \in {"more", "create", "beside"}
           /\ panel.paging # "whole"
BY PanelsHaveThat DEF PanelsFits, Panels!Does, Panels!GuardOf, Panels!ByOffset

(* The parts of the invariant.                                             *)
PanelsSound == \A r \in inflight : Panels!RequestIsSound(r)
PanelsOwn == Panels!ShowsItsProject /\ Panels!ListsAreOwn
PanelsFollows == Panels!ShowsAllItPassed /\ Panels!PagesFollow
PanelsWaits == Panels!WaitsForSomething /\ Panels!LoadingIsAsked
PanelsForms == Panels!KeyedFormsKeepText /\ Panels!FormsWait

LEMMA PanelsPartsOfInv ==
    Panels!WebPanelsInv <=> Panels!TypeOK /\ PanelsSound /\ Panels!TablesGrow /\ PanelsOwn /\ PanelsFollows /\ PanelsWaits /\ PanelsForms
BY DEF Panels!WebPanelsInv, PanelsSound, PanelsOwn, PanelsFollows, PanelsWaits, PanelsForms

LEMMA PanelsPartsMakeInv ==
    Panels!TypeOK' /\ PanelsSound' /\ Panels!TablesGrow' /\ PanelsOwn' /\ PanelsFollows' /\ PanelsWaits' /\ PanelsForms' => Panels!WebPanelsInv'
BY DEF Panels!WebPanelsInv, PanelsSound, PanelsOwn, PanelsFollows, PanelsWaits, PanelsForms

PanelsOps == {"first", "more", "create", "change", "beside", "run", "execute", "again"}

(* What a step needs to show of each part.                                 *)
LEMMA PanelsSoundStays ==
    ASSUME Panels!TypeOK, PanelsSound, UNCHANGED panel, tale'.copy \in Nat,
           tale.copy <= tale'.copy,
           \A r \in inflight' :
               \/ r \in inflight /\ (r.op = "first" => r.scope = scope')
               \/ Panels!RequestIsSound(r)'
    PROVE  PanelsSound'
<1>1. \A r \in inflight : r.copy \in Nat /\ tale.copy \in Nat
  BY DEF Panels!TypeOK, Panels!Request, Panels!Told
<1>2. ASSUME NEW r \in inflight, r.op = "first" => r.scope = scope'
      PROVE  Panels!RequestIsSound(r)'
  <2>1. Panels!RequestIsSound(r)
    BY DEF PanelsSound
  <2>2. r.copy <= tale'.copy
    BY <1>1, <2>1 DEF Panels!RequestIsSound
  <2>3. Panels!Offers(r.op)' /\ (Panels!PageIsWhole(r) => Panels!PageIsWhole(r)')
    BY <2>1 DEF Panels!RequestIsSound, Panels!Offers, Panels!Does, Panels!PageIsWhole,
       Panels!ByOffset, Panels!Rank
  <2> QED BY <1>2, <2>1, <2>2, <2>3 DEF Panels!RequestIsSound
<1> QED BY <1>2 DEF PanelsSound

\* A request that was just made.
LEMMA PanelsNewIsSound ==
    ASSUME NEW q, UNCHANGED panel, Panels!Offers(q.op), q.copy <= tale'.copy,
           q.guarded = panel.load.guarded,
           q.op = "first" => q.scope = scope', q.op \in {"first", "again"} => q.at = 0,
           q.op \notin {"first", "more", "again"} => q.id \in PanelId, q.served = FALSE
    PROVE  Panels!RequestIsSound(q)'
<1>1. Panels!Offers(q.op)'
  BY DEF Panels!Offers, Panels!Does
<1> QED BY <1>1 DEF Panels!RequestIsSound

LEMMA PanelsOwnStays ==
    ASSUME PanelsOwn, UNCHANGED <<shown, scope, panel>>, tale'.late = tale.late,
           tale'.based => tale.based,
           panel.load.empties \/ ("loading" \in flags => "loading" \in flags')
    PROVE  PanelsOwn'
BY DEF PanelsOwn, Panels!ShowsItsProject, Panels!ListsAreOwn

\* The rows that were passed stay, and what was asked for goes on from them.
LEMMA PanelsFollowsStays ==
    ASSUME PanelsFollows, UNCHANGED <<panel, scope, next>>, tale'.copy = tale.copy,
           tale'.based => tale.based, tale.mixed => tale'.mixed, tale.late => tale'.late,
           tale'.late \/ (\A id \in Panels!Steady : Panels!Passed(id) => Panels!Passed(id)'),
           Panels!ByOffset => Len(shown') = Len(shown),
           \A q \in inflight' : q.op = "more" =>
               \E r \in inflight : r.op = "more" /\ r.copy = q.copy /\ r.at = q.at
    PROVE  PanelsFollows'
<1>1. ASSUME tale'.based, ~tale'.mixed, ~tale'.late PROVE
         tale.based /\ ~tale.mixed /\ ~tale.late /\ \A id \in Panels!Steady : Panels!Passed(id) => Panels!Passed(id)'
  BY <1>1
<1>2. Panels!Steady' = Panels!Steady /\ Panels!ByOffset' = Panels!ByOffset
  BY DEF Panels!Steady, Panels!ByOffset
<1>3. Panels!ShowsAllItPassed'
  <2> SUFFICES ASSUME scope' # NoProject, tale'.based, ~tale'.mixed, ~tale'.late,
                      NEW id \in Panels!Steady,
                      IF Panels!ByOffset THEN Panels!Cardinality({j \in Panels!Steady : j < id}) < Len(shown')
                      ELSE next' = NoneYet \/ id <= next'
               PROVE  \E i \in DOMAIN shown' : shown'[i] = <<scope', id>>
    BY <1>2 DEF Panels!ShowsAllItPassed
  <2>1. Panels!Passed(id)
    BY <1>1 DEF PanelsFollows, Panels!ShowsAllItPassed, Panels!Passed
  <2> QED BY <1>1, <2>1 DEF Panels!Passed
<1>4. Panels!PagesFollow'
  <2> SUFFICES ASSUME scope' # NoProject, NEW q \in inflight', Panels!Goes(q)'
               PROVE  IF Panels!ByOffset THEN q.at <= Len(shown')
                      ELSE \A id \in Panels!Steady : id <= q.at => Panels!Passed(id)'
    BY <1>2 DEF Panels!PagesFollow
  <2>1. /\ q.op = "more" /\ q.copy = tale.copy /\ tale'.based /\ ~tale'.mixed /\ ~tale'.late
    BY DEF Panels!Goes
  <2>2. PICK r \in inflight : r.op = "more" /\ r.copy = q.copy /\ r.at = q.at
    BY <2>1
  <2>3. Panels!Goes(r)
    BY <1>1, <2>1, <2>2 DEF Panels!Goes
  <2>4. IF Panels!ByOffset THEN r.at <= Len(shown) ELSE \A id \in Panels!Steady : id <= r.at => Panels!Passed(id)
    BY <2>3 DEF PanelsFollows, Panels!PagesFollow
  <2> QED BY <1>1, <2>1, <2>2, <2>4
<1> QED BY <1>3, <1>4 DEF PanelsFollows

\* A copy that is new has no page asked for yet.
LEMMA PanelsNewCopyFollows ==
    ASSUME Panels!TypeOK, PanelsSound, inflight' \subseteq inflight, tale'.copy = tale.copy + 1,
           Panels!ShowsAllItPassed'
    PROVE  PanelsFollows'
<1>1. \A r \in inflight : r.copy \in Nat /\ tale.copy \in Nat /\ r.copy <= tale.copy
  BY DEF Panels!TypeOK, PanelsSound, Panels!RequestIsSound, Panels!Request, Panels!Told
<1>2. \A r \in inflight' : r.copy # tale'.copy
  BY <1>1
<1> QED BY <1>2 DEF PanelsFollows, Panels!PagesFollow, Panels!Goes

LEMMA PanelsUnbasedFollows == ASSUME tale'.based = FALSE PROVE PanelsFollows'
BY DEF PanelsFollows, Panels!ShowsAllItPassed, Panels!PagesFollow, Panels!Goes

PanelsWorking == {"create", "change", "beside", "run", "execute", "again"}

\* A request that is no longer in flight, or another in its place.
LEMMA PanelsWaitsStays ==
    ASSUME Panels!TypeOK, PanelsSound, PanelsWaits, PanelsSound', UNCHANGED <<panel, scope>>,
           NEW r \in inflight, inflight \ {r} \subseteq inflight',
           flags' \subseteq flags, busy' \in {busy, Panels!NotBusy},
           "loading" \in flags' => r.op # "first" /\ ~(Panels!ByOffset /\ r.op = "again"),
           "loadingMore" \in flags' => r.op # "more" \/ (r.guarded /\ r.scope # scope),
           busy' # Panels!NotBusy => \/ r.op \in {"first", "more"} \/ (r.guarded /\ r.scope # scope)
                                     \/ Panels!Asked(PanelsWorking)'
    PROVE  PanelsWaits'
<1>1. Panels!LoadingIsAsked'
  BY DEF PanelsWaits, Panels!LoadingIsAsked, Panels!ByOffset
<1>2. "loading" \in flags' => Panels!Asked({"first", "again"})'
  <2> SUFFICES ASSUME "loading" \in flags' PROVE Panels!Asked({"first", "again"})'
    OBVIOUS
  <2>1. PICK m \in inflight' : m.op = "first" \/ (Panels!ByOffset /\ m.op = "again")
    BY <1>1 DEF Panels!LoadingIsAsked, Panels!ByOffset
  <2>2. Panels!RequestIsSound(m)'
    BY DEF PanelsSound
  <2>3. m.guarded => m.scope = scope'
    BY <2>1, <2>2, PanelsHaveThat DEF Panels!RequestIsSound, PanelsFits, Panels!ByOffset,
       Panels!TypeOK
  <2> QED BY <2>1, <2>3 DEF Panels!Asked
<1>3. "loadingMore" \in flags' => Panels!Asked({"more"})'
  BY DEF PanelsWaits, Panels!WaitsForSomething, Panels!Asked
<1>4. busy' # Panels!NotBusy => Panels!Asked(PanelsWorking)'
  BY DEF PanelsWaits, Panels!WaitsForSomething, Panels!Asked, PanelsWorking
<1> QED BY <1>1, <1>2, <1>3, <1>4 DEF PanelsWaits, Panels!WaitsForSomething, PanelsWorking,
           Panels!NotBusy

\* A form stays as it is, and nothing frees it.
LEMMA PanelsFormsStay ==
    ASSUME Panels!TypeOK, PanelsForms, UNCHANGED <<panel, form>>, tale'.lost = tale.lost,
           tale'.freed = tale.freed,
           panelCount'.acts \in Nat, panelCount.acts <= panelCount'.acts,
           panel.form = "keyed" /\ busy # Panels!NotBusy => busy' # Panels!NotBusy,
           \A q \in inflight' : q.op = "create" =>
               \E r \in inflight : r.op = "create" /\ r.n = q.n /\ r.form = q.form
    PROVE  PanelsForms'
<1>1. Panels!KeyedFormsKeepText'
  BY DEF PanelsForms, Panels!KeyedFormsKeepText
<1>2. Panels!FormsWait'
  <2> SUFFICES ASSUME panel.form = "keyed", NEW q \in inflight', q.op = "create"
               PROVE  /\ q.n < panelCount'.acts
                      /\ q.form.mount = form'.mount /\ tale'.freed <= q.n =>
                            busy' # Panels!NotBusy /\ form'.draft = q.form.draft
    BY DEF Panels!FormsWait, Panels!NotBusy
  <2>1. PICK r \in inflight : r.op = "create" /\ r.n = q.n /\ r.form = q.form
    OBVIOUS
  <2>2. r.n \in Nat /\ panelCount.acts \in Nat /\ r.n < panelCount.acts
    BY <2>1 DEF Panels!TypeOK, Panels!Request, PanelsForms, Panels!FormsWait
  <2>3. r.form.mount = form.mount /\ tale.freed <= r.n => busy # Panels!NotBusy /\ form.draft = r.form.draft
    BY <2>1 DEF PanelsForms, Panels!FormsWait
  <2> QED BY <2>1, <2>2, <2>3
<1> QED BY <1>1, <1>2 DEF PanelsForms

\* It is freed: whatever was sent before tells nothing of it any more.
LEMMA PanelsFormsFreed ==
    ASSUME Panels!TypeOK, PanelsForms, UNCHANGED panel, panel.form = "keyed" => ~tale'.lost,
           panelCount'.acts \in Nat, panelCount.acts <= panelCount'.acts, tale'.freed \in Nat,
           panelCount.acts <= tale'.freed,
           \A q \in inflight' : q.op = "create" =>
               \E r \in inflight : r.op = "create" /\ r.n = q.n
    PROVE  PanelsForms'
<1>1. Panels!KeyedFormsKeepText'
  BY DEF Panels!KeyedFormsKeepText
<1>2. Panels!FormsWait'
  <2> SUFFICES ASSUME panel.form = "keyed", NEW q \in inflight', q.op = "create"
               PROVE  q.n < panelCount'.acts /\ ~(tale'.freed <= q.n)
    BY DEF Panels!FormsWait
  <2>1. PICK r \in inflight : r.op = "create" /\ r.n = q.n
    OBVIOUS
  <2>2. r.n \in Nat /\ panelCount.acts \in Nat /\ r.n < panelCount.acts
    BY <2>1 DEF Panels!TypeOK, Panels!Request, PanelsForms, Panels!FormsWait
  <2> QED BY <2>1, <2>2
<1> QED BY <1>1, <1>2 DEF PanelsForms

LEMMA PanelsActsCount ==
    ASSUME WebPlaneAssumptions, Panels!TypeOK, Panels!Acts
    PROVE  /\ panelCount' \in [acts : 0..MaxPanelActs, failures : 0..MaxPanelFailures]
           /\ panelCount'.acts = panelCount.acts + 1 /\ panelCount.acts \in Nat /\ panelCount'.acts \in Nat
           /\ panelCount.acts + 1 \in 0..MaxPanelActs
<1>1. panelCount \in [acts : 0..MaxPanelActs, failures : 0..MaxPanelFailures] /\ MaxPanelActs \in Nat /\ MaxPanelFailures \in Nat
  BY DEF Panels!TypeOK, WebPlaneAssumptions, Panels!WebPanelsAssumption
<1> QED BY <1>1 DEF Panels!Acts

-----------------------------------------------------------------------------
LEMMA PanelsStartsSound == WebPlaneAssumptions /\ Panels!Init => Panels!WebPanelsInv
<1> SUFFICES ASSUME WebPlaneAssumptions, Panels!Init PROVE Panels!WebPanelsInv
  OBVIOUS
<1>1. panel \in Panels!Panels /\ panelTable = PanelRows /\ scope \in PanelProject /\ PanelsFits
  BY PanelsHaveThat DEF Panels!Init
<1>2. /\ panelCount = [acts |-> 0, failures |-> 0] /\ form = [mount |-> 0, draft |-> 0]
      /\ 0 \in 0..MaxPanelActs /\ 0 \in 0..MaxPanelFailures
  BY DEF Panels!Init, WebPlaneAssumptions, Panels!WebPanelsAssumption
<1> PICK q : q = Panels!Ask("first", panel.load.guarded, scope, 0, 0, 0)
  OBVIOUS
<1>3. inflight = {q}
  BY DEF Panels!Init
<1>4. q \in Panels!Request /\ q.op = "first" /\ q.guarded = panel.load.guarded /\ q.scope = scope /\ q.copy = 0
      /\ q.at = 0 /\ q.served = FALSE
  <2>1. Panels!NoReply \in [ok : BOOLEAN, rows : Seq(PanelProject \X PanelId), next : Nat \cup {NoneYet}]
    BY DEF Panels!NoReply
  <2>2. panel.load.guarded \in BOOLEAN
    BY <1>1 DEF PanelsFits
  <2> QED BY <1>1, <1>2, <2>1, <2>2 DEF Panels!Ask, Panels!Request
<1>5. /\ shown = <<>> /\ next = NoneYet /\ busy = Panels!NotBusy /\ flags = {"loading"} /\ issue = "none"
      /\ tale = [copy |-> 0, based |-> FALSE, mixed |-> FALSE, late |-> FALSE,
                 lost |-> FALSE, freed |-> 0]
  BY DEF Panels!Init
<1>6. Panels!TypeOK
  <2>1. shown \in Seq(PanelProject \X PanelId) /\ Panels!HasEachOnce(shown)
    BY <1>5 DEF Panels!HasEachOnce
  <2>2. panelTable \in [PanelProject -> SUBSET PanelId]
    BY <1>1 DEF WebPlaneAssumptions, Panels!WebPanelsAssumption
  <2>3. tale \in Panels!Told
    BY <1>5 DEF Panels!Told
  <2>4. inflight \subseteq Panels!Request
    BY <1>3, <1>4
  <2> QED BY <1>1, <1>2, <1>5, <2>1, <2>2, <2>3, <2>4 DEF Panels!TypeOK, Panels!NotBusy
<1>7. PanelsSound
  <2>1. Panels!RequestIsSound(q)
    BY <1>4, <1>5 DEF Panels!RequestIsSound, Panels!Offers
  <2> QED BY <1>3, <2>1 DEF PanelsSound
<1>8. Panels!TablesGrow
  BY <1>1 DEF Panels!TablesGrow, WebPlaneAssumptions, Panels!WebPanelsAssumption
<1>9. PanelsOwn /\ PanelsFollows
  BY <1>5 DEF PanelsOwn, PanelsFollows, Panels!ShowsItsProject, Panels!ListsAreOwn,
     Panels!ShowsAllItPassed, Panels!PagesFollow, Panels!Goes
<1>10. PanelsWaits
  BY <1>3, <1>4, <1>5 DEF PanelsWaits, Panels!WaitsForSomething, Panels!LoadingIsAsked,
     Panels!Asked
<1>11. PanelsForms
  BY <1>3, <1>4, <1>5 DEF PanelsForms, Panels!KeyedFormsKeepText, Panels!FormsWait
<1> QED BY <1>6, <1>7, <1>8, <1>9, <1>10, <1>11, PanelsPartsOfInv

(* The effect runs again.                                                  *)
LEMMA PanelsFreshTale ==
    ASSUME Panels!TypeOK, WebPlaneAssumptions, NEW p, Panels!Fresh(p)
    PROVE  /\ tale' \in Panels!Told /\ tale'.copy = tale.copy + 1 /\ tale'.based = FALSE
           /\ tale'.freed = panelCount.acts + 1 /\ tale'.lost = tale.lost
           /\ tale'.late = (IF panel.load.empties \/ p = NoProject THEN FALSE ELSE tale.late)
<1> PICK began : began = [tale EXCEPT !.copy = tale.copy + 1, !.based = FALSE, !.freed = panelCount.acts + 1]
  OBVIOUS
<1>1. tale \in Panels!Told /\ panelCount.acts \in Nat
  BY DEF Panels!TypeOK
<1>2. /\ began \in Panels!Told /\ began.copy = tale.copy + 1 /\ began.based = FALSE
      /\ began.freed = panelCount.acts + 1 /\ began.lost = tale.lost /\ began.late = tale.late
  <2>1. began = [copy |-> tale.copy + 1, based |-> FALSE, mixed |-> tale.mixed, late |-> tale.late,
                 lost |-> tale.lost, freed |-> panelCount.acts + 1]
    BY <1>1 DEF Panels!Told
  <2>2. tale.copy + 1 \in Nat /\ panelCount.acts + 1 \in Nat /\ {tale.mixed, tale.late, tale.lost} \subseteq BOOLEAN
    BY <1>1 DEF Panels!Told
  <2> QED BY <2>1, <2>2 DEF Panels!Told
<1>3. tale' = (IF panel.load.empties \/ p = NoProject
               THEN [began EXCEPT !.mixed = FALSE, !.late = FALSE] ELSE began)
  BY DEF Panels!Fresh
<1> QED BY <1>2, <1>3 DEF Panels!Told

LEMMA PanelsFreshKeeps ==
    ASSUME WebPlaneAssumptions, Panels!WebPanelsInv, NEW p \in PanelProject \cup {NoProject},
           Panels!Fresh(p), Panels!Acts,
           UNCHANGED <<panel, panelTable>>, form' \in [mount : Nat, draft : 0..MaxPanelActs]
    PROVE  Panels!WebPanelsInv'
<1>1. Panels!TypeOK /\ PanelsSound /\ Panels!TablesGrow /\ PanelsOwn /\ PanelsFollows /\ PanelsWaits /\ PanelsForms /\ PanelsFits
  BY PanelsPartsOfInv, PanelsHaveThat DEF Panels!TypeOK
<1>2. /\ tale' \in Panels!Told /\ tale'.copy = tale.copy + 1 /\ tale'.based = FALSE
      /\ tale'.freed = panelCount.acts + 1 /\ tale'.lost = tale.lost
      /\ tale'.late = (IF panel.load.empties \/ p = NoProject THEN FALSE ELSE tale.late)
  BY <1>1, PanelsFreshTale
<1>3. /\ panelCount' \in [acts : 0..MaxPanelActs, failures : 0..MaxPanelFailures]
      /\ panelCount'.acts = panelCount.acts + 1 /\ panelCount.acts \in Nat /\ panelCount'.acts \in Nat
  BY <1>1, PanelsActsCount
<1> PICK q : q = Panels!Ask("first", panel.load.guarded, p, tale.copy + 1, 0, 0)
  OBVIOUS
<1>4. /\ scope' = p
      /\ shown' = (IF panel.load.empties \/ p = NoProject THEN <<>> ELSE shown)
      /\ next' = (IF panel.load.empties \/ p = NoProject THEN NoneYet ELSE next)
      /\ flags' = (IF panel.load.empties THEN {} ELSE flags \ {"loading"})
                      \cup (IF p = NoProject THEN {} ELSE {"loading"})
      /\ busy' = (IF panel.load.resets THEN Panels!NotBusy ELSE busy)
      /\ issue' = "none"
      /\ inflight' = {r \in inflight : r.op # "first"} \cup (IF p = NoProject THEN {} ELSE {q})
  BY DEF Panels!Fresh
<1>5. ASSUME p # NoProject
      PROVE  q \in Panels!Request /\ q.op = "first" /\ q.guarded = panel.load.guarded /\ q.scope = p
             /\ q.copy = tale.copy + 1 /\ q.at = 0 /\ q.served = FALSE
  <2>1. p \in PanelProject /\ tale.copy + 1 \in Nat /\ panel.load.guarded \in BOOLEAN
    BY <1>1, <1>5 DEF Panels!TypeOK, Panels!Told, PanelsFits
  <2>2. Panels!NoReply \in [ok : BOOLEAN, rows : Seq(PanelProject \X PanelId), next : Nat \cup {NoneYet}]
    BY DEF Panels!NoReply
  <2>3. form \in [mount : Nat, draft : Nat] /\ panelCount.acts \in Nat
    BY <1>1, <1>3 DEF Panels!TypeOK
  <2> QED BY <2>1, <2>2, <2>3 DEF Panels!Ask, Panels!Request
<1>6. Panels!TypeOK'
  <2>1. shown' \in Seq(PanelProject \X PanelId) /\ Panels!HasEachOnce(shown') /\ next' \in Nat \cup {NoneYet}
    BY <1>1, <1>4 DEF Panels!TypeOK, Panels!HasEachOnce
  <2>2. inflight' \subseteq Panels!Request
    BY <1>1, <1>4, <1>5 DEF Panels!TypeOK
  <2>3. /\ flags' \subseteq {"loading", "loadingMore"} /\ busy' \in {NoneYet, 0} \cup PanelId
        /\ issue' \in {"none", "load", "more"} /\ panel' \in Panels!Panels /\ scope' \in PanelProject \cup {NoProject}
        /\ panelTable' \in [PanelProject -> SUBSET PanelId]
    BY <1>1, <1>4 DEF Panels!TypeOK, Panels!NotBusy
  <2> QED BY <1>2, <1>3, <2>1, <2>2, <2>3 DEF Panels!TypeOK
<1>7. PanelsSound'
  <2>1. ASSUME p # NoProject PROVE Panels!RequestIsSound(q)'
    <3>1. Panels!Offers(q.op)
      BY <1>5, <2>1 DEF Panels!Offers
    <3>2. q.copy <= tale'.copy
      BY <1>2, <1>5, <2>1 DEF Panels!Told
    <3> QED BY <1>4, <1>5, <2>1, <3>1, <3>2, PanelsNewIsSound
  <2>2. tale'.copy \in Nat /\ tale.copy <= tale'.copy
    BY <1>1, <1>2 DEF Panels!TypeOK, Panels!Told
  <2> QED BY <1>1, <1>4, <2>1, <2>2, PanelsSoundStays
<1>8. Panels!TablesGrow'
  BY <1>1 DEF Panels!TablesGrow, Panels!ByOffset
<1>9. PanelsOwn'
  <2>1. CASE panel.load.empties \/ p = NoProject
    BY <1>2, <1>4, <2>1 DEF PanelsOwn, Panels!ShowsItsProject, Panels!ListsAreOwn
  <2>2. CASE ~(panel.load.empties \/ p = NoProject)
    BY <1>1, <1>2, <1>4, <2>2 DEF PanelsOwn, Panels!ShowsItsProject, Panels!ListsAreOwn
  <2> QED BY <2>1, <2>2
<1>10. PanelsFollows'
  BY <1>2, PanelsUnbasedFollows
<1>11. PanelsWaits'
  <2>1. "loading" \in flags' => q \in inflight' /\ p # NoProject
    BY <1>4
  <2>2. Panels!LoadingIsAsked' /\ ("loading" \in flags' => Panels!Asked({"first", "again"})')
    BY <1>4, <1>5, <2>1 DEF Panels!LoadingIsAsked, Panels!Asked
  <2>3. ASSUME NEW ops, "first" \notin ops, Panels!Asked(ops), ~panel.load.guarded
        PROVE  Panels!Asked(ops)'
    <3>1. PICK r \in inflight : r.op \in ops
      BY <2>3 DEF Panels!Asked
    <3>2. r \in inflight' /\ ~r.guarded
      BY <1>1, <1>4, <2>3, <3>1 DEF PanelsSound, Panels!RequestIsSound
    <3> QED BY <3>1, <3>2 DEF Panels!Asked
  <2>4. "loadingMore" \in flags' => Panels!Asked({"more"})'
    BY <1>1, <1>4, <2>3 DEF PanelsWaits, Panels!WaitsForSomething, PanelsFits
  <2>5. busy' # Panels!NotBusy => Panels!Asked(PanelsWorking)'
    BY <1>1, <1>4, <2>3 DEF PanelsWaits, Panels!WaitsForSomething, PanelsFits, PanelsWorking
  <2> QED BY <2>2, <2>4, <2>5 DEF PanelsWaits, Panels!WaitsForSomething, PanelsWorking,
             Panels!NotBusy
<1>12. PanelsForms'
  <2>1. panel.form = "keyed" => ~tale'.lost
    BY <1>1, <1>2 DEF PanelsForms, Panels!KeyedFormsKeepText
  <2>2. \A r \in inflight' : r.op = "create" => \E m \in inflight : m.op = "create" /\ m.n = r.n
    BY <1>4, <1>5
  <2> QED BY <1>1, <1>2, <1>3, <2>1, <2>2, PanelsFormsFreed
<1> QED BY <1>6, <1>7, <1>8, <1>9, <1>10, <1>11, <1>12, PanelsPartsMakeInv
LEMMA PanelsSwitchKeeps ==
    ASSUME WebPlaneAssumptions, Panels!WebPanelsInv, NEW p \in PanelProject \cup {NoProject},
           Panels!Switch(p)
    PROVE  Panels!WebPanelsInv'
<1>1. form \in [mount : Nat, draft : 0..MaxPanelActs] /\ 0 \in 0..MaxPanelActs
  BY DEF Panels!WebPanelsInv, Panels!TypeOK, WebPlaneAssumptions, Panels!WebPanelsAssumption
<1>2. form' \in [mount : Nat, draft : 0..MaxPanelActs]
  BY <1>1 DEF Panels!Switch
<1> QED BY <1>2, PanelsFreshKeeps DEF Panels!Switch

LEMMA PanelsReloadKeeps ==
    ASSUME WebPlaneAssumptions, Panels!WebPanelsInv, Panels!Reload
    PROVE  Panels!WebPanelsInv'
<1>1. form \in [mount : Nat, draft : 0..MaxPanelActs] /\ scope \in PanelProject \cup {NoProject}
  BY DEF Panels!WebPanelsInv, Panels!TypeOK
<1>2. form' \in [mount : Nat, draft : 0..MaxPanelActs] /\ Panels!Fresh(scope) /\ Panels!Acts
  BY <1>1 DEF Panels!Reload, Panels!InProject
<1> QED BY <1>1, <1>2, PanelsFreshKeeps DEF Panels!Reload

LEMMA PanelsTypeKeeps ==
    ASSUME WebPlaneAssumptions, Panels!WebPanelsInv, Panels!Type
    PROVE  Panels!WebPanelsInv'
<1>1. Panels!TypeOK /\ PanelsSound /\ Panels!TablesGrow /\ PanelsOwn /\ PanelsFollows /\ PanelsWaits /\ PanelsForms
  BY PanelsPartsOfInv
<1>2. /\ panelCount' \in [acts : 0..MaxPanelActs, failures : 0..MaxPanelFailures]
      /\ panelCount'.acts = panelCount.acts + 1 /\ panelCount.acts \in Nat /\ panelCount'.acts \in Nat
      /\ panelCount.acts + 1 \in 0..MaxPanelActs
  BY <1>1, PanelsActsCount DEF Panels!Type, Panels!InProject
<1>3. form' \in [mount : Nat, draft : 0..MaxPanelActs] /\ form'.mount = form.mount
  BY <1>1, <1>2 DEF Panels!Type, Panels!TypeOK
<1>4. UNCHANGED <<panel, panelTable, scope, shown, next, flags, busy, issue, inflight, tale>>
  BY DEF Panels!Type
<1>5. Panels!TypeOK'
  BY <1>1, <1>2, <1>3, <1>4 DEF Panels!TypeOK, Panels!HasEachOnce
<1>6. PanelsSound'
  BY <1>1, <1>4, PanelsSoundStays DEF Panels!TypeOK, Panels!Told, PanelsSound,
     Panels!RequestIsSound
<1>7. Panels!TablesGrow' /\ PanelsOwn' /\ PanelsFollows' /\ PanelsWaits'
  <2>1. Panels!TablesGrow' /\ PanelsOwn'
    BY <1>1, <1>4 DEF Panels!TablesGrow, Panels!ByOffset, PanelsOwn, Panels!ShowsItsProject,
       Panels!ListsAreOwn
  <2>2. Panels!ShowsAllItPassed'
    BY <1>1, <1>4 DEF PanelsFollows, Panels!ShowsAllItPassed, Panels!Steady, Panels!ByOffset
  <2>3. Panels!PagesFollow'
    BY <1>1, <1>4 DEF PanelsFollows, Panels!PagesFollow, Panels!Steady, Panels!Goes,
       Panels!Passed, Panels!ByOffset
  <2>4. PanelsWaits'
    BY <1>1, <1>4 DEF PanelsWaits, Panels!WaitsForSomething, Panels!LoadingIsAsked,
       Panels!Asked, Panels!NotBusy, Panels!ByOffset
  <2> QED BY <2>1, <2>2, <2>3, <2>4 DEF PanelsFollows
<1>8. PanelsForms'
  <2>1. panel.form = "keyed" => busy = Panels!NotBusy
    BY DEF Panels!Type
  <2>2. ASSUME panel.form = "keyed", NEW r \in inflight, r.op = "create"
        PROVE  r.n < panelCount'.acts /\ ~(r.form.mount = form'.mount /\ tale.freed <= r.n)
    <3>1. r.n \in Nat /\ r.n < panelCount.acts
      BY <1>1, <2>2 DEF Panels!TypeOK, Panels!Request, PanelsForms, Panels!FormsWait
    <3>2. r.form.mount = form.mount /\ tale.freed <= r.n => busy # Panels!NotBusy
      BY <1>1, <2>2 DEF PanelsForms, Panels!FormsWait
    <3> QED BY <1>2, <1>3, <2>1, <2>2, <3>1, <3>2
  <2> QED BY <1>1, <1>4, <2>2 DEF PanelsForms, Panels!KeyedFormsKeepText, Panels!FormsWait
<1> QED BY <1>5, <1>6, <1>7, <1>8, PanelsPartsMakeInv

\* What is asked for beside what is in flight, in a project.
LEMMA PanelsWaitsMore ==
    ASSUME PanelsWaits, UNCHANGED <<panel, scope>>, inflight \subseteq inflight',
           NEW q \in inflight', q.guarded => q.scope = scope,
           "loading" \in flags' => "loading" \in flags \/ (Panels!ByOffset /\ q.op = "again"),
           "loadingMore" \in flags' => "loadingMore" \in flags \/ q.op = "more",
           busy' = busy \/ q.op \in PanelsWorking
    PROVE  PanelsWaits'
<1>1. \A ops : Panels!Asked(ops) \/ q.op \in ops => Panels!Asked(ops)'
  BY DEF Panels!Asked
<1>2. "loading" \in flags' => Panels!Asked({"first", "again"})'
  BY <1>1 DEF PanelsWaits, Panels!WaitsForSomething
<1>3. "loadingMore" \in flags' => Panels!Asked({"more"})'
  BY <1>1 DEF PanelsWaits, Panels!WaitsForSomething
<1>4. busy' # Panels!NotBusy => Panels!Asked(PanelsWorking)'
  BY <1>1 DEF PanelsWaits, Panels!WaitsForSomething, PanelsWorking
<1>5. Panels!LoadingIsAsked'
  BY DEF PanelsWaits, Panels!LoadingIsAsked, Panels!ByOffset
<1> QED BY <1>2, <1>3, <1>4, <1>5 DEF PanelsWaits, Panels!WaitsForSomething, PanelsWorking,
           Panels!NotBusy

LEMMA PanelsAskKeeps ==
    ASSUME WebPlaneAssumptions, Panels!WebPanelsInv, Panels!InProject,
           UNCHANGED <<panel, panelTable, scope, shown, next, form, tale>>,
           NEW q \in Panels!Request, inflight' = inflight \cup {q},
           Panels!Offers(q.op), q.op # "first", q.op = "again" => q.at = 0, q.served = FALSE,
           q.op \notin {"first", "more", "again"} => q.id \in PanelId,
           q.copy = tale.copy, q.guarded = panel.load.guarded, q.scope = scope,
           q.n = panelCount.acts, q.form = form,
           flags \subseteq flags', flags' \subseteq {"loading", "loadingMore"},
           busy' \in {NoneYet, 0} \cup PanelId, issue' \in {"none", "load", "more"},
           "loading" \in flags' => "loading" \in flags \/ (Panels!ByOffset /\ q.op = "again"),
           "loadingMore" \in flags' => "loadingMore" \in flags \/ q.op = "more",
           busy' = busy \/ (busy' # Panels!NotBusy /\ q.op \in PanelsWorking),
           q.op = "more" => q.at = (IF Panels!ByOffset THEN Len(shown) ELSE next),
           q.op = "create" => busy' # Panels!NotBusy
    PROVE  Panels!WebPanelsInv'
<1>1. Panels!TypeOK /\ PanelsSound /\ Panels!TablesGrow /\ PanelsOwn /\ PanelsFollows /\ PanelsWaits /\ PanelsForms
  BY PanelsPartsOfInv
<1>2. /\ panelCount' \in [acts : 0..MaxPanelActs, failures : 0..MaxPanelFailures]
      /\ panelCount'.acts = panelCount.acts + 1 /\ panelCount.acts \in Nat /\ panelCount'.acts \in Nat
  BY <1>1, PanelsActsCount DEF Panels!InProject
<1>3. Panels!TypeOK'
  BY <1>1, <1>2 DEF Panels!TypeOK, Panels!HasEachOnce
<1>4. PanelsSound'
  <2>1. tale.copy \in Nat
    BY <1>1 DEF Panels!TypeOK, Panels!Told
  <2>2. q.copy <= tale'.copy
    BY <2>1
  <2>3. Panels!RequestIsSound(q)'
    BY <2>2, PanelsNewIsSound
  <2>4. \A r \in inflight : r.op = "first" => r.scope = scope'
    BY <1>1 DEF PanelsSound, Panels!RequestIsSound
  <2> QED BY <1>1, <2>1, <2>3, <2>4, PanelsSoundStays
<1>5. Panels!TablesGrow' /\ PanelsOwn'
  BY <1>1, PanelsOwnStays DEF Panels!TablesGrow, Panels!ByOffset
<1>6. PanelsFollows'
  <2>1. Panels!ShowsAllItPassed'
    BY <1>1 DEF PanelsFollows, Panels!ShowsAllItPassed, Panels!Steady, Panels!ByOffset
  <2>2. ASSUME Panels!Goes(q)
        PROVE  IF Panels!ByOffset THEN q.at <= Len(shown) ELSE \A id \in Panels!Steady : id <= q.at => Panels!Passed(id)
    <3>1. q.op = "more" /\ tale.based /\ ~tale.mixed /\ ~tale.late /\ scope # NoProject
      BY <2>2 DEF Panels!Goes, Panels!InProject
    <3>2. Len(shown) \in Nat
      BY <1>1 DEF Panels!TypeOK
    <3>3. CASE Panels!ByOffset
      BY <3>1, <3>2, <3>3
    <3>4. CASE ~Panels!ByOffset
      BY <1>1, <3>1, <3>4 DEF PanelsFollows, Panels!ShowsAllItPassed, Panels!Passed
    <3> QED BY <3>3, <3>4
  <2>3. Panels!PagesFollow'
    <3> SUFFICES ASSUME scope # NoProject, NEW r \in inflight', Panels!Goes(r)
                 PROVE  IF Panels!ByOffset THEN r.at <= Len(shown)
                        ELSE \A id \in Panels!Steady : id <= r.at => Panels!Passed(id)
      BY DEF Panels!PagesFollow, Panels!Goes, Panels!ByOffset, Panels!Steady, Panels!Passed
    <3> QED BY <1>1, <2>2 DEF PanelsFollows, Panels!PagesFollow
  <2> QED BY <2>1, <2>3 DEF PanelsFollows
<1>7. PanelsWaits'
  BY <1>1, PanelsWaitsMore
<1>8. PanelsForms'
  <2>1. ASSUME panel.form = "keyed", NEW r \in inflight, r.op = "create"
        PROVE  /\ r.n < panelCount'.acts
               /\ r.form.mount = form.mount /\ tale.freed <= r.n =>
                     busy' # Panels!NotBusy /\ form.draft = r.form.draft
    <3>1. r.n \in Nat /\ r.n < panelCount.acts
      BY <1>1, <2>1 DEF Panels!TypeOK, Panels!Request, PanelsForms, Panels!FormsWait
    <3>2. r.form.mount = form.mount /\ tale.freed <= r.n => busy # Panels!NotBusy /\ form.draft = r.form.draft
      BY <1>1, <2>1 DEF PanelsForms, Panels!FormsWait
    <3> QED BY <1>2, <3>1, <3>2
  <2>2. q.op = "create" => q.n < panelCount'.acts /\ busy' # Panels!NotBusy /\ form.draft = q.form.draft
    BY <1>2
  <2> QED BY <1>1, <2>1, <2>2 DEF PanelsForms, Panels!KeyedFormsKeepText, Panels!FormsWait,
             Panels!NotBusy
<1> QED BY <1>3, <1>4, <1>5, <1>6, <1>7, <1>8, PanelsPartsMakeInv

LEMMA PanelsAskGuarded ==
    ASSUME Panels!TypeOK, NEW op, Panels!Does(op), NEW p, NEW c, NEW pos, NEW id
    PROVE  Panels!Ask(op, Panels!GuardOf(op), p, c, pos, id) = Panels!Ask(op, panel.load.guarded, p, c, pos, id)
<1>1. panel.load.guarded \in BOOLEAN
  BY PanelsHaveThat DEF Panels!TypeOK, PanelsFits
<1>2. Panels!GuardOf(op) <=> panel.load.guarded
  BY PanelsGuardIs DEF Panels!TypeOK
<1>3. Panels!GuardOf(op) \in BOOLEAN
  BY DEF Panels!GuardOf
<1>4. Panels!GuardOf(op) = panel.load.guarded
  BY <1>1, <1>2, <1>3
<1> QED BY <1>4 DEF Panels!Ask

LEMMA PanelsFormIs ==
    Panels!TypeOK => /\ form \in [mount : Nat, draft : Nat] /\ panelCount.acts \in Nat
                     /\ Panels!NoReply \in [ok : BOOLEAN, rows : Seq(PanelProject \X PanelId), next : Nat \cup {NoneYet}]
                     /\ panel.load.guarded \in BOOLEAN
BY PanelsHaveThat DEF Panels!NoReply, Panels!TypeOK, PanelsFits

LEMMA PanelsLoadMoreKeeps ==
    ASSUME WebPlaneAssumptions, Panels!WebPanelsInv, Panels!LoadMore
    PROVE  Panels!WebPanelsInv'
<1>1. Panels!TypeOK /\ Panels!Does("more") /\ Panels!HasNext /\ Panels!InProject
  BY DEF Panels!WebPanelsInv, Panels!LoadMore
<1> PICK pos : pos = (IF Panels!ByOffset THEN Len(shown) ELSE next)
  OBVIOUS
<1>2. pos \in Nat /\ scope \in PanelProject /\ tale.copy \in Nat /\ "more" \in PanelsOps /\ 0 \in Nat
  BY <1>1 DEF Panels!TypeOK, Panels!Told, Panels!HasNext, Panels!InProject, PanelsOps
<1>3. Panels!Ask("more", Panels!GuardOf("more"), scope, tale.copy, pos, 0)
      = Panels!Ask("more", panel.load.guarded, scope, tale.copy, pos, 0)
  BY <1>1, PanelsAskGuarded
<1> PICK q : q = Panels!Ask("more", panel.load.guarded, scope, tale.copy, pos, 0)
  OBVIOUS
<1>4. /\ q \in Panels!Request /\ q.op = "more" /\ q.guarded = panel.load.guarded /\ q.scope = scope
      /\ q.copy = tale.copy /\ q.at = pos /\ q.form = form /\ q.n = panelCount.acts /\ q.served = FALSE
  BY <1>1, <1>2, <1>3, PanelsFormIs DEF Panels!Ask, Panels!Request, PanelsOps
<1>5. inflight' = inflight \cup {q} /\ flags' = flags \cup {"loadingMore"} /\ issue' = "none"
      /\ UNCHANGED <<panel, panelTable, scope, shown, next, busy, form, tale>>
  BY <1>3 DEF Panels!LoadMore
<1>6. Panels!Offers(q.op)
  BY <1>1, <1>4 DEF Panels!Offers
<1> QED BY <1>1, <1>4, <1>5, <1>6, PanelsAskKeeps DEF Panels!TypeOK

LEMMA PanelsReloadAssetsKeeps ==
    ASSUME WebPlaneAssumptions, Panels!WebPanelsInv, Panels!ReloadAssets
    PROVE  Panels!WebPanelsInv'
<1>1. Panels!TypeOK /\ Panels!Does("reload") /\ Panels!InProject
  BY DEF Panels!WebPanelsInv, Panels!ReloadAssets
<1>2. scope \in PanelProject /\ tale.copy \in Nat /\ "again" \in PanelsOps /\ 0 \in Nat
  BY <1>1 DEF Panels!TypeOK, Panels!Told, Panels!InProject, PanelsOps
<1>3. Panels!ByOffset /\ panel.load.guarded = FALSE
  BY <1>1, PanelsGuardIs, PanelsHaveThat DEF Panels!TypeOK, PanelsFits, Panels!ByOffset
<1> PICK q : q = Panels!Ask("again", FALSE, scope, tale.copy, 0, 0)
  OBVIOUS
<1>4. /\ q \in Panels!Request /\ q.op = "again" /\ q.guarded = panel.load.guarded /\ q.scope = scope
      /\ q.copy = tale.copy /\ q.at = 0 /\ q.form = form /\ q.n = panelCount.acts /\ q.served = FALSE
  BY <1>1, <1>2, <1>3, PanelsFormIs DEF Panels!Ask, Panels!Request, PanelsOps
<1>5. inflight' = inflight \cup {q} /\ flags' = flags \cup {"loading"} /\ issue' = "none"
      /\ UNCHANGED <<panel, panelTable, scope, shown, next, busy, form, tale>>
  BY DEF Panels!ReloadAssets
<1>6. Panels!Offers(q.op)
  BY <1>1, <1>4 DEF Panels!Offers
<1> QED BY <1>1, <1>3, <1>4, <1>5, <1>6, PanelsAskKeeps DEF Panels!TypeOK

LEMMA PanelsActKeeps ==
    ASSUME WebPlaneAssumptions, Panels!WebPanelsInv, NEW op \in {"create", "change", "beside",
           "run", "execute"},
           NEW id \in PanelId, Panels!Act(op, id)
    PROVE  Panels!WebPanelsInv'
<1>1. Panels!TypeOK /\ Panels!Does(op) /\ Panels!InProject
  BY DEF Panels!WebPanelsInv, Panels!Act
<1>2. scope \in PanelProject /\ tale.copy \in Nat /\ op \in PanelsOps /\ 0 \in Nat /\ id \in Nat /\ NoneYet \notin Nat
  BY <1>1 DEF Panels!TypeOK, Panels!Told, Panels!InProject, PanelsOps, WebPlaneAssumptions,
     Panels!WebPanelsAssumption
<1>3. Panels!Ask(op, Panels!GuardOf(op), scope, tale.copy, 0, id) = Panels!Ask(op, panel.load.guarded, scope, tale.copy, 0, id)
  BY <1>1, PanelsAskGuarded
<1> PICK q : q = Panels!Ask(op, panel.load.guarded, scope, tale.copy, 0, id)
  OBVIOUS
<1>4. /\ q \in Panels!Request /\ q.op = op /\ q.guarded = panel.load.guarded /\ q.scope = scope
      /\ q.copy = tale.copy /\ q.at = 0 /\ q.form = form /\ q.n = panelCount.acts /\ q.served = FALSE
      /\ q.id = id
  BY <1>1, <1>2, <1>3, PanelsFormIs DEF Panels!Ask, Panels!Request, PanelsOps
<1>5. inflight' = inflight \cup {q} /\ busy' = (IF op = "create" THEN 0 ELSE id)
      /\ UNCHANGED <<panel, panelTable, scope, shown, next, flags, issue, form, tale>>
  BY <1>3 DEF Panels!Act
<1>6. Panels!Offers(q.op)
  BY <1>1, <1>4 DEF Panels!Offers
<1>7. busy' \in {NoneYet, 0} \cup PanelId /\ busy' # Panels!NotBusy /\ q.op \in PanelsWorking
  BY <1>2, <1>4, <1>5 DEF Panels!NotBusy, PanelsWorking
<1> QED BY <1>1, <1>4, <1>5, <1>6, <1>7, PanelsAskKeeps DEF Panels!TypeOK

-----------------------------------------------------------------------------
(* The server answers.                                                     *)
PanelsReply == [ok : BOOLEAN, rows : Seq(PanelProject \X PanelId), next : Nat \cup {NoneYet}]

LEMMA PanelsMinIs ==
    ASSUME NEW S \in SUBSET Nat, S # {}
    PROVE  Panels!Min(S) \in S /\ \A y \in S : Panels!Min(S) <= y
BY LeastNatural DEF Panels!Min

LEMMA PanelsRanksDiffer ==
    ASSUME NEW S \in SUBSET Nat, Panels!IsFiniteSet(S), NEW x \in S, NEW y \in S,
           Panels!Cardinality({j \in S : j < x}) = Panels!Cardinality({j \in S : j < y})
    PROVE  x = y
<1>1. ASSUME NEW a \in S, NEW b \in S, a < b
      PROVE  Panels!Cardinality({j \in S : j < a}) # Panels!Cardinality({j \in S : j < b})
  <2> DEFINE A == {j \in S : j < a}
             B == {j \in S : j < b}
  <2>1. a \in Nat /\ b \in Nat /\ \A j \in S : j \in Nat
    OBVIOUS
  <2>2. A \subseteq B /\ B \subseteq S /\ a \in B /\ a \notin A
    <3>1. ASSUME NEW j \in S, j < a PROVE j < b
      BY <1>1, <2>1, <3>1
    <3>2. ~(a < a)
      BY <2>1
    <3> QED BY <1>1, <3>1, <3>2
  <2> HIDE DEF A, B
  <2>3. Panels!IsFiniteSet(B)
    BY <2>2, PanelsSubsetCount
  <2>4. Panels!Cardinality(A) # Panels!Cardinality(B)
    BY <2>2, <2>3, PanelsSubsetCount
  <2> QED BY <2>4 DEF A, B
<1>2. x \in Nat /\ y \in Nat /\ ~(x < y) /\ ~(y < x)
  BY <1>1
<1> QED BY <1>2

LEMMA PanelsOneRow ==
    ASSUME NEW S, NEW x \in S, NEW f, f = <<x>>
    PROVE  f \in Seq(S) /\ DOMAIN f = {1} /\ Len(f) = 1 /\ f[1] = x
OBVIOUS

LEMMA PanelsRowsOf ==
    ASSUME NEW p \in PanelProject, NEW rows \in Seq(PanelId), NEW out,
           out = [i \in DOMAIN rows |-> <<p, rows[i]>>]
    PROVE  /\ out \in Seq(PanelProject \X PanelId) /\ DOMAIN out = DOMAIN rows /\ Len(out) = Len(rows)
           /\ \A i \in DOMAIN rows : out[i] = <<p, rows[i]>>
<1>1. rows \in [1..Len(rows) -> PanelId] /\ Len(rows) \in Nat /\ DOMAIN rows = 1..Len(rows)
  OBVIOUS
<1>2. out \in [1..Len(rows) -> PanelProject \X PanelId]
  BY <1>1
<1> QED BY <1>1, <1>2

LEMMA PanelsListedIs ==
    ASSUME WebPlaneAssumptions, Panels!TypeOK, Panels!TablesGrow, NEW r \in Panels!Request,
           NEW reply, reply = Panels!Listed(r),
           NEW m, m.reply = reply, m.scope = r.scope, m.at = r.at
    PROVE  /\ reply \in PanelsReply
           /\ Panels!PageIsWhole(m)
<1> PICK p, pos, all : p = r.scope /\ pos = r.at /\ all = panelTable[p]
  OBVIOUS
<1>1. /\ p \in PanelProject /\ pos \in Nat /\ all \subseteq PanelId /\ all \in SUBSET Nat /\ Panels!IsFiniteSet(all)
      /\ PanelRows[p] \subseteq all /\ (Panels!ByOffset => PanelRows[p] = all)
      /\ panel.paging \in {"cursor", "offset", "whole"}
  BY PanelsHaveThat DEF Panels!TypeOK, Panels!TablesGrow, WebPlaneAssumptions,
     Panels!WebPanelsAssumption, Panels!Request,
     PanelsFits
<1>2. PICK rest : rest = {id \in all : id > pos}
  OBVIOUS
<1>3. PICK page : page = (IF Panels!ByOffset THEN {id \in all : Panels!Cardinality({j \in all : j < id}) = pos} ELSE rest)
  OBVIOUS
<1>4. PICK rows : rows = (IF panel.paging = "whole" THEN Panels!SetToSeq(rest)
                        ELSE IF page = {} THEN <<>> ELSE <<Panels!Min(page)>>)
  OBVIOUS
<1>5. /\ reply.ok = TRUE /\ reply.rows = [i \in DOMAIN rows |-> <<p, rows[i]>>]
      /\ reply.next = (IF Panels!ByOffset THEN Panels!Cardinality(all)
                       ELSE IF panel.paging = "cursor" /\ \E id \in rest : rest # {id} THEN Panels!Min(rest)
                       ELSE NoneYet)
      /\ reply = [ok |-> reply.ok, rows |-> reply.rows, next |-> reply.next]
  <2>1. reply = [ok |-> TRUE, rows |-> [i \in DOMAIN rows |-> <<p, rows[i]>>],
                 next |-> IF Panels!ByOffset THEN Panels!Cardinality(all)
                          ELSE IF panel.paging = "cursor" /\ \E id \in rest : rest # {id} THEN Panels!Min(rest)
                          ELSE NoneYet]
    BY <1>2, <1>3, <1>4 DEF Panels!Listed
  <2> QED BY ONLY <2>1
<1>6. rest \subseteq all /\ rest \in SUBSET Nat /\ page \subseteq all /\ page \in SUBSET Nat
      /\ Panels!IsFiniteSet(rest)
  <2>1. rest \subseteq all /\ page \subseteq all
    BY <1>2, <1>3
  <2> QED BY <1>1, <2>1, PanelsSubsetCount
<1>7. ASSUME panel.paging # "whole", page # {}
      PROVE  rows = <<Panels!Min(page)>> /\ Panels!Min(page) \in page
  BY <1>4, <1>6, <1>7, PanelsMinIs
<1>8. /\ rows \in Seq(PanelId) /\ \A i, j \in DOMAIN rows : rows[i] = rows[j] => i = j
      /\ panel.paging # "whole" => Len(rows) <= 1
  <2>1. CASE panel.paging = "whole"
    <3>1. rows \in Seq(rest) /\ \A i, j \in DOMAIN rows : rows[i] = rows[j] => i = j
      BY <1>4, <1>6, <2>1, PanelsAllInOrder
    <3>2. rest \subseteq PanelId
      BY <1>1, <1>6
    <3> QED BY <2>1, <3>1, <3>2
  <2>2. CASE panel.paging # "whole" /\ page = {}
    <3>1. rows = <<>>
      BY <1>4, <2>2
    <3> QED BY <3>1
  <2>3. CASE panel.paging # "whole" /\ page # {}
    <3>1. Panels!Min(page) \in PanelId
      BY <1>1, <1>6, <1>7, <2>3
    <3>2. rows \in Seq(PanelId) /\ DOMAIN rows = {1} /\ Len(rows) = 1
      BY <1>7, <2>3, <3>1, PanelsOneRow
    <3> QED BY <3>2
  <2> QED BY <2>1, <2>2, <2>3
<1>9. /\ reply.rows \in Seq(PanelProject \X PanelId) /\ Len(reply.rows) = Len(rows)
      /\ DOMAIN reply.rows = DOMAIN rows
      /\ \A i \in DOMAIN rows : reply.rows[i] = <<p, rows[i]>>
  BY <1>1, <1>5, <1>8, PanelsRowsOf
<1>10. reply.next \in Nat \cup {NoneYet}
  <2>1. Panels!Cardinality(all) \in Nat
    BY <1>1, PanelsSubsetCount
  <2>2. rest # {} => Panels!Min(rest) \in Nat
    BY <1>6, PanelsMinIs
  <2> QED BY <1>5, <2>1, <2>2
<1>11. ASSUME NEW id \in PanelRows[p],
             IF Panels!ByOffset THEN Panels!Rank(p, id) = pos
             ELSE id > pos /\ (reply.next = NoneYet \/ id <= reply.next)
      PROVE  \E i \in DOMAIN rows : rows[i] = id
  <2>1. id \in all /\ id \in Nat
    BY <1>1
  <2>2. CASE Panels!ByOffset
    <3>1. id \in page /\ panel.paging # "whole" /\ PanelRows[p] = all
      BY <1>1, <1>3, <1>11, <2>1, <2>2 DEF Panels!Rank, Panels!ByOffset
    <3>2. Panels!Min(page) \in page /\ rows = <<Panels!Min(page)>>
      BY <1>7, <3>1
    <3>3. Panels!Min(page) \in all /\ Panels!Cardinality({j \in all : j < Panels!Min(page)}) = pos
      BY <1>3, <2>2, <3>2
    <3>4. Panels!Cardinality({j \in all : j < id}) = pos
      BY <1>11, <2>2, <3>1 DEF Panels!Rank
    <3> PICK x : x = Panels!Min(page)
      OBVIOUS
    <3>5. x \in all /\ Panels!Cardinality({j \in all : j < x}) = Panels!Cardinality({j \in all : j < id})
      BY <3>3, <3>4
    <3>6. x = id
      BY <1>1, <2>1, <3>5, PanelsRanksDiffer
    <3> QED BY <2>1, <3>2, <3>6, PanelsOneRow
  <2>3. CASE panel.paging = "whole"
    <3>1. id \in rest
      BY <1>2, <1>11, <2>1, <2>3 DEF Panels!ByOffset
    <3>2. rows = Panels!SetToSeq(rest)
      BY <1>4, <2>3
    <3> QED BY <1>6, <3>1, <3>2, PanelsAllInOrder
  <2>4. CASE panel.paging = "cursor"
    <3>1. ~Panels!ByOffset /\ id \in rest /\ page = rest
      BY <1>2, <1>3, <1>11, <2>1, <2>4 DEF Panels!ByOffset
    <3>2. Panels!Min(rest) \in rest /\ Panels!Min(rest) <= id /\ Panels!Min(rest) \in Nat
      BY <1>6, <3>1, PanelsMinIs
    <3>3. Panels!Min(rest) = id
      <4>1. CASE \E x \in rest : rest # {x}
        <5>1. reply.next = Panels!Min(rest) /\ NoneYet \notin Nat
          BY <1>5, <2>4, <3>1, <4>1 DEF WebPlaneAssumptions, Panels!WebPanelsAssumption
        <5> QED BY <1>11, <2>1, <3>1, <3>2, <5>1
      <4>2. CASE ~ \E x \in rest : rest # {x}
        BY <3>1, <3>2, <4>2
      <4> QED BY <4>1, <4>2
    <3>4. rows = <<id>>
      BY <1>7, <2>4, <3>1, <3>3
    <3> QED BY <3>4, PanelsOneRow
  <2> QED BY <1>1, <2>2, <2>3, <2>4 DEF Panels!ByOffset
<1>12. ASSUME Panels!ByOffset, NEW i \in DOMAIN rows
       PROVE  rows[i] \in PanelRows[p] /\ Panels!Rank(p, rows[i]) = pos
  <2>1. panel.paging # "whole" /\ page # {}
    BY <1>4, <1>12 DEF Panels!ByOffset
  <2>2. Panels!Min(page) \in page /\ rows = <<Panels!Min(page)>>
    BY <1>7, <2>1
  <2>3. rows[i] \in page
    BY <1>12, <2>2, PanelsOneRow
  <2> QED BY <1>1, <1>3, <1>12, <2>3 DEF Panels!Rank
<1>13. Panels!HasEachOnce(reply.rows)
  BY <1>8, <1>9 DEF Panels!HasEachOnce
<1>14. Panels!PageIsWhole(m)
  <2>1. m.reply.rows = reply.rows /\ m.reply.next = reply.next /\ m.scope = p /\ m.at = pos
    OBVIOUS
  <2>2. panel.paging # "whole" => Len(reply.rows) <= 1
    BY <1>8, <1>9
  <2>3. ASSUME NEW i \in DOMAIN reply.rows
        PROVE  /\ reply.rows[i][1] = p
               /\ Panels!ByOffset => reply.rows[i][2] \in PanelRows[p] /\ Panels!Rank(p, reply.rows[i][2]) = pos
    BY <1>9, <1>12
  <2>4. ASSUME NEW id \in PanelRows[p],
               IF Panels!ByOffset THEN Panels!Rank(p, id) = pos
               ELSE id > pos /\ (reply.next = NoneYet \/ id <= reply.next)
        PROVE  \E i \in DOMAIN reply.rows : reply.rows[i] = <<p, id>>
    BY <1>9, <1>11, <2>4
  <2> QED BY <1>13, <2>1, <2>2, <2>3, <2>4 DEF Panels!PageIsWhole
<1>15. reply \in PanelsReply
  BY <1>5, <1>9, <1>10 DEF PanelsReply
<1> QED BY <1>14, <1>15

LEMMA PanelsAnsweredKeeps ==
    ASSUME WebPlaneAssumptions, Panels!WebPanelsInv, NEW r \in inflight, ~r.served,
           NEW reply \in PanelsReply,
           Panels!Answered(r, reply),
           UNCHANGED <<panel, scope, shown, next, flags, busy, issue, form, tale>>,
           panelCount' \in [acts : 0..MaxPanelActs, failures : 0..MaxPanelFailures],
           panelCount'.acts = panelCount.acts,
           panelTable' \in [PanelProject -> SUBSET PanelId], Panels!TablesGrow',
           NEW m, m = [r EXCEPT !.served = TRUE, !.reply = reply],
           reply.ok => IF r.op \in {"first", "more", "again"} THEN Panels!PageIsWhole(m)
                       ELSE reply.rows = <<<<r.scope, r.id>>>>
    PROVE  Panels!WebPanelsInv'
<1>1. Panels!TypeOK /\ PanelsSound /\ Panels!TablesGrow /\ PanelsOwn /\ PanelsFollows /\ PanelsWaits /\ PanelsForms
  BY PanelsPartsOfInv
<1>2. /\ m \in Panels!Request /\ m.op = r.op /\ m.scope = r.scope /\ m.copy = r.copy /\ m.at = r.at
      /\ m.id = r.id /\ m.form = r.form /\ m.guarded = r.guarded /\ m.n = r.n
      /\ m.served = TRUE /\ m.reply = reply
  <2>1. r \in Panels!Request
    BY <1>1 DEF Panels!TypeOK
  <2> QED BY <2>1 DEF Panels!Request, PanelsReply
<1>3. inflight' = (inflight \ {r}) \cup {m}
  BY DEF Panels!Answered
<1>4. Panels!TypeOK'
  BY <1>1, <1>2, <1>3 DEF Panels!TypeOK, Panels!HasEachOnce
<1>5. PanelsSound'
  <2>1. Panels!RequestIsSound(r) /\ tale.copy \in Nat
    BY <1>1 DEF PanelsSound, Panels!TypeOK, Panels!Told
  <2>2. Panels!Offers(m.op)' /\ (Panels!PageIsWhole(m) => Panels!PageIsWhole(m)')
    BY <1>2, <2>1 DEF Panels!RequestIsSound, Panels!Offers, Panels!Does, Panels!PageIsWhole,
       Panels!ByOffset, Panels!Rank
  <2>3. Panels!RequestIsSound(m)'
    BY <1>2, <2>1, <2>2 DEF Panels!RequestIsSound
  <2>4. \A q \in inflight : q.op = "first" => q.scope = scope'
    BY <1>1 DEF PanelsSound, Panels!RequestIsSound
  <2> QED BY <1>1, <1>3, <2>1, <2>3, <2>4, PanelsSoundStays
<1>6. PanelsOwn'
  BY <1>1, PanelsOwnStays
<1>7. PanelsFollows'
  <2>1. \A id \in Panels!Steady : Panels!Passed(id) => Panels!Passed(id)'
    BY DEF Panels!Passed
  <2>2. \A q \in inflight' : q.op = "more" =>
            \E o \in inflight : o.op = "more" /\ o.copy = q.copy /\ o.at = q.at
    <3>1. ASSUME NEW q \in inflight', q.op = "more"
          PROVE  \E o \in inflight : o.op = "more" /\ o.copy = q.copy /\ o.at = q.at
      <4>1. CASE q \in inflight
        BY <3>1, <4>1
      <4>2. CASE q = m
        BY <1>2, <3>1, <4>2
      <4> QED BY <1>3, <4>1, <4>2
    <3> QED BY <3>1
  <2> QED BY <1>1, <2>1, <2>2, PanelsFollowsStays
<1>8. PanelsWaits'
  <2>1. \A ops : Panels!Asked(ops) => Panels!Asked(ops)'
    BY <1>2, <1>3 DEF Panels!Asked
  <2>2. Panels!LoadingIsAsked'
    <3> SUFFICES ASSUME "loading" \in flags
                 PROVE  \E q \in inflight' : q.op = "first" \/ (Panels!ByOffset /\ q.op = "again")
      BY DEF Panels!LoadingIsAsked, Panels!ByOffset
    <3>1. PICK q \in inflight : q.op = "first" \/ (Panels!ByOffset /\ q.op = "again")
      BY <1>1 DEF PanelsWaits, Panels!LoadingIsAsked
    <3> QED BY <1>2, <1>3, <3>1
  <2> QED BY <1>1, <2>1, <2>2 DEF PanelsWaits, Panels!WaitsForSomething, Panels!NotBusy
<1>9. PanelsForms'
  <2>1. panelCount.acts \in Nat
    BY <1>1 DEF Panels!TypeOK
  <2>2. \A q \in inflight' : q.op = "create" =>
            \E o \in inflight : o.op = "create" /\ o.n = q.n /\ o.form = q.form
    <3>1. ASSUME NEW q \in inflight', q.op = "create"
          PROVE  \E o \in inflight : o.op = "create" /\ o.n = q.n /\ o.form = q.form
      <4>1. CASE q \in inflight
        BY <3>1, <4>1
      <4>2. CASE q = m
        BY <1>2, <3>1, <4>2
      <4> QED BY <1>3, <4>1, <4>2
    <3> QED BY <3>1
  <2> QED BY <1>1, <2>1, <2>2, PanelsFormsStay
<1> QED BY <1>4, <1>5, <1>6, <1>7, <1>8, <1>9, PanelsPartsMakeInv

LEMMA PanelsRefuseKeeps ==
    ASSUME WebPlaneAssumptions, Panels!WebPanelsInv, NEW r \in inflight, Panels!Refuse(r)
    PROVE  Panels!WebPanelsInv'
<1>1. Panels!TypeOK /\ Panels!TablesGrow
  BY PanelsPartsOfInv
<1>2. Panels!NoReply \in PanelsReply /\ Panels!NoReply.ok = FALSE
  BY DEF Panels!NoReply, PanelsReply
<1> PICK m : m = [r EXCEPT !.served = TRUE, !.reply = Panels!NoReply]
  OBVIOUS
<1>3. /\ UNCHANGED <<panel, panelTable, scope, shown, next, flags, busy, issue, form, tale>>
      /\ ~r.served /\ Panels!Answered(r, Panels!NoReply)
  BY DEF Panels!Refuse
<1>4. panelCount' \in [acts : 0..MaxPanelActs, failures : 0..MaxPanelFailures] /\ panelCount'.acts = panelCount.acts
  <2>1. /\ panelCount \in [acts : 0..MaxPanelActs, failures : 0..MaxPanelFailures] /\ MaxPanelFailures \in Nat
        /\ panelCount.failures < MaxPanelFailures /\ panelCount' = [panelCount EXCEPT !.failures = @ + 1]
    BY <1>1 DEF Panels!TypeOK, WebPlaneAssumptions, Panels!WebPanelsAssumption, Panels!Refuse
  <2> QED BY <2>1
<1>5. Panels!TablesGrow'
  BY <1>1, <1>3 DEF Panels!TablesGrow, Panels!ByOffset
<1>6. panelTable' \in [PanelProject -> SUBSET PanelId]
  BY <1>1, <1>3 DEF Panels!TypeOK
<1> QED BY <1>2, <1>3, <1>4, <1>5, <1>6, PanelsAnsweredKeeps

LEMMA PanelsReplyIs ==
    ASSUME NEW rows \in Seq(PanelProject \X PanelId), NEW reply,
           reply = [Panels!NoReply EXCEPT !.ok = TRUE, !.rows = rows]
    PROVE  reply \in PanelsReply /\ reply.rows = rows
<1>1. [ok |-> TRUE, rows |-> rows, next |-> NoneYet] \in PanelsReply
  BY DEF PanelsReply
<1>2. reply = [ok |-> TRUE, rows |-> rows, next |-> NoneYet]
  BY DEF Panels!NoReply
<1>3. reply.rows = rows
  BY <1>2
<1> QED BY <1>1, <1>2, <1>3

LEMMA PanelsServeKeeps ==
    ASSUME WebPlaneAssumptions, Panels!WebPanelsInv, NEW r \in inflight, Panels!Serve(r)
    PROVE  Panels!WebPanelsInv'
<1>1. Panels!TypeOK /\ Panels!TablesGrow /\ r \in Panels!Request /\ Panels!RequestIsSound(r)
  BY PanelsPartsOfInv DEF Panels!TypeOK, PanelsSound
<1>2. /\ UNCHANGED <<panel, scope, shown, next, flags, busy, issue, form, tale, panelCount>> /\ ~r.served
      /\ panelTable' = (IF r.op \in {"create", "run"} THEN [panelTable EXCEPT ![r.scope] = @ \cup {r.id}] ELSE panelTable)
  BY DEF Panels!Serve
<1>3. /\ panelCount' \in [acts : 0..MaxPanelActs, failures : 0..MaxPanelFailures] /\ panelCount'.acts = panelCount.acts
  BY <1>1, <1>2 DEF Panels!TypeOK
<1>4. CASE r.op \in {"first", "more", "again"}
  <2> PICK reply : reply = Panels!Listed(r)
    OBVIOUS
  <2> PICK m : m = [r EXCEPT !.served = TRUE, !.reply = reply]
    OBVIOUS
  <2>1. m.reply = reply /\ m.scope = r.scope /\ m.at = r.at
    BY <1>1 DEF Panels!Request
  <2>2. reply \in PanelsReply /\ Panels!PageIsWhole(m)
    BY <1>1, <2>1, PanelsListedIs
  <2>3. Panels!Answered(r, reply) /\ panelTable' = panelTable
    BY <1>2, <1>4 DEF Panels!Serve
  <2>4. Panels!TablesGrow' /\ panelTable' \in [PanelProject -> SUBSET PanelId]
    BY <1>1, <1>2, <2>3 DEF Panels!TablesGrow, Panels!ByOffset, Panels!TypeOK
  <2> QED BY <1>2, <1>3, <1>4, <2>2, <2>3, <2>4, PanelsAnsweredKeeps
<1>5. CASE r.op \notin {"first", "more", "again"}
  <2> PICK reply : reply = [Panels!NoReply EXCEPT !.ok = TRUE, !.rows = <<<<r.scope, r.id>>>>]
    OBVIOUS
  <2> PICK m : m = [r EXCEPT !.served = TRUE, !.reply = reply]
    OBVIOUS
  <2>1. r.scope \in PanelProject
    BY <1>1 DEF Panels!Request
  <2>2. r.id \in PanelId
    BY <1>1, <1>5 DEF Panels!RequestIsSound
  <2>3. /\ reply \in PanelsReply
        /\ reply.rows = <<<<r.scope, r.id>>>>
    <3>1. <<<<r.scope, r.id>>>> \in Seq(PanelProject \X PanelId)
      BY <2>1, <2>2
    <3> QED BY <3>1, PanelsReplyIs
  <2>4. Panels!Answered(r, reply)
    BY <1>5 DEF Panels!Serve
  <2>5. panelTable' \in [PanelProject -> SUBSET PanelId]
    BY <1>1, <1>2, <2>1, <2>2 DEF Panels!TypeOK
  <2>6. Panels!TablesGrow'
    <3>1. ASSUME r.op \in {"create", "run"} PROVE ~Panels!ByOffset
      BY <1>1, <3>1, PanelsGuardIs DEF Panels!TypeOK, Panels!RequestIsSound, Panels!Offers
    <3>2. ASSUME NEW p \in PanelProject, r.op \in {"create", "run"}
          PROVE  PanelRows[p] \subseteq panelTable'[p] /\ Panels!IsFiniteSet(panelTable'[p])
      <4>1. CASE p = r.scope
        <5>1. panelTable'[p] = panelTable[p] \cup {r.id}
          BY <1>1, <1>2, <3>2, <4>1 DEF Panels!TypeOK
        <5>2. PanelRows[p] \subseteq panelTable[p] /\ Panels!IsFiniteSet(panelTable[p])
          BY <1>1 DEF Panels!TablesGrow
        <5>3. Panels!IsFiniteSet(panelTable[p] \cup {r.id})
          BY <5>2, PanelsOneMore
        <5> QED BY <5>1, <5>2, <5>3
      <4>2. CASE p # r.scope
        <5>1. panelTable'[p] = panelTable[p]
          BY <1>1, <1>2, <3>2, <4>2 DEF Panels!TypeOK
        <5> QED BY <1>1, <5>1 DEF Panels!TablesGrow
      <4> QED BY <4>1, <4>2
    <3>3. CASE r.op \in {"create", "run"}
      BY <1>2, <3>1, <3>2, <3>3 DEF Panels!TablesGrow, Panels!ByOffset
    <3>4. CASE r.op \notin {"create", "run"}
      BY <1>1, <1>2, <3>4 DEF Panels!TablesGrow, Panels!ByOffset
    <3> QED BY <3>3, <3>4
  <2> QED BY <1>2, <1>3, <1>5, <2>2, <2>3, <2>4, <2>5, <2>6, PanelsAnsweredKeeps
<1> QED BY <1>4, <1>5

-----------------------------------------------------------------------------
(* An answer arrives.                                                      *)
LEMMA PanelsOwnRows ==
    ASSUME PanelsOwn, UNCHANGED <<scope, panel>>, tale'.based = tale.based, NEW r,
           tale'.late <=> tale.late \/ r.scope # scope, r.scope # scope => ~panel.load.guarded,
           \A i \in DOMAIN shown' :
               shown'[i][1] = r.scope \/ \E j \in DOMAIN shown : shown'[i][1] = shown[j][1],
           panel.load.empties \/ ("loading" \in flags => "loading" \in flags')
    PROVE  PanelsOwn'
<1>1. Panels!ShowsItsProject'
  BY DEF PanelsOwn, Panels!ShowsItsProject
<1>2. Panels!ListsAreOwn'
  <2> SUFFICES ASSUME ~tale'.late, panel.load.empties \/ tale'.based, NEW i \in DOMAIN shown'
               PROVE  shown'[i][1] = scope
    BY DEF Panels!ListsAreOwn
  <2>1. ~tale.late /\ r.scope = scope
    OBVIOUS
  <2>2. \A j \in DOMAIN shown : shown[j][1] = scope
    BY <2>1 DEF PanelsOwn, Panels!ListsAreOwn
  <2> QED BY <2>1, <2>2
<1> QED BY <1>1, <1>2 DEF PanelsOwn

LEMMA PanelsTakenKeeps ==
    ASSUME Panels!WebPanelsInv, NEW r \in inflight, UNCHANGED <<panel, panelTable, scope,
           panelCount>>,
           inflight' = inflight \ {r},
           shown' \in Seq(PanelProject \X PanelId), Panels!HasEachOnce(shown'),
           next' \in Nat \cup {NoneYet},
           flags' \subseteq flags, busy' \in {busy, Panels!NotBusy},
           issue' \in {"none", "load", "more"},
           form' \in [mount : Nat, draft : 0..MaxPanelActs], tale' \in Panels!Told,
           tale.copy <= tale'.copy,
           "loading" \in flags' => r.op # "first" /\ ~(Panels!ByOffset /\ r.op = "again"),
           "loadingMore" \in flags' => r.op # "more" \/ (r.guarded /\ r.scope # scope),
           busy' # Panels!NotBusy => r.op \in {"first", "more"} \/ (r.guarded /\ r.scope # scope),
           PanelsOwn', PanelsFollows', PanelsForms'
    PROVE  Panels!WebPanelsInv'
<1>1. Panels!TypeOK /\ PanelsSound /\ Panels!TablesGrow /\ PanelsWaits
  BY PanelsPartsOfInv
<1>2. Panels!TypeOK'
  BY <1>1 DEF Panels!TypeOK, Panels!NotBusy
<1>3. PanelsSound'
  <2>1. tale'.copy \in Nat
    BY DEF Panels!Told
  <2>2. \A q \in inflight : q.op = "first" => q.scope = scope'
    BY <1>1 DEF PanelsSound, Panels!RequestIsSound
  <2> QED BY <1>1, <2>1, <2>2, PanelsSoundStays
<1>4. Panels!TablesGrow'
  BY <1>1 DEF Panels!TablesGrow, Panels!ByOffset
<1>5. PanelsWaits'
  BY <1>1, <1>3, PanelsWaitsStays
<1> QED BY <1>2, <1>3, <1>4, <1>5, PanelsPartsMakeInv

\* What is known of the answer that arrives.
LEMMA PanelsTakenIs ==
    ASSUME Panels!WebPanelsInv, NEW r \in inflight
    PROVE  /\ Panels!TypeOK /\ PanelsSound /\ PanelsOwn /\ PanelsFollows /\ PanelsForms /\ r \in Panels!Request /\ Panels!RequestIsSound(r)
           /\ tale \in Panels!Told /\ form \in [mount : Nat, draft : 0..MaxPanelActs] /\ panelCount.acts \in Nat
           /\ ~Panels!Ignored(r) /\ r.scope # scope => ~panel.load.guarded
           /\ shown \in Seq(PanelProject \X PanelId) /\ Panels!HasEachOnce(shown) /\ next \in Nat \cup {NoneYet}
           /\ issue \in {"none", "load", "more"} /\ tale.copy \in Nat /\ tale.copy <= tale.copy
           /\ panel \in Panels!Panels
<1>1. Panels!TypeOK /\ PanelsSound /\ PanelsOwn /\ PanelsFollows /\ PanelsForms
  BY PanelsPartsOfInv
<1>2. r \in Panels!Request /\ Panels!RequestIsSound(r) /\ tale \in Panels!Told /\ panelCount.acts \in Nat
  BY <1>1 DEF Panels!TypeOK, PanelsSound
<1>3. tale.copy \in Nat
  BY <1>2 DEF Panels!Told
<1> QED BY <1>1, <1>2, <1>3 DEF Panels!TypeOK, Panels!RequestIsSound, Panels!Ignored

LEMMA PanelsOthersStay ==
    ASSUME NEW r \in inflight, inflight' = inflight \ {r}
    PROVE  /\ \A q \in inflight' : q.op = "create" =>
                  \E o \in inflight : o.op = "create" /\ o.n = q.n /\ o.form = q.form
           /\ \A q \in inflight' : q.op = "more" =>
                  \E o \in inflight : o.op = "more" /\ o.copy = q.copy /\ o.at = q.at
OBVIOUS

LEMMA PanelsFormsOfOthers == panel.form # "keyed" /\ UNCHANGED panel => PanelsForms'
BY DEF PanelsForms, Panels!KeyedFormsKeepText, Panels!FormsWait

\* What works on a row or asks again belongs to no keyed form.
LEMMA PanelsRowsAndForms ==
    ASSUME panel \in Panels!Panels, NEW r, Panels!RequestIsSound(r), r.op \in {"change", "run",
           "execute", "again"}
    PROVE  panel.form # "keyed" /\ panel.load.empties
<1>1. PICK op \in {"change", "run", "execute", "reload"} : Panels!Does(op)
  BY DEF Panels!RequestIsSound, Panels!Offers
<1>2. ~panel.load.empties => op = "more"
  BY <1>1, PanelsGuardIs
<1>3. panel.form = "keyed" => op \in {"more", "create", "beside"}
  BY <1>1, PanelsGuardIs
<1> QED BY <1>1, <1>2, <1>3, PanelsHaveThat DEF PanelsFits

\* What is as it was, but for the answer.
LEMMA PanelsQuietKeeps ==
    ASSUME Panels!WebPanelsInv, NEW r \in inflight, UNCHANGED <<panel, panelTable, scope,
           panelCount>>,
           UNCHANGED <<shown, next, form>>, inflight' = inflight \ {r},
           tale' = tale \/ (tale' = [tale EXCEPT !.freed = panelCount.acts]),
           flags' \subseteq flags, busy' \in {busy, Panels!NotBusy},
           issue' \in {"none", "load", "more"},
           panel.load.empties \/ ("loading" \in flags => "loading" \in flags'),
           "loading" \in flags' => r.op # "first" /\ ~(Panels!ByOffset /\ r.op = "again"),
           "loadingMore" \in flags' => r.op # "more" \/ (r.guarded /\ r.scope # scope),
           busy' # Panels!NotBusy => r.op \in {"first", "more"} \/ (r.guarded /\ r.scope # scope),
           panel.form = "keyed" => busy' = busy \/ tale' = [tale EXCEPT !.freed = panelCount.acts]
    PROVE  Panels!WebPanelsInv'
<1>1. /\ Panels!TypeOK /\ PanelsSound /\ PanelsOwn /\ PanelsFollows /\ PanelsForms /\ tale \in Panels!Told /\ panelCount.acts \in Nat
      /\ form \in [mount : Nat, draft : 0..MaxPanelActs] /\ tale.copy \in Nat
      /\ shown \in Seq(PanelProject \X PanelId) /\ Panels!HasEachOnce(shown) /\ next \in Nat \cup {NoneYet}
  BY PanelsTakenIs
<1>2. /\ tale' \in Panels!Told /\ tale'.copy = tale.copy /\ tale'.based = tale.based /\ tale'.mixed = tale.mixed
      /\ tale'.late = tale.late /\ tale'.lost = tale.lost
  BY <1>1 DEF Panels!Told
<1>3. PanelsOwn'
  BY <1>1, <1>2, PanelsOwnStays
<1>4. PanelsFollows'
  <2>1. \A id \in Panels!Steady : Panels!Passed(id) => Panels!Passed(id)'
    BY DEF Panels!Passed
  <2>2. \A q \in inflight' : q.op = "more" =>
            \E o \in inflight : o.op = "more" /\ o.copy = q.copy /\ o.at = q.at
    OBVIOUS
  <2> QED BY <1>1, <1>2, <2>1, <2>2, PanelsFollowsStays
<1>5. PanelsForms'
  <2>1. \A q \in inflight' : q.op = "create" =>
            \E o \in inflight : o.op = "create" /\ o.n = q.n /\ o.form = q.form
    OBVIOUS
  <2>2. panelCount.acts <= panelCount'.acts
    BY <1>1
  <2>3. CASE panel.form # "keyed"
    BY <2>3, PanelsFormsOfOthers
  <2>4. CASE tale' = tale /\ busy' = busy
    BY <1>1, <2>1, <2>2, <2>4, PanelsFormsStay
  <2>5. CASE panel.form = "keyed" /\ tale' = [tale EXCEPT !.freed = panelCount.acts]
    <3>1. tale'.freed = panelCount.acts
      BY <1>1, <2>5 DEF Panels!Told
    <3>2. panel.form = "keyed" => ~tale'.lost
      BY <1>1, <1>2 DEF PanelsForms, Panels!KeyedFormsKeepText
    <3>3. \A q \in inflight' : q.op = "create" => \E o \in inflight : o.op = "create" /\ o.n = q.n
      BY <2>1
    <3> QED BY <1>1, <2>2, <3>1, <3>2, <3>3, PanelsFormsFreed
  <2> QED BY <2>3, <2>4, <2>5
<1>6. tale.copy <= tale'.copy
  BY <1>1, <1>2
<1> QED BY <1>1, <1>2, <1>3, <1>4, <1>5, <1>6, PanelsTakenKeeps

LEMMA PanelsIgnoreKeeps ==
    ASSUME Panels!WebPanelsInv, NEW r \in inflight, Panels!Deliver(r), Panels!Ignored(r)
    PROVE  Panels!WebPanelsInv'
<1>1. UNCHANGED <<panel, panelTable, scope, panelCount, shown, next, flags, busy, issue, form, tale>>
      /\ inflight' = inflight \ {r}
  BY DEF Panels!Deliver, Panels!Ignore
<1>2. r.guarded /\ r.scope # scope /\ Panels!RequestIsSound(r) /\ panel \in Panels!Panels
      /\ issue \in {"none", "load", "more"}
  BY PanelsTakenIs DEF Panels!Ignored
<1>3. r.op # "first" /\ ~Panels!ByOffset
  BY <1>2, PanelsHaveThat DEF Panels!RequestIsSound, PanelsFits, Panels!ByOffset
<1> QED BY <1>1, <1>2, <1>3, PanelsQuietKeeps

LEMMA PanelsBesideKeeps ==
    ASSUME Panels!WebPanelsInv, NEW r \in inflight, UNCHANGED <<panel, panelTable, scope,
           panelCount>>, r.op = "beside",
           Panels!TakeBeside(r)
    PROVE  Panels!WebPanelsInv'
<1>1. issue \in {"none", "load", "more"}
  BY PanelsTakenIs
<1> QED BY <1>1, PanelsQuietKeeps DEF Panels!TakeBeside

\* What failed leaves the list as it is.
LEMMA PanelsFailedKeeps ==
    ASSUME Panels!WebPanelsInv, NEW r \in inflight, UNCHANGED <<panel, panelTable, scope,
           panelCount>>, ~r.reply.ok,
           \/ r.op = "more" /\ Panels!TakeMore(r)
           \/ r.op = "create" /\ Panels!TakeCreated(r)
           \/ r.op = "change" /\ Panels!TakeChanged(r)
           \/ r.op = "run" /\ Panels!TakeRun(r)
           \/ r.op = "again" /\ Panels!TakeAgain(r)
    PROVE  Panels!WebPanelsInv'
<1>1. issue \in {"none", "load", "more"} /\ panel \in Panels!Panels /\ Panels!RequestIsSound(r)
  BY PanelsTakenIs
<1>2. CASE r.op = "more" /\ Panels!TakeMore(r)
  BY <1>1, <1>2, PanelsQuietKeeps DEF Panels!TakeMore
<1>3. CASE r.op = "create" /\ Panels!TakeCreated(r)
  BY <1>1, <1>3, PanelsQuietKeeps DEF Panels!TakeCreated
<1>4. CASE r.op = "change" /\ Panels!TakeChanged(r)
  BY <1>1, <1>4, PanelsQuietKeeps, PanelsRowsAndForms DEF Panels!TakeChanged
<1>5. CASE r.op = "run" /\ Panels!TakeRun(r)
  BY <1>1, <1>5, PanelsQuietKeeps, PanelsRowsAndForms DEF Panels!TakeRun
<1>6. CASE r.op = "again" /\ Panels!TakeAgain(r)
  <2>1. panel.form # "keyed" /\ panel.load.empties
    BY <1>1, <1>6, PanelsRowsAndForms
  <2>2. /\ flags' = (IF Panels!ByOffset THEN flags \ {"loading"} ELSE flags)
        /\ issue' = (IF Panels!Does("execute") THEN issue ELSE "load")
        /\ UNCHANGED <<shown, next, tale, form>> /\ busy' = Panels!NotBusy /\ inflight' = inflight \ {r}
    BY <1>6 DEF Panels!TakeAgain
  <2> QED BY <1>1, <1>6, <2>1, <2>2, PanelsQuietKeeps
<1> QED BY <1>2, <1>3, <1>4, <1>5, <1>6

LEMMA PanelsAskAgainKeeps ==
    ASSUME WebPlaneAssumptions, Panels!WebPanelsInv, NEW r \in inflight, UNCHANGED <<panel,
           panelTable, scope, panelCount>>,
           r.op \in {"run", "execute"}, ~Panels!Ignored(r), Panels!AskAgain(r)
    PROVE  Panels!WebPanelsInv'
<1>1. Panels!TypeOK /\ PanelsSound /\ Panels!TablesGrow /\ PanelsOwn /\ PanelsFollows /\ PanelsWaits /\ PanelsForms
  BY PanelsPartsOfInv
<1>2. r \in Panels!Request /\ Panels!RequestIsSound(r) /\ tale.copy \in Nat /\ panel \in Panels!Panels
  BY PanelsTakenIs
<1> PICK a : a = Panels!Ask("again", r.guarded, r.scope, tale.copy, 0, 0)
  OBVIOUS
<1> PICK q : q = [a EXCEPT !.n = r.n]
  OBVIOUS
<1>3. /\ inflight' = (inflight \ {r}) \cup {q}
      /\ UNCHANGED <<shown, next, flags, issue, busy, form, tale>>
  BY DEF Panels!AskAgain
<1>4. /\ q \in Panels!Request /\ q.op = "again" /\ q.guarded = r.guarded /\ q.scope = r.scope
      /\ q.copy = tale.copy /\ q.at = 0 /\ q.served = FALSE
  <2>1. r.guarded \in BOOLEAN /\ r.scope \in PanelProject /\ r.n \in Nat
    BY <1>2 DEF Panels!Request
  <2>2. /\ a \in Panels!Request /\ a.op = "again" /\ a.guarded = r.guarded /\ a.scope = r.scope
        /\ a.copy = tale.copy /\ a.at = 0 /\ a.served = FALSE
    BY <1>1, <1>2, <2>1, PanelsFormIs DEF Panels!Ask, Panels!Request
  <2> HIDE DEF Panels!Ask
  <2>3. q = [a EXCEPT !.n = r.n]
    OBVIOUS
  <2> QED BY <2>1, <2>2, <2>3 DEF Panels!Request
<1>5. Panels!TypeOK'
  BY <1>1, <1>3, <1>4 DEF Panels!TypeOK, Panels!HasEachOnce
<1>6. PanelsSound'
  <2>1. Panels!Offers(q.op)
    BY <1>2, <1>4 DEF Panels!RequestIsSound, Panels!Offers
  <2>2. q.copy <= tale'.copy /\ tale.copy <= tale'.copy
    BY <1>2, <1>3, <1>4
  <2>3. q.guarded = panel.load.guarded
    BY <1>2, <1>4 DEF Panels!RequestIsSound
  <2>4. Panels!RequestIsSound(q)'
    BY <1>4, <2>1, <2>2, <2>3, PanelsNewIsSound
  <2>5. \A o \in inflight : o.op = "first" => o.scope = scope'
    BY <1>1 DEF PanelsSound, Panels!RequestIsSound
  <2> QED BY <1>1, <1>2, <1>3, <2>2, <2>4, <2>5, PanelsSoundStays
<1>7. Panels!TablesGrow' /\ PanelsOwn'
  BY <1>1, <1>3, PanelsOwnStays DEF Panels!TablesGrow, Panels!ByOffset
<1>8. PanelsFollows'
  <2>1. \A id \in Panels!Steady : Panels!Passed(id) => Panels!Passed(id)'
    BY <1>3 DEF Panels!Passed
  <2>2. \A o \in inflight' : o.op = "more" =>
            \E i \in inflight : i.op = "more" /\ i.copy = o.copy /\ i.at = o.at
    BY <1>3, <1>4
  <2> QED BY <1>1, <1>3, <2>1, <2>2, PanelsFollowsStays
<1>9. PanelsWaits'
  <2>1. q \in inflight' /\ (q.guarded => q.scope = scope')
    BY <1>3, <1>4 DEF Panels!Ignored
  <2>2. Panels!Asked(PanelsWorking)'
    BY <1>4, <2>1 DEF Panels!Asked, PanelsWorking
  <2>3. inflight \ {r} \subseteq inflight'
    BY <1>3
  <2> QED BY <1>1, <1>3, <1>6, <2>2, <2>3, PanelsWaitsStays
<1>10. PanelsForms'
  BY <1>2, PanelsRowsAndForms, PanelsFormsOfOthers
<1> QED BY <1>5, <1>6, <1>7, <1>8, <1>9, <1>10, PanelsPartsMakeInv

LEMMA PanelsReplacedTale ==
    ASSUME tale \in Panels!Told, NEW r, Panels!Replaced(r)
    PROVE  /\ tale' \in Panels!Told /\ tale'.copy = tale.copy + 1 /\ tale'.lost = tale.lost
           /\ tale'.freed = tale.freed /\ (tale'.late <=> r.scope # scope)
<1> PICK late : late = (r.scope # scope)
  OBVIOUS
<1>1. tale' = [tale EXCEPT !.copy = @ + 1, !.based = TRUE, !.mixed = FALSE, !.late = late]
  BY DEF Panels!Replaced
<1>2. late \in BOOLEAN /\ (late <=> r.scope # scope)
  OBVIOUS
<1>3. tale' = [copy |-> tale.copy + 1, based |-> TRUE, mixed |-> FALSE, late |-> late,
               lost |-> tale.lost, freed |-> tale.freed]
  BY <1>1 DEF Panels!Told
<1>4. tale' \in Panels!Told
  BY <1>2, <1>3 DEF Panels!Told
<1>5. tale'.late = late /\ tale'.copy = tale.copy + 1 /\ tale'.lost = tale.lost /\ tale'.freed = tale.freed
  BY <1>3
<1>6. tale'.late <=> r.scope # scope
  BY <1>2, <1>5
<1> QED BY <1>4, <1>5, <1>6

\* A first page takes the place of what was shown.
LEMMA PanelsReplacedKeeps ==
    ASSUME WebPlaneAssumptions, Panels!WebPanelsInv, NEW r \in inflight, UNCHANGED <<panel,
           panelTable, scope, panelCount>>,
           r.served, r.reply.ok, ~Panels!Ignored(r), Panels!Replaced(r),
           inflight' = inflight \ {r}, UNCHANGED form,
           \/ r.op = "first" /\ UNCHANGED busy
           \/ r.op = "again" /\ busy' = Panels!NotBusy
    PROVE  Panels!WebPanelsInv'
<1>1. /\ Panels!TypeOK /\ PanelsSound /\ PanelsOwn /\ PanelsFollows /\ PanelsForms /\ r \in Panels!Request /\ Panels!RequestIsSound(r)
      /\ tale \in Panels!Told /\ form \in [mount : Nat, draft : 0..MaxPanelActs] /\ panelCount.acts \in Nat
      /\ (r.scope # scope => ~panel.load.guarded) /\ tale.copy \in Nat /\ panel \in Panels!Panels
  BY PanelsTakenIs
<1>2. Panels!PageIsWhole(r) /\ r.at = 0 /\ r.scope \in PanelProject
  BY <1>1 DEF Panels!RequestIsSound, Panels!Request
<1>3. /\ shown' = r.reply.rows /\ next' = r.reply.next /\ issue' = "none"
      /\ flags' = (IF Panels!ByOffset THEN flags \ {"loading"} ELSE {})
  BY DEF Panels!Replaced
<1>4. /\ tale' \in Panels!Told /\ tale'.copy = tale.copy + 1 /\ tale'.lost = tale.lost
      /\ tale'.freed = tale.freed /\ (tale'.late <=> r.scope # scope)
  BY <1>1, PanelsReplacedTale
<1>5. /\ shown' \in Seq(PanelProject \X PanelId) /\ Panels!HasEachOnce(shown') /\ next' \in Nat \cup {NoneYet}
      /\ \A i \in DOMAIN shown' : shown'[i][1] = r.scope
  BY <1>1, <1>2, <1>3 DEF Panels!Request, Panels!PageIsWhole
<1>6. PanelsOwn'
  <2>1. tale'.late => ~panel.load.guarded
    BY <1>1, <1>4
  <2>2. \A i \in DOMAIN shown' : shown'[i][1] # scope => tale'.late
    BY <1>4, <1>5
  <2> QED BY <2>1, <2>2 DEF PanelsOwn, Panels!ShowsItsProject, Panels!ListsAreOwn
<1>7. Panels!ShowsAllItPassed'
  <2> SUFFICES ASSUME scope # NoProject, ~tale'.late, NEW id \in PanelRows[scope],
                      IF Panels!ByOffset THEN Panels!Cardinality({j \in PanelRows[scope] : j < id}) < Len(shown')
                      ELSE next' = NoneYet \/ id <= next'
               PROVE  \E i \in DOMAIN shown' : shown'[i] = <<scope, id>>
    BY DEF Panels!ShowsAllItPassed, Panels!Steady, Panels!ByOffset
  <2>1. r.scope = scope
    BY <1>4
  <2>2. id \in Nat /\ id > 0 /\ Panels!IsFiniteSet(PanelRows[scope])
    <3>1. scope \in PanelProject
      BY <1>2, <2>1
    <3>2. WebPlaneAssumptions
      BY WebPlaneAssumptions
    <3> QED BY ONLY <3>1, <3>2, id \in PanelRows[scope] DEF WebPlaneAssumptions,
            Panels!WebPanelsAssumption
  <2>3. IF Panels!ByOffset THEN Panels!Rank(r.scope, id) = r.at
        ELSE id > r.at /\ (r.reply.next = NoneYet \/ id <= r.reply.next)
    <3>1. CASE Panels!ByOffset
      <4>1. Panels!Rank(scope, id) \in Nat
        BY <2>2, PanelsSubsetCount DEF Panels!Rank
      <4>2. Len(r.reply.rows) <= 1 /\ Len(r.reply.rows) \in Nat
        BY <1>1, <1>2, <3>1 DEF Panels!PageIsWhole, Panels!ByOffset, Panels!Request
      <4>3. Panels!Rank(scope, id) < Len(r.reply.rows)
        BY <1>3, <3>1 DEF Panels!Rank
      <4>4. Panels!Rank(scope, id) = 0
        BY <4>1, <4>2, <4>3
      <4> QED BY <1>2, <2>1, <3>1, <4>4
    <3>2. CASE ~Panels!ByOffset
      BY <1>2, <1>3, <2>2, <3>2
    <3> QED BY <3>1, <3>2
  <2> QED BY <1>2, <1>3, <2>1, <2>3 DEF Panels!PageIsWhole
<1>8. PanelsFollows'
  <2>1. inflight' \subseteq inflight
    OBVIOUS
  <2> QED BY <1>1, <1>4, <1>7, <2>1, PanelsNewCopyFollows
<1>9. PanelsForms'
  <2>1. CASE r.op = "again"
    BY <1>1, <2>1, PanelsRowsAndForms, PanelsFormsOfOthers
  <2>2. CASE r.op = "first" /\ UNCHANGED busy
    <3>1. panelCount'.acts \in Nat /\ panelCount.acts <= panelCount'.acts
      BY <1>1
    <3> QED BY <1>1, <1>4, <2>2, <3>1, PanelsOthersStay, PanelsFormsStay
  <2> QED BY <2>1, <2>2
<1>10. tale.copy <= tale'.copy
  BY <1>1, <1>4
<1>11. /\ flags' \subseteq flags /\ "loading" \notin flags' /\ busy' \in {busy, Panels!NotBusy}
       /\ ("loadingMore" \in flags' => r.op # "more")
       /\ (busy' # Panels!NotBusy => r.op \in {"first", "more"})
  BY <1>3
<1> QED BY <1>1, <1>3, <1>4, <1>5, <1>6, <1>8, <1>9, <1>10, <1>11, PanelsTakenKeeps

LEMMA PanelsFirstFailsKeeps ==
    ASSUME Panels!WebPanelsInv, NEW r \in inflight, UNCHANGED <<panel, panelTable, scope,
           panelCount>>, ~r.reply.ok,
           r.op = "first", Panels!TakeFirst(r)
    PROVE  Panels!WebPanelsInv'
<1>1. /\ Panels!TypeOK /\ PanelsForms /\ tale \in Panels!Told /\ form \in [mount : Nat, draft : 0..MaxPanelActs]
      /\ panelCount.acts \in Nat /\ tale.copy \in Nat
  BY PanelsTakenIs
<1>2. /\ shown' = <<>> /\ next' = NoneYet /\ issue' = "load" /\ inflight' = inflight \ {r}
      /\ flags' = (IF Panels!ByOffset THEN flags \ {"loading"} ELSE {}) /\ UNCHANGED <<busy, form>>
      /\ tale' = [tale EXCEPT !.based = FALSE, !.mixed = FALSE, !.late = FALSE]
  BY DEF Panels!TakeFirst
<1>3. /\ tale' \in Panels!Told /\ tale'.copy = tale.copy /\ tale'.based = FALSE /\ tale'.late = FALSE
      /\ tale'.lost = tale.lost /\ tale'.freed = tale.freed
  BY <1>1, <1>2 DEF Panels!Told
<1>4. shown' \in Seq(PanelProject \X PanelId) /\ Panels!HasEachOnce(shown')
  BY <1>2 DEF Panels!HasEachOnce
<1>5. PanelsOwn' /\ PanelsFollows'
  BY <1>2, <1>3, PanelsUnbasedFollows DEF PanelsOwn, Panels!ShowsItsProject, Panels!ListsAreOwn
<1>6. PanelsForms'
  <2>1. panelCount'.acts \in Nat /\ panelCount.acts <= panelCount'.acts
    BY <1>1
  <2> QED BY <1>1, <1>2, <1>3, <2>1, PanelsOthersStay, PanelsFormsStay
<1>7. tale.copy <= tale'.copy
  BY <1>1, <1>3
<1> QED BY <1>1, <1>2, <1>3, <1>4, <1>5, <1>6, <1>7, PanelsTakenKeeps

LEMMA PanelsLateTale ==
    ASSUME tale \in Panels!Told, NEW r, NEW t, t = Panels!Late(r)
    PROVE  /\ t \in Panels!Told /\ t.copy = tale.copy /\ t.based = tale.based /\ t.mixed = tale.mixed
           /\ t.lost = tale.lost /\ t.freed = tale.freed /\ (t.late <=> tale.late \/ r.scope # scope)
<1> PICK late : late = (tale.late \/ r.scope # scope)
  OBVIOUS
<1>1. t = [tale EXCEPT !.late = late]
  BY DEF Panels!Late
<1>2. late \in BOOLEAN /\ (late <=> tale.late \/ r.scope # scope)
  OBVIOUS
<1>3. t = [copy |-> tale.copy, based |-> tale.based, mixed |-> tale.mixed, late |-> late,
           lost |-> tale.lost, freed |-> tale.freed]
  BY <1>1 DEF Panels!Told
<1>4. t \in Panels!Told
  BY <1>2, <1>3 DEF Panels!Told
<1>5. t.late = late /\ t.copy = tale.copy /\ t.lost = tale.lost /\ t.freed = tale.freed
      /\ t.based = tale.based /\ t.mixed = tale.mixed
  BY <1>3
<1>6. t.late <=> tale.late \/ r.scope # scope
  BY <1>2, <1>5
<1> QED BY <1>4, <1>5, <1>6

LEMMA PanelsMoreTale ==
    ASSUME tale \in Panels!Told, NEW r,
           tale' = [Panels!Late(r) EXCEPT !.mixed = @ \/ r.copy # tale.copy]
    PROVE  /\ tale' \in Panels!Told /\ tale'.copy = tale.copy /\ tale'.based = tale.based
           /\ tale'.lost = tale.lost /\ tale'.freed = tale.freed
           /\ (tale'.late <=> tale.late \/ r.scope # scope)
           /\ (tale'.mixed <=> tale.mixed \/ r.copy # tale.copy)
<1> PICK t : t = Panels!Late(r)
  OBVIOUS
<1>1. /\ t \in Panels!Told /\ t.copy = tale.copy /\ t.based = tale.based /\ t.mixed = tale.mixed
      /\ t.lost = tale.lost /\ t.freed = tale.freed /\ (t.late <=> tale.late \/ r.scope # scope)
  BY PanelsLateTale
<1> PICK mixed : mixed = (t.mixed \/ r.copy # tale.copy)
  OBVIOUS
<1>2. tale' = [t EXCEPT !.mixed = mixed]
  OBVIOUS
<1>3. mixed \in BOOLEAN /\ (mixed <=> tale.mixed \/ r.copy # tale.copy)
  BY <1>1
<1>4. tale' = [copy |-> t.copy, based |-> t.based, mixed |-> mixed, late |-> t.late,
               lost |-> t.lost, freed |-> t.freed]
  BY <1>1, <1>2 DEF Panels!Told
<1>5. tale' \in Panels!Told
  BY <1>1, <1>3, <1>4 DEF Panels!Told
<1>6. tale'.mixed = mixed /\ tale'.copy = t.copy /\ tale'.lost = t.lost /\ tale'.freed = t.freed
      /\ tale'.based = t.based /\ tale'.late = t.late
  BY <1>4
<1>7. tale'.mixed <=> tale.mixed \/ r.copy # tale.copy
  BY <1>3, <1>6
<1>8. tale'.late <=> tale.late \/ r.scope # scope
  BY <1>1, <1>6
<1> QED BY <1>1, <1>5, <1>6, <1>7, <1>8

\* What a page of one row adds.
LEMMA PanelsMergeIs ==
    ASSUME shown \in Seq(PanelProject \X PanelId), Panels!HasEachOnce(shown),
           NEW rows \in Seq(PanelProject \X PanelId),
           NEW s, s = Panels!Merge(rows)
    PROVE  /\ s \in Seq(PanelProject \X PanelId) /\ Panels!HasEachOnce(s)
           /\ \A i \in DOMAIN shown : i \in DOMAIN s /\ s[i] = shown[i]
           /\ \A i \in DOMAIN s : i \in DOMAIN shown \/ (1 \in DOMAIN rows /\ s[i] = rows[1])
           /\ \/ s = shown
              \/ 1 \in DOMAIN rows /\ ~Panels!Has(rows[1][2]) /\ Len(s) = Len(shown) + 1
           /\ 1 \in DOMAIN rows =>
                 \/ \E i \in DOMAIN shown : shown[i][2] = rows[1][2]
                 \/ \E i \in DOMAIN s : s[i] = rows[1]
<1>1. CASE rows = <<>>
  BY <1>1 DEF Panels!Merge
<1>2. CASE rows # <<>> /\ Panels!Has(rows[1][2])
  BY <1>2 DEF Panels!Merge, Panels!Has
<1>3. CASE rows # <<>> /\ ~Panels!Has(rows[1][2])
  <2>1. 1 \in DOMAIN rows /\ rows[1] \in PanelProject \X PanelId
    BY <1>3
  <2>2. s = Append(shown, rows[1])
    BY <1>3 DEF Panels!Merge
  <2> PICK item : item = rows[1]
    OBVIOUS
  <2>3. /\ s \in Seq(PanelProject \X PanelId) /\ Len(s) = Len(shown) + 1 /\ DOMAIN s = 1..Len(shown) + 1
        /\ \A i \in 1..Len(shown) : s[i] = shown[i]
        /\ s[Len(shown) + 1] = item /\ DOMAIN shown = 1..Len(shown) /\ Len(shown) \in Nat
    BY <2>1, <2>2
  <2>4. \A i \in 1..Len(shown) : shown[i][2] # item[2]
    BY <1>3, <2>3 DEF Panels!Has
  <2>5. Panels!HasEachOnce(s)
    <3> SUFFICES ASSUME NEW i \in DOMAIN s, NEW j \in DOMAIN s, s[i][2] = s[j][2] PROVE i = j
      BY DEF Panels!HasEachOnce
    <3>1. CASE i \in 1..Len(shown) /\ j \in 1..Len(shown)
      BY <2>3, <3>1 DEF Panels!HasEachOnce
    <3>2. CASE i = Len(shown) + 1 /\ j = Len(shown) + 1
      BY <3>2
    <3>3. CASE i = Len(shown) + 1 /\ j \in 1..Len(shown)
      BY <2>3, <2>4, <3>3
    <3>4. CASE i \in 1..Len(shown) /\ j = Len(shown) + 1
      BY <2>3, <2>4, <3>4
    <3> QED BY <2>3, <3>1, <3>2, <3>3, <3>4
  <2>6. Len(shown) + 1 \in DOMAIN s /\ s[Len(shown) + 1] = rows[1]
    BY <2>3
  <2>7. \A i \in DOMAIN s : i \in DOMAIN shown \/ s[i] = rows[1]
    <3>1. \A i \in DOMAIN s : i \in 1..Len(shown) \/ i = Len(shown) + 1
      BY <2>3
    <3> QED BY <2>3, <2>6, <3>1
  <2>8. \A i \in DOMAIN shown : i \in DOMAIN s /\ s[i] = shown[i]
    BY <2>3
  <2> QED BY <1>3, <2>1, <2>3, <2>5, <2>6, <2>7, <2>8
<1> QED BY <1>1, <1>2, <1>3

\* The page goes on from what is shown.
LEMMA PanelsMoreShows ==
    ASSUME WebPlaneAssumptions, Panels!TypeOK, PanelsOwn, PanelsFollows, NEW r \in inflight,
           r \in Panels!Request,
           Panels!RequestIsSound(r), Panels!PageIsWhole(r), UNCHANGED <<panel, scope>>,
           shown' = Panels!Merge(r.reply.rows), next' = r.reply.next,
           scope # NoProject, r.scope = scope, Panels!Goes(r)
    PROVE  /\ \A id \in Panels!Steady : Panels!Passed(id) => Panels!Passed(id)'
           /\ \A id \in Panels!Steady :
                 (IF Panels!ByOffset THEN Panels!Cardinality({j \in Panels!Steady : j < id}) < Len(shown')
                  ELSE next' = NoneYet \/ id <= next') => Panels!Passed(id)'
           /\ Len(shown) \in Nat /\ Len(shown') \in Nat /\ Len(shown) <= Len(shown')
<1> PICK rows, s : rows = r.reply.rows /\ s = shown'
  OBVIOUS
<1>1. /\ shown \in Seq(PanelProject \X PanelId) /\ Panels!HasEachOnce(shown) /\ rows \in Seq(PanelProject \X PanelId)
      /\ scope \in PanelProject /\ r.at \in Nat
  BY DEF Panels!TypeOK, Panels!Request
<1>2. /\ s \in Seq(PanelProject \X PanelId)
      /\ \A i \in DOMAIN shown : i \in DOMAIN s /\ s[i] = shown[i]
      /\ \/ s = shown
         \/ 1 \in DOMAIN rows /\ ~Panels!Has(rows[1][2]) /\ Len(s) = Len(shown) + 1
      /\ 1 \in DOMAIN rows =>
            \/ \E i \in DOMAIN shown : shown[i][2] = rows[1][2]
            \/ \E i \in DOMAIN s : s[i] = rows[1]
  BY <1>1, PanelsMergeIs
<1>3. \A id \in Panels!Steady : Panels!Passed(id) => Panels!Passed(id)'
  BY <1>2 DEF Panels!Passed
<1>4. /\ Len(shown) \in Nat /\ Len(s) \in Nat /\ Len(shown) <= Len(s)
      /\ (s = shown \/ Len(s) = Len(shown) + 1)
  BY <1>1, <1>2
<1>5. \A i \in DOMAIN shown : shown[i][1] = scope /\ shown[i] = <<shown[i][1], shown[i][2]>>
  BY <1>1 DEF PanelsOwn, Panels!ListsAreOwn, Panels!Goes
<1>6. ASSUME NEW id \in Panels!Steady, \E i \in DOMAIN rows : rows[i] = <<scope, id>>, panel.paging # "whole"
      PROVE  Panels!Passed(id)'
  <2>1. PICK i \in DOMAIN rows : rows[i] = <<scope, id>>
    BY <1>6
  <2>2. Len(rows) <= 1 /\ Len(rows) \in Nat /\ i = 1
    BY <1>1, <1>6, <2>1 DEF Panels!PageIsWhole
  <2>3. rows[1] = <<scope, id>> /\ rows[1][2] = id /\ 1 \in DOMAIN rows
    BY <2>1, <2>2
  <2>4. CASE \E k \in DOMAIN shown : shown[k][2] = id
    <3>1. Panels!Passed(id)
      BY <1>5, <2>4 DEF Panels!Passed
    <3> QED BY <1>3, <3>1
  <2>5. CASE \E k \in DOMAIN s : s[k] = <<scope, id>>
    BY <2>5 DEF Panels!Passed
  <2> QED BY <1>2, <2>3, <2>4, <2>5
<1>7. panel.paging # "whole"
  <2>1. Panels!Does("more")
    BY DEF Panels!RequestIsSound, Panels!Offers, Panels!Goes
  <2> QED BY <2>1, PanelsGuardIs DEF Panels!TypeOK
<1>8. ASSUME Panels!ByOffset, NEW id \in Panels!Steady, Panels!Cardinality({j \in Panels!Steady : j < id}) < Len(s)
      PROVE  Panels!Passed(id)'
  <2>1. r.at <= Len(shown)
    BY <1>8 DEF PanelsFollows, Panels!PagesFollow
  <2>2. \A x \in Panels!Steady : Panels!Rank(scope, x) < Len(shown) => Panels!Passed(x)
    BY <1>8 DEF PanelsFollows, Panels!ShowsAllItPassed, Panels!Goes, Panels!Rank,
       Panels!Steady, Panels!Passed
  <2>3. Panels!Rank(scope, id) < Len(s) /\ Panels!Rank(scope, id) \in Nat
    <3>1. Panels!IsFiniteSet(PanelRows[scope])
      BY <1>1 DEF WebPlaneAssumptions, Panels!WebPanelsAssumption
    <3> QED BY <1>8, <3>1, PanelsSubsetCount DEF Panels!Rank, Panels!Steady
  <2>4. CASE Panels!Rank(scope, id) < Len(shown)
    BY <1>3, <2>2, <2>4
  <2>5. CASE ~(Panels!Rank(scope, id) < Len(shown))
    <3>1. s # shown /\ Len(s) = Len(shown) + 1 /\ Panels!Rank(scope, id) = Len(shown)
      BY <1>4, <2>3, <2>5
    <3>2. 1 \in DOMAIN rows /\ ~Panels!Has(rows[1][2])
      BY <1>2, <3>1
    <3>3. rows[1][2] \in PanelRows[r.scope] /\ Panels!Rank(r.scope, rows[1][2]) = r.at
      BY <1>8, <3>2 DEF Panels!PageIsWhole
    <3>4. ~Panels!Passed(rows[1][2])
      BY <3>2 DEF Panels!Passed, Panels!Has
    <3>5. ~(r.at < Len(shown))
      BY <2>2, <3>3, <3>4 DEF Panels!Steady
    <3>6. Panels!Rank(r.scope, id) = r.at
      BY <1>1, <1>4, <2>1, <3>1, <3>5
    <3>7. \E i \in DOMAIN rows : rows[i] = <<scope, id>>
      BY <1>8, <3>6 DEF Panels!PageIsWhole, Panels!Steady
    <3> QED BY <1>6, <1>8, <3>7 DEF Panels!ByOffset
  <2> QED BY <2>4, <2>5
<1>9. ASSUME ~Panels!ByOffset, panel.paging # "whole", NEW id \in Panels!Steady, next' = NoneYet \/ id <= next'
      PROVE  Panels!Passed(id)'
  <2>1. id \in Nat
    BY <1>1 DEF WebPlaneAssumptions, Panels!WebPanelsAssumption, Panels!Steady
  <2>2. CASE id <= r.at
    <3>1. Panels!Passed(id)
      BY <1>9, <2>2 DEF PanelsFollows, Panels!PagesFollow
    <3> QED BY <1>3, <3>1
  <2>3. CASE id > r.at
    <3>1. \E i \in DOMAIN rows : rows[i] = <<scope, id>>
      BY <1>9, <2>3 DEF Panels!PageIsWhole, Panels!Steady
    <3> QED BY <1>6, <1>9, <3>1
  <2> QED BY <1>1, <2>1, <2>2, <2>3
<1>10. CASE Panels!ByOffset
  BY <1>3, <1>4, <1>8, <1>10
<1>11. CASE ~Panels!ByOffset
  BY <1>3, <1>4, <1>7, <1>9, <1>11
<1> QED BY <1>10, <1>11

LEMMA PanelsMoreKeeps ==
    ASSUME WebPlaneAssumptions, Panels!WebPanelsInv, NEW r \in inflight, UNCHANGED <<panel,
           panelTable, scope, panelCount>>,
           r.served, r.reply.ok, ~Panels!Ignored(r), r.op = "more", Panels!TakeMore(r)
    PROVE  Panels!WebPanelsInv'
<1>1. /\ Panels!TypeOK /\ PanelsSound /\ PanelsOwn /\ PanelsFollows /\ PanelsForms /\ r \in Panels!Request /\ Panels!RequestIsSound(r)
      /\ tale \in Panels!Told /\ form \in [mount : Nat, draft : 0..MaxPanelActs] /\ panelCount.acts \in Nat
      /\ (r.scope # scope => ~panel.load.guarded) /\ tale.copy \in Nat /\ panel \in Panels!Panels
      /\ shown \in Seq(PanelProject \X PanelId) /\ Panels!HasEachOnce(shown) /\ issue \in {"none", "load", "more"}
  BY PanelsTakenIs
<1>2. Panels!PageIsWhole(r) /\ r.reply.rows \in Seq(PanelProject \X PanelId) /\ r.reply.next \in Nat \cup {NoneYet}
  BY <1>1 DEF Panels!RequestIsSound, Panels!Request
<1>3. /\ flags' = flags \ {"loadingMore"} /\ shown' = Panels!Merge(r.reply.rows) /\ next' = r.reply.next
      /\ UNCHANGED <<issue, busy, form>> /\ inflight' = inflight \ {r}
      /\ tale' = [Panels!Late(r) EXCEPT !.mixed = @ \/ r.copy # tale.copy]
  BY DEF Panels!TakeMore
<1>4. /\ tale' \in Panels!Told /\ tale'.copy = tale.copy /\ tale'.based = tale.based
      /\ tale'.lost = tale.lost /\ tale'.freed = tale.freed
      /\ (tale'.late <=> tale.late \/ r.scope # scope)
      /\ (tale'.mixed <=> tale.mixed \/ r.copy # tale.copy)
  BY <1>1, <1>3, PanelsMoreTale
<1>5. /\ shown' \in Seq(PanelProject \X PanelId) /\ Panels!HasEachOnce(shown')
      /\ \A i \in DOMAIN shown : i \in DOMAIN shown' /\ shown'[i] = shown[i]
      /\ \A i \in DOMAIN shown' :
            i \in DOMAIN shown \/ (1 \in DOMAIN r.reply.rows /\ shown'[i] = r.reply.rows[1])
  <2>1. shown \in Seq(PanelProject \X PanelId) /\ Panels!HasEachOnce(shown)
    BY <1>1
  <2>2. r.reply.rows \in Seq(PanelProject \X PanelId)
    BY <1>2
  <2>3. shown' = Panels!Merge(r.reply.rows)
    BY <1>3
  <2> QED BY ONLY <2>1, <2>2, <2>3, PanelsMergeIs
<1>6. PanelsOwn'
  <2>1. \A i \in DOMAIN shown' :
            shown'[i][1] = r.scope \/ \E j \in DOMAIN shown : shown'[i][1] = shown[j][1]
    BY <1>2, <1>5 DEF Panels!PageIsWhole
  <2>2. panel.load.empties \/ ("loading" \in flags => "loading" \in flags')
    BY <1>3
  <2> QED BY <1>1, <1>4, <2>1, <2>2, PanelsOwnRows
<1>7. PanelsFollows'
  <2>1. CASE Panels!Goes(r) /\ r.scope = scope /\ scope # NoProject
    <3>1. /\ \A id \in Panels!Steady : Panels!Passed(id) => Panels!Passed(id)'
          /\ \A id \in Panels!Steady :
                (IF Panels!ByOffset THEN Panels!Cardinality({j \in Panels!Steady : j < id}) < Len(shown')
                 ELSE next' = NoneYet \/ id <= next') => Panels!Passed(id)'
          /\ Len(shown) \in Nat /\ Len(shown') \in Nat /\ Len(shown) <= Len(shown')
      BY <1>1, <1>2, <1>3, <2>1, PanelsMoreShows
    <3>2. Panels!Steady' = Panels!Steady /\ Panels!ByOffset' = Panels!ByOffset
      BY DEF Panels!Steady, Panels!ByOffset
    <3>3. Panels!ShowsAllItPassed'
      BY <3>1, <3>2 DEF Panels!ShowsAllItPassed, Panels!Passed
    <3>4. ASSUME NEW q \in inflight', Panels!Goes(q)'
          PROVE  IF Panels!ByOffset THEN q.at <= Len(shown') ELSE \A id \in Panels!Steady : id <= q.at => Panels!Passed(id)'
      <4>1. Panels!Goes(q) /\ q \in inflight
        BY <1>3, <1>4, <2>1, <3>4 DEF Panels!Goes
      <4>2. q.at \in Nat
        BY <1>1, <4>1 DEF Panels!TypeOK, Panels!Request
      <4>3. IF Panels!ByOffset THEN q.at <= Len(shown) ELSE \A id \in Panels!Steady : id <= q.at => Panels!Passed(id)
        BY <1>1, <2>1, <4>1 DEF PanelsFollows, Panels!PagesFollow
      <4>4. CASE Panels!ByOffset
        BY <3>1, <4>2, <4>3, <4>4
      <4>5. CASE ~Panels!ByOffset
        BY <3>1, <4>3, <4>5
      <4> QED BY <4>4, <4>5
    <3>5. Panels!PagesFollow'
      BY <3>2, <3>4 DEF Panels!PagesFollow
    <3> QED BY <3>3, <3>5 DEF PanelsFollows
  <2>2. CASE ~(Panels!Goes(r) /\ r.scope = scope /\ scope # NoProject)
    <3>1. scope = NoProject \/ ~tale'.based \/ tale'.mixed \/ tale'.late
      BY <1>4, <2>2 DEF Panels!Goes
    <3> QED BY <3>1 DEF PanelsFollows, Panels!ShowsAllItPassed, Panels!PagesFollow, Panels!Goes
  <2> QED BY <2>1, <2>2
<1>8. PanelsForms'
  <2>1. panelCount'.acts \in Nat /\ panelCount.acts <= panelCount'.acts
    BY <1>1
  <2> QED BY <1>1, <1>3, <1>4, <2>1, PanelsOthersStay, PanelsFormsStay
<1>9. tale.copy <= tale'.copy
  BY <1>1, <1>4
<1>10. flags' \subseteq flags /\ "loadingMore" \notin flags'
  BY <1>3
<1> QED BY <1>1, <1>2, <1>3, <1>4, <1>5, <1>6, <1>7, <1>8, <1>9, <1>10, PanelsTakenKeeps

\* A list without one of its rows, and with one in front.
LEMMA PanelsRemoveAtFacts ==
    ASSUME NEW S, NEW s \in Seq(S), NEW i \in DOMAIN s
    PROVE  /\ Panels!RemoveAt(s, i) \in Seq(S) /\ Len(Panels!RemoveAt(s, i)) = Len(s) - 1
           /\ \A j \in 1 .. Len(s) - 1 : Panels!RemoveAt(s, i)[j] = s[IF j < i THEN j ELSE j + 1]
<1> DEFINE before == SubSeq(s, 1, i - 1)
           rest == SubSeq(s, i + 1, Len(s))
<1>1. Len(s) \in Nat /\ i \in 1 .. Len(s)
  OBVIOUS
<1>2. /\ before \in Seq(S) /\ Len(before) = i - 1
      /\ \A j \in 1 .. i - 1 : before[j] = s[j]
  BY <1>1, SubSeqProperties
<1>3. /\ rest \in Seq(S) /\ Len(rest) = Len(s) - i
      /\ \A j \in 1 .. Len(s) - i : rest[j] = s[i + j]
  BY <1>1, SubSeqProperties
<1>4. Panels!RemoveAt(s, i) = before \o rest
  BY DEF Panels!RemoveAt
<1> HIDE DEF before, rest
<1>5. /\ Panels!RemoveAt(s, i) \in Seq(S) /\ Len(Panels!RemoveAt(s, i)) = Len(s) - 1
      /\ \A j \in 1 .. Len(s) - 1 :
            Panels!RemoveAt(s, i)[j] = IF j <= i - 1 THEN before[j] ELSE rest[j - (i - 1)]
  <2>1. /\ before \o rest \in Seq(S) /\ Len(before \o rest) = Len(before) + Len(rest)
        /\ \A k \in 1 .. Len(before) + Len(rest) :
              (before \o rest)[k] = IF k <= Len(before) THEN before[k] ELSE rest[k - Len(before)]
    BY <1>2, <1>3, ConcatProperties
  <2>2. Len(before) + Len(rest) = Len(s) - 1
    BY <1>1, <1>2, <1>3
  <2>3. Len(before) = i - 1
    BY <1>2
  <2> QED BY ONLY <1>4, <2>1, <2>2, <2>3
<1>6. ASSUME NEW j \in 1 .. Len(s) - 1
      PROVE  Panels!RemoveAt(s, i)[j] = s[IF j < i THEN j ELSE j + 1]
  <2>1. CASE j < i
    BY <1>1, <1>2, <1>5, <2>1
  <2>2. CASE ~(j < i)
    <3>1. j - (i - 1) \in 1 .. Len(s) - i /\ i + (j - (i - 1)) = j + 1
      BY <1>1, <2>2
    <3>2. rest[j - (i - 1)] = s[j + 1]
      BY <1>3, <3>1
    <3> QED BY <1>1, <1>5, <2>2, <3>2
  <2> QED BY <2>1, <2>2
<1> QED BY <1>5, <1>6

LEMMA PanelsWithoutIs ==
    ASSUME shown \in Seq(PanelProject \X PanelId), Panels!HasEachOnce(shown), NEW id, NEW w,
           w = Panels!Without(id)
    PROVE  /\ w \in Seq(PanelProject \X PanelId) /\ Panels!HasEachOnce(w)
           /\ \A j \in DOMAIN w : w[j][2] # id /\ \E i \in DOMAIN shown : w[j] = shown[i]
           /\ \A i \in DOMAIN shown : shown[i][2] # id => \E j \in DOMAIN w : w[j] = shown[i]
<1>1. CASE ~Panels!Has(id)
  BY <1>1 DEF Panels!Without, Panels!Has
<1>2. CASE Panels!Has(id)
  <2> DEFINE k == CHOOSE i \in DOMAIN shown : shown[i][2] = id
  <2>1. k \in DOMAIN shown /\ shown[k][2] = id
    BY <1>2 DEF Panels!Has
  <2>2. w = Panels!RemoveAt(shown, k)
    BY <1>2 DEF Panels!Without
  <2> HIDE DEF k
  <2>3. /\ Len(shown) \in Nat /\ DOMAIN shown = 1..Len(shown) /\ k \in 1..Len(shown)
        /\ shown \in [1..Len(shown) -> PanelProject \X PanelId]
    BY <2>1
  <2>7. /\ w \in Seq(PanelProject \X PanelId) /\ Len(w) = Len(shown) - 1 /\ DOMAIN w = 1..(Len(shown) - 1)
        /\ \A j \in 1..(Len(shown) - 1) : w[j] = (IF j < k THEN shown[j] ELSE shown[j + 1])
    <3>1. shown \in Seq(PanelProject \X PanelId) /\ k \in DOMAIN shown
      BY <2>1
    <3>2. /\ w \in Seq(PanelProject \X PanelId) /\ Len(w) = Len(shown) - 1
          /\ \A j \in 1..(Len(shown) - 1) : w[j] = shown[IF j < k THEN j ELSE j + 1]
      BY <2>2, <3>1, PanelsRemoveAtFacts
    <3>3. DOMAIN w = 1..(Len(shown) - 1)
      BY <2>3, <3>2
    <3> QED BY <3>2, <3>3
  <2>8. \A j \in 1..(Len(shown) - 1) : \E i \in 1..Len(shown) :
           /\ w[j] = shown[i] /\ i # k /\ i = (IF j < k THEN j ELSE j + 1)
    <3>1. ASSUME NEW j \in 1..(Len(shown) - 1)
          PROVE  (IF j < k THEN j ELSE j + 1) \in 1..Len(shown) /\ (IF j < k THEN j ELSE j + 1) # k
      BY <2>3
    <3> QED BY <2>7, <3>1
  <2>9. Panels!HasEachOnce(w)
    <3> SUFFICES ASSUME NEW i \in DOMAIN w, NEW j \in DOMAIN w, w[i][2] = w[j][2] PROVE i = j
      BY DEF Panels!HasEachOnce
    <3>1. PICK x \in 1..Len(shown) : w[i] = shown[x] /\ x = (IF i < k THEN i ELSE i + 1)
      BY <2>7, <2>8
    <3>2. PICK y \in 1..Len(shown) : w[j] = shown[y] /\ y = (IF j < k THEN j ELSE j + 1)
      BY <2>7, <2>8
    <3>3. x = y
      BY <2>3, <3>1, <3>2 DEF Panels!HasEachOnce
    <3>4. i \in Nat /\ j \in Nat
      BY <2>7
    <3> QED BY <2>3, <3>1, <3>2, <3>3, <3>4
  <2>10. \A j \in DOMAIN w : w[j][2] # id /\ \E i \in DOMAIN shown : w[j] = shown[i]
    <3> SUFFICES ASSUME NEW j \in DOMAIN w
                 PROVE  w[j][2] # id /\ \E i \in DOMAIN shown : w[j] = shown[i]
      OBVIOUS
    <3>1. PICK x \in 1..Len(shown) : w[j] = shown[x] /\ x # k
      BY <2>7, <2>8
    <3>2. shown[x][2] # id
      BY <2>1, <2>3, <3>1 DEF Panels!HasEachOnce
    <3> QED BY <2>3, <3>1, <3>2
  <2>11. ASSUME NEW i \in DOMAIN shown, shown[i][2] # id
         PROVE  \E j \in DOMAIN w : w[j] = shown[i]
    <3>1. i # k /\ i \in 1..Len(shown)
      BY <2>1, <2>3, <2>11
    <3>2. CASE i < k
      <4>1. i \in 1..(Len(shown) - 1)
        BY <2>3, <3>1, <3>2
      <4> QED BY <2>7, <3>2, <4>1
    <3>3. CASE i > k
      <4>1. i - 1 \in 1..(Len(shown) - 1) /\ ~(i - 1 < k) /\ (i - 1) + 1 = i
        BY <2>3, <3>1, <3>3
      <4>2. w[i - 1] = shown[i]
        BY <2>7, <4>1
      <4> QED BY <2>7, <4>1, <4>2
    <3> QED BY <2>3, <3>1, <3>2, <3>3
  <2> QED BY <2>7, <2>9, <2>10, <2>11
<1> QED BY <1>1, <1>2

LEMMA PanelsUpsertIs ==
    ASSUME shown \in Seq(PanelProject \X PanelId), Panels!HasEachOnce(shown), NEW item,
           item \in PanelProject \X PanelId,
           shown' = Panels!Upsert(item)
    PROVE  /\ shown' \in Seq(PanelProject \X PanelId) /\ Panels!HasEachOnce(shown')
           /\ 1 \in DOMAIN shown' /\ shown'[1] = item
           /\ \A i \in DOMAIN shown' : shown'[i] = item \/ \E j \in DOMAIN shown : shown'[i] = shown[j]
           /\ \A i \in DOMAIN shown : shown[i][2] # item[2] => \E j \in DOMAIN shown' : shown'[j] = shown[i]
<1> PICK u : u = shown'
  OBVIOUS
<1> PICK w : w = Panels!Without(item[2])
  OBVIOUS
<1>1. /\ w \in Seq(PanelProject \X PanelId) /\ Panels!HasEachOnce(w)
      /\ \A j \in DOMAIN w : w[j][2] # item[2] /\ \E i \in DOMAIN shown : w[j] = shown[i]
      /\ \A i \in DOMAIN shown : shown[i][2] # item[2] => \E j \in DOMAIN w : w[j] = shown[i]
  BY PanelsWithoutIs
<1> PICK f : f = <<item>>
  OBVIOUS
<1>2. f \in Seq(PanelProject \X PanelId) /\ Len(f) = 1 /\ f[1] = item
  OBVIOUS
<1>3. u = f \o w
  BY DEF Panels!Upsert
<1>4. /\ u \in Seq(PanelProject \X PanelId) /\ DOMAIN u = 1..(Len(w) + 1) /\ Len(w) \in Nat /\ DOMAIN w = 1..Len(w)
      /\ u[1] = item /\ \A i \in 1..Len(w) : u[i + 1] = w[i]
  <2>1. u \in Seq(PanelProject \X PanelId) /\ Len(u) = 1 + Len(w) /\ Len(w) \in Nat /\ DOMAIN w = 1..Len(w)
    BY <1>1, <1>2, <1>3
  <2>2. u[1] = item
    BY <1>1, <1>2, <1>3
  <2>3. ASSUME NEW i \in 1..Len(w) PROVE u[i + 1] = w[i]
    BY <1>1, <1>2, <1>3, <2>1
  <2> QED BY <2>1, <2>2, <2>3
<1>5. \A i \in DOMAIN u : i = 1 \/ (i - 1 \in DOMAIN w /\ u[i] = w[i - 1])
  <2> SUFFICES ASSUME NEW i \in DOMAIN u, i # 1 PROVE i - 1 \in DOMAIN w /\ u[i] = w[i - 1]
    OBVIOUS
  <2>1. i - 1 \in 1..Len(w) /\ (i - 1) + 1 = i
    BY <1>4
  <2> QED BY <1>4, <2>1
<1>6. Panels!HasEachOnce(u)
  <2> SUFFICES ASSUME NEW i \in DOMAIN u, NEW j \in DOMAIN u, u[i][2] = u[j][2] PROVE i = j
    BY DEF Panels!HasEachOnce
  <2>1. \A x \in DOMAIN u : x # 1 => u[x][2] # item[2]
    BY <1>1, <1>5
  <2>3. CASE i = 1 \/ j = 1
    BY <1>4, <2>1, <2>3
  <2>2. CASE i # 1 /\ j # 1
    <3>1. i - 1 = j - 1
      BY <1>1, <1>5, <2>2 DEF Panels!HasEachOnce
    <3>2. i \in Nat /\ j \in Nat
      BY <1>4
    <3> QED BY <3>1, <3>2
  <2> QED BY <2>2, <2>3
<1>7. \A i \in DOMAIN shown : shown[i][2] # item[2] => \E j \in DOMAIN u : u[j] = shown[i]
  <2> SUFFICES ASSUME NEW i \in DOMAIN shown, shown[i][2] # item[2]
               PROVE  \E j \in DOMAIN u : u[j] = shown[i]
    OBVIOUS
  <2>1. PICK j \in DOMAIN w : w[j] = shown[i]
    BY <1>1
  <2>2. j \in 1..Len(w) /\ j + 1 \in DOMAIN u
    BY <1>4
  <2> QED BY <1>4, <2>1, <2>2
<1>8. \A i \in DOMAIN u : u[i] = item \/ \E j \in DOMAIN shown : u[i] = shown[j]
  <2> SUFFICES ASSUME NEW i \in DOMAIN u, u[i] # item
               PROVE  \E j \in DOMAIN shown : u[i] = shown[j]
    OBVIOUS
  <2>1. i - 1 \in DOMAIN w /\ u[i] = w[i - 1]
    BY <1>4, <1>5
  <2> PICK x : x = i - 1
    OBVIOUS
  <2>2. x \in DOMAIN w /\ u[i] = w[x]
    BY <2>1
  <2> QED BY <1>1, <2>2
<1>9. 1 \in DOMAIN u
  BY <1>4
<1> QED BY <1>4, <1>6, <1>7, <1>8, <1>9

LEMMA PanelsCreatedTale ==
    ASSUME tale \in Panels!Told, panelCount.acts \in Nat, NEW r,
           tale' = [Panels!Late(r) EXCEPT !.lost = @ \/ Panels!Loses(r), !.freed = panelCount.acts]
    PROVE  /\ tale' \in Panels!Told /\ tale'.copy = tale.copy /\ tale'.based = tale.based
           /\ tale'.mixed = tale.mixed /\ tale'.freed = panelCount.acts
           /\ (tale'.late <=> tale.late \/ r.scope # scope)
           /\ (tale'.lost <=> tale.lost \/ Panels!Loses(r))
<1> PICK t : t = Panels!Late(r)
  OBVIOUS
<1>1. /\ t \in Panels!Told /\ t.copy = tale.copy /\ t.based = tale.based /\ t.mixed = tale.mixed
      /\ t.lost = tale.lost /\ t.freed = tale.freed /\ (t.late <=> tale.late \/ r.scope # scope)
  BY PanelsLateTale
<1> PICK lost : lost = (t.lost \/ Panels!Loses(r))
  OBVIOUS
<1>2. tale' = [t EXCEPT !.lost = lost, !.freed = panelCount.acts]
  OBVIOUS
<1>3. lost \in BOOLEAN /\ (lost <=> tale.lost \/ Panels!Loses(r))
  BY <1>1
<1>4. tale' = [copy |-> t.copy, based |-> t.based, mixed |-> t.mixed, late |-> t.late,
               lost |-> lost, freed |-> panelCount.acts]
  BY <1>1, <1>2 DEF Panels!Told
<1>5. tale' \in Panels!Told
  BY <1>1, <1>3, <1>4 DEF Panels!Told
<1>6. tale'.lost = lost /\ tale'.copy = t.copy /\ tale'.mixed = t.mixed /\ tale'.freed = panelCount.acts
      /\ tale'.based = t.based /\ tale'.late = t.late
  BY <1>4
<1>7. tale'.lost <=> tale.lost \/ Panels!Loses(r)
  BY <1>3, <1>6
<1>8. tale'.late <=> tale.late \/ r.scope # scope
  BY <1>1, <1>6
<1> QED BY <1>1, <1>5, <1>6, <1>7, <1>8

LEMMA PanelsCreatedKeeps ==
    ASSUME WebPlaneAssumptions, Panels!WebPanelsInv, NEW r \in inflight, UNCHANGED <<panel,
           panelTable, scope, panelCount>>,
           r.served, r.reply.ok, ~Panels!Ignored(r), r.op = "create", Panels!TakeCreated(r)
    PROVE  Panels!WebPanelsInv'
<1>1. /\ Panels!TypeOK /\ PanelsSound /\ PanelsOwn /\ PanelsFollows /\ PanelsForms /\ r \in Panels!Request /\ Panels!RequestIsSound(r)
      /\ tale \in Panels!Told /\ form \in [mount : Nat, draft : 0..MaxPanelActs] /\ panelCount.acts \in Nat
      /\ (r.scope # scope => ~panel.load.guarded) /\ tale.copy \in Nat /\ panel \in Panels!Panels
      /\ shown \in Seq(PanelProject \X PanelId) /\ Panels!HasEachOnce(shown) /\ issue \in {"none", "load", "more"}
      /\ next \in Nat \cup {NoneYet}
  BY PanelsTakenIs
<1> PICK item : item = <<r.scope, r.id>>
  OBVIOUS
<1>2. item \in PanelProject \X PanelId /\ r.reply.rows[1] = item /\ item[1] = r.scope
  <2>1. r.reply.rows = <<<<r.scope, r.id>>>> /\ r.id \in PanelId /\ r.scope \in PanelProject
    BY <1>1 DEF Panels!RequestIsSound, Panels!Request
  <2> QED BY <2>1
<1>3. /\ shown' = Panels!Upsert(item) /\ flags' \subseteq flags /\ issue' \in {"none", "load", "more"}
      /\ form' = (IF Panels!Clears(r) THEN [form EXCEPT !.draft = 0] ELSE form)
      /\ tale' = [Panels!Late(r) EXCEPT !.lost = @ \/ Panels!Loses(r), !.freed = panelCount.acts]
      /\ busy' = Panels!NotBusy /\ inflight' = inflight \ {r} /\ UNCHANGED next
  BY <1>1, <1>2 DEF Panels!TakeCreated
<1>4. /\ tale' \in Panels!Told /\ tale'.copy = tale.copy /\ tale'.based = tale.based
      /\ tale'.mixed = tale.mixed /\ tale'.freed = panelCount.acts
      /\ (tale'.late <=> tale.late \/ r.scope # scope)
      /\ (tale'.lost <=> tale.lost \/ Panels!Loses(r))
  BY <1>1, <1>3, PanelsCreatedTale
<1>5. /\ shown' \in Seq(PanelProject \X PanelId) /\ Panels!HasEachOnce(shown')
      /\ 1 \in DOMAIN shown' /\ shown'[1] = item
      /\ \A i \in DOMAIN shown' : shown'[i] = item \/ \E j \in DOMAIN shown : shown'[i] = shown[j]
      /\ \A i \in DOMAIN shown : shown[i][2] # item[2] => \E j \in DOMAIN shown' : shown'[j] = shown[i]
  <2>1. shown \in Seq(PanelProject \X PanelId) /\ Panels!HasEachOnce(shown) /\ item \in PanelProject \X PanelId /\ shown' = Panels!Upsert(item)
    BY <1>1, <1>2, <1>3
  <2>2. shown' \in Seq(PanelProject \X PanelId)
    BY ONLY <2>1, PanelsUpsertIs
  <2>3. Panels!HasEachOnce(shown')
    BY ONLY <2>1, PanelsUpsertIs
  <2>4. 1 \in DOMAIN shown' /\ shown'[1] = item
    BY ONLY <2>1, PanelsUpsertIs
  <2>5. \A i \in DOMAIN shown' : shown'[i] = item \/ \E j \in DOMAIN shown : shown'[i] = shown[j]
    BY ONLY <2>1, PanelsUpsertIs
  <2>6. \A i \in DOMAIN shown : shown[i][2] # item[2] => \E j \in DOMAIN shown' : shown'[j] = shown[i]
    BY ONLY <2>1, PanelsUpsertIs
  <2> QED BY <2>2, <2>3, <2>4, <2>5, <2>6
<1>6. ~Panels!ByOffset /\ panel.load.empties
  <2>1. Panels!Does("create")
    BY <1>1 DEF Panels!RequestIsSound, Panels!Offers
  <2> QED BY <1>1, <2>1, PanelsGuardIs, PanelsHaveThat DEF PanelsFits
<1>7. PanelsOwn'
  <2>1. \A i \in DOMAIN shown' :
            shown'[i][1] = r.scope \/ \E j \in DOMAIN shown : shown'[i][1] = shown[j][1]
    BY <1>2, <1>5
  <2> QED BY <1>1, <1>4, <1>6, <2>1, PanelsOwnRows
<1>8. PanelsFollows'
  <2>1. ASSUME r.scope = scope, NEW id \in Panels!Steady, Panels!Passed(id)
        PROVE  Panels!Passed(id)'
    <3>1. PICK i \in DOMAIN shown : shown[i] = <<scope, id>>
      BY <2>1 DEF Panels!Passed
    <3>2. CASE shown[i][2] = item[2]
      BY <1>5, <2>1, <3>1, <3>2 DEF Panels!Passed
    <3>3. CASE shown[i][2] # item[2]
      BY <1>5, <3>1, <3>3 DEF Panels!Passed
    <3> QED BY <3>2, <3>3
  <2>2. tale'.late \/ (\A id \in Panels!Steady : Panels!Passed(id) => Panels!Passed(id)')
    BY <1>4, <2>1
  <2> QED BY <1>1, <1>3, <1>4, <1>6, <2>2, PanelsOthersStay, PanelsFollowsStays
<1>9. PanelsForms'
  <2>1. ASSUME panel.form = "keyed" PROVE ~tale'.lost
    <3>1. ~tale.lost
      BY <1>1, <2>1 DEF PanelsForms, Panels!KeyedFormsKeepText
    <3>2. r.form.mount = form.mount /\ tale.freed <= r.n => form.draft = r.form.draft
      BY <1>1, <2>1 DEF PanelsForms, Panels!FormsWait
    <3>3. ~Panels!Loses(r)
      BY <2>1, <3>2 DEF Panels!Loses, Panels!Clears
    <3> QED BY <1>4, <3>1, <3>3
  <2>2. panelCount'.acts \in Nat /\ panelCount.acts <= panelCount'.acts /\ tale'.freed \in Nat /\ panelCount.acts <= tale'.freed
    BY <1>1, <1>4
  <2>3. \A q \in inflight' : q.op = "create" => \E o \in inflight : o.op = "create" /\ o.n = q.n
    BY <1>3
  <2> QED BY <1>1, <2>1, <2>2, <2>3, PanelsFormsFreed
<1>10. tale.copy <= tale'.copy
  BY <1>1, <1>4
<1>11. form' \in [mount : Nat, draft : 0..MaxPanelActs]
  <2>1. 0 \in 0..MaxPanelActs
    BY DEF WebPlaneAssumptions, Panels!WebPanelsAssumption
  <2> QED BY <1>1, <1>3, <2>1
<1> QED BY <1>1, <1>3, <1>4, <1>5, <1>6, <1>7, <1>8, <1>9, <1>10, <1>11, PanelsTakenKeeps

LEMMA PanelsReplaceIs ==
    ASSUME shown \in Seq(PanelProject \X PanelId), Panels!HasEachOnce(shown),
           NEW item \in PanelProject \X PanelId, NEW u, u = Panels!Replace(item)
    PROVE  /\ u \in Seq(PanelProject \X PanelId) /\ Panels!HasEachOnce(u) /\ DOMAIN u = DOMAIN shown /\ Len(u) = Len(shown)
           /\ \A i \in DOMAIN u : u[i] = (IF shown[i][2] = item[2] THEN item ELSE shown[i])
<1>1. shown \in [1..Len(shown) -> PanelProject \X PanelId] /\ Len(shown) \in Nat /\ DOMAIN shown = 1..Len(shown)
  OBVIOUS
<1>2. /\ u \in [1..Len(shown) -> PanelProject \X PanelId]
      /\ \A i \in 1..Len(shown) : u[i] = (IF shown[i][2] = item[2] THEN item ELSE shown[i])
  BY <1>1 DEF Panels!Replace
<1>3. u \in Seq(PanelProject \X PanelId) /\ DOMAIN u = 1..Len(shown) /\ Len(u) = Len(shown)
  <2> PICK n : n = Len(shown)
    OBVIOUS
  <2>1. n \in Nat /\ u \in [1..n -> PanelProject \X PanelId]
    BY <1>1, <1>2
  <2>2. u \in Seq(PanelProject \X PanelId) /\ DOMAIN u = 1..n /\ Len(u) = n
    BY ONLY <2>1
  <2> QED BY <2>2
<1>4. Panels!HasEachOnce(u)
  <2>1. \A i \in DOMAIN u : u[i][2] = shown[i][2]
    BY <1>2, <1>3
  <2> QED BY <1>1, <1>3, <2>1 DEF Panels!HasEachOnce
<1> QED BY <1>1, <1>2, <1>3, <1>4

LEMMA PanelsChangedKeeps ==
    ASSUME Panels!WebPanelsInv, NEW r \in inflight, UNCHANGED <<panel, panelTable, scope,
           panelCount>>,
           r.served, r.reply.ok, ~Panels!Ignored(r), r.op \in {"change", "execute"},
           Panels!TakeChanged(r)
    PROVE  Panels!WebPanelsInv'
<1>1. /\ Panels!TypeOK /\ PanelsSound /\ PanelsOwn /\ PanelsFollows /\ PanelsForms /\ r \in Panels!Request /\ Panels!RequestIsSound(r)
      /\ tale \in Panels!Told /\ form \in [mount : Nat, draft : 0..MaxPanelActs] /\ panelCount.acts \in Nat
      /\ (r.scope # scope => ~panel.load.guarded) /\ tale.copy \in Nat /\ panel \in Panels!Panels
      /\ shown \in Seq(PanelProject \X PanelId) /\ Panels!HasEachOnce(shown) /\ issue \in {"none", "load", "more"}
      /\ next \in Nat \cup {NoneYet}
  BY PanelsTakenIs
<1> PICK item : item = <<r.scope, r.id>>
  OBVIOUS
<1>2. item \in PanelProject \X PanelId /\ r.reply.rows[1] = item /\ item[1] = r.scope
  <2>1. r.reply.rows = <<<<r.scope, r.id>>>> /\ r.id \in PanelId /\ r.scope \in PanelProject
    BY <1>1 DEF Panels!RequestIsSound, Panels!Request
  <2> QED BY <2>1
<1>3. /\ shown' = Panels!Replace(item) /\ tale' = Panels!Late(r) /\ issue' \in {"none", "load", "more"}
      /\ busy' = Panels!NotBusy /\ inflight' = inflight \ {r} /\ UNCHANGED <<next, flags, form>>
  BY <1>1, <1>2 DEF Panels!TakeChanged
<1>4. /\ tale' \in Panels!Told /\ tale'.copy = tale.copy /\ tale'.based = tale.based
      /\ tale'.mixed = tale.mixed /\ (tale'.late <=> tale.late \/ r.scope # scope)
  BY <1>1, <1>3, PanelsLateTale
<1>5. /\ shown' \in Seq(PanelProject \X PanelId) /\ Panels!HasEachOnce(shown') /\ DOMAIN shown' = DOMAIN shown
      /\ Len(shown') = Len(shown)
      /\ \A i \in DOMAIN shown' : shown'[i] = (IF shown[i][2] = item[2] THEN item ELSE shown[i])
  BY <1>1, <1>2, <1>3, PanelsReplaceIs
<1>6. panel.form # "keyed" /\ panel.load.empties
  BY <1>1, PanelsRowsAndForms
<1>7. PanelsOwn'
  <2>1. \A i \in DOMAIN shown' :
            shown'[i][1] = r.scope \/ \E j \in DOMAIN shown : shown'[i][1] = shown[j][1]
    BY <1>2, <1>5
  <2> QED BY <1>1, <1>4, <1>6, <2>1, PanelsOwnRows
<1>8. PanelsFollows'
  <2>1. ASSUME r.scope = scope, NEW id \in Panels!Steady, Panels!Passed(id)
        PROVE  Panels!Passed(id)'
    <3>1. PICK i \in DOMAIN shown : shown[i] = <<scope, id>>
      BY <2>1 DEF Panels!Passed
    <3>2. shown'[i] = <<scope, id>>
      BY <1>5, <2>1, <3>1
    <3> QED BY <1>5, <3>2 DEF Panels!Passed
  <2>2. tale'.late \/ (\A id \in Panels!Steady : Panels!Passed(id) => Panels!Passed(id)')
    BY <1>4, <2>1
  <2> QED BY <1>1, <1>3, <1>4, <1>5, <2>2, PanelsOthersStay, PanelsFollowsStays
<1>9. PanelsForms'
  BY <1>6, PanelsFormsOfOthers
<1>10. tale.copy <= tale'.copy
  BY <1>1, <1>4
<1> QED BY <1>1, <1>3, <1>4, <1>5, <1>7, <1>8, <1>9, <1>10, PanelsTakenKeeps

LEMMA PanelsDeliverKeeps ==
    ASSUME WebPlaneAssumptions, Panels!WebPanelsInv, NEW r \in inflight, Panels!Deliver(r)
    PROVE  Panels!WebPanelsInv'
<1>1. r.served /\ UNCHANGED <<panel, panelTable, scope, panelCount>>
  BY DEF Panels!Deliver
<1>2. CASE Panels!Ignored(r)
  BY <1>2, PanelsIgnoreKeeps
<1>3. CASE ~Panels!Ignored(r) /\ r.op = "first" /\ Panels!TakeFirst(r)
  <2>1. CASE r.reply.ok
    <3>1. Panels!Replaced(r) /\ inflight' = inflight \ {r} /\ UNCHANGED <<form, busy>>
      BY <1>3, <2>1 DEF Panels!TakeFirst
    <3> QED BY <1>1, <1>3, <2>1, <3>1, PanelsReplacedKeeps
  <2>2. CASE ~r.reply.ok
    BY <1>1, <1>3, <2>2, PanelsFirstFailsKeeps
  <2> QED BY <2>1, <2>2
<1>4. CASE ~Panels!Ignored(r) /\ r.op = "more" /\ Panels!TakeMore(r)
  BY <1>1, <1>4, PanelsMoreKeeps, PanelsFailedKeeps
<1>5. CASE ~Panels!Ignored(r) /\ r.op = "create" /\ Panels!TakeCreated(r)
  BY <1>1, <1>5, PanelsCreatedKeeps, PanelsFailedKeeps
<1>6. CASE ~Panels!Ignored(r) /\ r.op = "change" /\ Panels!TakeChanged(r)
  BY <1>1, <1>6, PanelsChangedKeeps, PanelsFailedKeeps
<1>7. CASE ~Panels!Ignored(r) /\ r.op = "beside" /\ Panels!TakeBeside(r)
  BY <1>1, <1>7, PanelsBesideKeeps
<1>8. CASE ~Panels!Ignored(r) /\ r.op = "run" /\ Panels!TakeRun(r)
  <2>1. CASE r.reply.ok
    BY <1>1, <1>8, <2>1, PanelsAskAgainKeeps DEF Panels!TakeRun
  <2>2. CASE ~r.reply.ok
    BY <1>1, <1>8, <2>2, PanelsFailedKeeps
  <2> QED BY <2>1, <2>2
<1>9. CASE ~Panels!Ignored(r) /\ r.op = "execute" /\ Panels!TakeExecuted(r)
  <2>1. CASE r.reply.ok
    BY <1>1, <1>9, <2>1, PanelsChangedKeeps DEF Panels!TakeExecuted
  <2>2. CASE ~r.reply.ok
    BY <1>1, <1>9, <2>2, PanelsAskAgainKeeps DEF Panels!TakeExecuted
  <2> QED BY <2>1, <2>2
<1>10. CASE ~Panels!Ignored(r) /\ r.op = "again" /\ Panels!TakeAgain(r)
  <2>1. CASE r.reply.ok
    <3>1. Panels!Replaced(r) /\ inflight' = inflight \ {r} /\ UNCHANGED form /\ busy' = Panels!NotBusy
      BY <1>10, <2>1 DEF Panels!TakeAgain
    <3> QED BY <1>1, <1>10, <2>1, <3>1, PanelsReplacedKeeps
  <2>2. CASE ~r.reply.ok
    BY <1>1, <1>10, <2>2, PanelsFailedKeeps
  <2> QED BY <2>1, <2>2
<1> QED BY <1>2, <1>3, <1>4, <1>5, <1>6, <1>7, <1>8, <1>9, <1>10 DEF Panels!Deliver

LEMMA PanelsStay == Panels!WebPanelsInv /\ UNCHANGED Panels!vars => Panels!WebPanelsInv'
<1> SUFFICES ASSUME Panels!WebPanelsInv, UNCHANGED Panels!vars PROVE Panels!WebPanelsInv'
  OBVIOUS
<1>1. Panels!TypeOK /\ PanelsSound /\ Panels!TablesGrow /\ PanelsOwn /\ PanelsFollows /\ PanelsWaits /\ PanelsForms
  BY PanelsPartsOfInv
<1>2. UNCHANGED <<panel, panelTable, scope, shown, next, flags, busy, issue, form, inflight, tale, panelCount>>
  BY DEF Panels!vars
<1>3. Panels!TypeOK' /\ PanelsSound' /\ Panels!TablesGrow'
  BY <1>1, <1>2, PanelsSoundStays DEF Panels!TypeOK, Panels!HasEachOnce, Panels!TablesGrow,
     Panels!ByOffset, PanelsSound, Panels!RequestIsSound, Panels!Told
<1>4. PanelsOwn' /\ PanelsFollows'
  BY <1>1, <1>2 DEF PanelsOwn, Panels!ShowsItsProject, Panels!ListsAreOwn, PanelsFollows,
     Panels!ShowsAllItPassed,
     Panels!PagesFollow, Panels!Steady, Panels!Goes, Panels!Passed, Panels!ByOffset
<1>5. PanelsWaits' /\ PanelsForms'
  BY <1>1, <1>2 DEF PanelsWaits, Panels!WaitsForSomething, Panels!LoadingIsAsked, Panels!Asked,
     Panels!NotBusy, Panels!ByOffset,
     PanelsForms, Panels!KeyedFormsKeepText, Panels!FormsWait
<1> QED BY <1>3, <1>4, <1>5, PanelsPartsMakeInv

LEMMA PanelsStep ==
    WebPlaneAssumptions /\ Panels!WebPanelsInv /\ (Panels!Next \/ UNCHANGED Panels!vars) => Panels!WebPanelsInv'
<1> SUFFICES ASSUME WebPlaneAssumptions, Panels!WebPanelsInv, Panels!Next \/ UNCHANGED Panels!vars
             PROVE  Panels!WebPanelsInv'
  OBVIOUS
<1>1. ASSUME NEW p \in PanelProject \cup {NoProject}, Panels!Switch(p)
      PROVE  Panels!WebPanelsInv'
  BY <1>1, PanelsSwitchKeeps
<1>2. ASSUME Panels!Reload \/ Panels!LoadMore \/ Panels!Type \/ Panels!ReloadAssets
      PROVE  Panels!WebPanelsInv'
  BY <1>2, PanelsReloadKeeps, PanelsLoadMoreKeeps, PanelsTypeKeeps, PanelsReloadAssetsKeeps
<1>3. ASSUME NEW op \in {"create", "change", "beside", "run", "execute"}, NEW id \in PanelId, Panels!Act(op, id)
      PROVE  Panels!WebPanelsInv'
  BY <1>3, PanelsActKeeps
<1>4. ASSUME NEW r \in inflight, Panels!Serve(r) \/ Panels!Refuse(r) \/ Panels!Deliver(r)
      PROVE  Panels!WebPanelsInv'
  BY <1>4, PanelsServeKeeps, PanelsRefuseKeeps, PanelsDeliverKeeps
<1>5. ASSUME UNCHANGED Panels!vars PROVE Panels!WebPanelsInv'
  BY <1>5, PanelsStay
<1> QED BY <1>1, <1>2, <1>3, <1>4, <1>5 DEF Panels!Next

LEMMA PanelsAgree ==
    Panels!WebPanelsInv => Panels!TypeOK /\ Panels!ShowsItsProject /\ Panels!ShowsAllItPassed /\ Panels!WaitsForSomething /\ Panels!KeyedFormsKeepText
BY DEF Panels!WebPanelsInv

(* What the lists and the shell rely on, in every reachable state.         *)
WebPagesInv ==
    /\ webPart = "panels" => Panels!WebPanelsInv
    /\ webPart = "shell" => Shell!WebShellInv

LEMMA PagesHold == WebSpec => []WebPagesInv
<1>1. WebInit => WebPagesInv
  BY WebPlaneAssumptions, PanelsStartsSound, ShellStartsSound DEF WebInit, WebPagesInv
<1>2. WebPagesInv /\ [WebNext]_webVars => WebPagesInv'
  <2> SUFFICES ASSUME WebPagesInv, [WebNext]_webVars PROVE WebPagesInv'
    OBVIOUS
  <2>1. webPart' = webPart
    BY DEF WebNext, webVars
  <2>2. ASSUME webPart = "panels" PROVE Panels!WebPanelsInv'
    <3>1. Panels!WebPanelsInv
      BY <2>2 DEF WebPagesInv
    <3>2. Panels!Next \/ UNCHANGED Panels!vars
      BY <2>2 DEF WebNext, webVars, panelsVars, Panels!vars
    <3> QED BY <3>1, <3>2, WebPlaneAssumptions, PanelsStep
  <2>3. ASSUME webPart = "shell" PROVE Shell!WebShellInv'
    <3>1. Shell!WebShellInv
      BY <2>3 DEF WebPagesInv
    <3>2. Shell!Next \/ UNCHANGED Shell!vars
      BY <2>3 DEF WebNext, webVars, shellVars, Shell!vars
    <3> QED BY <3>1, <3>2, WebPlaneAssumptions, ShellStep
  <2> QED BY <2>1, <2>2, <2>3 DEF WebPagesInv
<1> QED BY <1>1, <1>2, PTL DEF WebSpec

(***************************************************************************)
(* The lists and the shell of the web application, for any projects, rows, *)
(* tenants, assets and addresses and any number of actions and failures:   *)
(* however answers overtake switches, navigation, retries and one another, *)
(* a list that compares the project shows only its project's rows, a list  *)
(* no row came late or moved for shows all that it has passed, nothing     *)
(* waits for an answer nobody asked for, a keyed form keeps what was typed *)
(* in it, and the selected tenant and project, the address and the asset   *)
(* shown agree (the load effects, "load more" and mutation handlers of the *)
(* workspaces, App.tsx and use-explorer-controller.ts).                    *)
(***************************************************************************)
THEOREM PagesKeepToTheirProject == WebSpec => []PagesKeepToProject
<1>1. WebPagesInv => PagesKeepToProject
  BY PanelsAgree, ShellAgrees DEF WebPagesInv, PagesKeepToProject
<1> QED BY <1>1, PagesHold, PTL
=============================================================================
