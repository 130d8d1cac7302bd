-------------------------- MODULE WriteBackProofs ---------------------------
(***************************************************************************)
(* Proofs about WriteBack for every set of requests, users, risks and      *)
(* handlers and every policy.                                              *)
(***************************************************************************)
EXTENDS WriteBack, FiniteSetTheorems, TLAPS

(* A handler that leaves its transaction keeps the types. *)
LEMMA RefuseType ==
    ASSUME WriteBackTypeOK, NEW h \in RouteHandler, Decline(h)
    PROVE  WriteBackTypeOK'
BY DEF Decline, Leave, tables, WriteBackTypeOK, Stage, Reviewing

(* One more event of the right type keeps the types of the ledger. *)
LEMMA RecordType ==
    ASSUME WriteBackTypeOK, NEW r \in Writeback, NEW s \in State, NEW u \in Person, NEW to \in State,
           NEW type \in {"created", "blocked", "started", "unavailable", "ended"} \cup Decision,
           LogEvent(r, s, type, u, to)
    PROVE  /\ state' \in [Writeback -> State]
           /\ logged' \in [Writeback -> Seq(Event)]
<1>1. [type |-> type, by |-> u, to |-> to] \in Event
  BY DEF Event
<1>2. Append(logged[r], [type |-> type, by |-> u, to |-> to]) \in Seq(Event)
  BY <1>1 DEF WriteBackTypeOK
<1>3. QED
  BY <1>2 DEF LogEvent, WriteBackTypeOK

(* Tables, handlers and the trail keep their types, and a handler in a     *)
(* transaction knows its request, its user and its verdict.                *)
THEOREM TypeCorrect == WriteBackSpec => []WriteBackTypeOK
<1>1. WriteBackInit => WriteBackTypeOK
  BY WriteBackAssumption DEF WriteBackInit, WriteBackTypeOK, State, Stage, Reviewing
<1>2. WriteBackTypeOK /\ [WriteBackNext]_writeBackVars => WriteBackTypeOK'
  <2> SUFFICES ASSUME WriteBackTypeOK, [WriteBackNext]_writeBackVars PROVE WriteBackTypeOK'
    OBVIOUS
  <2> USE WriteBackAssumption DEF tables
  <2>1. ASSUME NEW r \in Writeback, Create(r) PROVE WriteBackTypeOK'
    <3>1. filed[r].by \in Person /\ {"pending_approval", "cancelled"} \subseteq State
      BY DEF WriteBackTypeOK, State
    <3>2. state' \in [Writeback -> State] /\ logged' \in [Writeback -> Seq(Event)]
      BY <2>1, <3>1, RecordType DEF Create
    <3>3. QED
      BY <2>1, <3>2 DEF Create, WriteBackTypeOK
  <2>2. ASSUME NEW h \in RouteHandler, NEW r \in Writeback, NEW u \in Person,
               NEW verdict \in Decision \cup {"succeeded", "failed"}, NEW p \in Stage,
               p \in Reviewing => verdict \in Decision, p # "finish",
               Take(h, p, r, u, verdict)
        PROVE  WriteBackTypeOK'
    <3>1. [request |-> r, user |-> u, verdict |-> verdict, next |-> "pending_approval"] \in Job
      BY DEF Job, State
    <3>2. QED
      BY <2>2, <3>1 DEF Take, Proceed, WriteBackTypeOK
  <2>3. ASSUME NEW h \in RouteHandler, StartReview(h) PROVE WriteBackTypeOK'
    BY <2>2, <2>3 DEF StartReview, Stage, Reviewing
  <2>4. ASSUME NEW h \in RouteHandler, StartExecution(h) PROVE WriteBackTypeOK'
    BY <2>2, <2>4 DEF StartExecution, Stage, Reviewing, Executing
  <2>5. ASSUME NEW h \in RouteHandler, CheckPending(h) PROVE WriteBackTypeOK'
    <3>1. CASE Decline(h)
      BY <3>1, RefuseType
    <3>2. CASE Proceed(h, "unique") /\ UNCHANGED <<tables, plantActs, withExecutor, job, faults>>
      BY <2>5, <3>2 DEF CheckPending, Proceed, WriteBackTypeOK, Stage, Reviewing
    <3>3. QED
      BY <2>5, <3>1, <3>2 DEF CheckPending
  <2>6. ASSUME NEW h \in RouteHandler, Insert(h) PROVE WriteBackTypeOK'
    <3>1. CASE Decline(h)
      BY <3>1, RefuseType
    <3>2. CASE Proceed(h, "count") /\ UNCHANGED <<tables, plantActs, withExecutor, job, faults>>
      BY <2>6, <3>2 DEF Insert, Proceed, WriteBackTypeOK, Stage, Reviewing
    <3>3. QED
      BY <2>6, <3>1, <3>2 DEF Insert
  <2>7. ASSUME NEW h \in RouteHandler, Count(h) PROVE WriteBackTypeOK'
    <3>1. job[h] \in Job /\ job[h].verdict \in Decision /\ Conclusion(job[h]) \in State
      BY <2>7 DEF Count, WriteBackTypeOK, Reviewing, Conclusion, State
    <3>2. [job[h] EXCEPT !.next = Conclusion(job[h])] \in Job
      BY <3>1 DEF Job
    <3>3. QED
      BY <2>7, <3>1, <3>2 DEF Count, Proceed, WriteBackTypeOK, Stage, Reviewing, Job
  <2>8. ASSUME NEW h \in RouteHandler, Settle(h) PROVE WriteBackTypeOK'
    <3>1. job[h] \in Job /\ job[h].verdict \in Decision /\ Settled(job[h]) \in State
      BY <2>8 DEF Settle, WriteBackTypeOK, Reviewing, Settled, Job
    <3>2. state' \in [Writeback -> State] /\ logged' \in [Writeback -> Seq(Event)]
      BY <2>8, <3>1, RecordType DEF Settle, Job
    <3>3. decided' \in [Writeback -> [Person -> Decision \cup {"none"}]]
      BY <2>8, <3>1 DEF Settle, WriteBackTypeOK, Job
    <3>4. QED
      BY <2>8, <3>2, <3>3 DEF Settle, Leave, WriteBackTypeOK, Stage, Reviewing
  <2>9. ASSUME NEW h \in RouteHandler, RecordUnavailable(h) PROVE WriteBackTypeOK'
    <3>1. job[h] \in Job
      BY <2>9 DEF RecordUnavailable, WriteBackTypeOK
    <3>2. CASE Decline(h)
      BY <3>2, RefuseType
    <3>3. CASE /\ LogEvent(job[h].request, state[job[h].request], "unavailable", job[h].user,
                         state[job[h].request])
               /\ Leave(h) /\ UNCHANGED <<filed, decided, plantActs, withExecutor, faults>>
      <4>1. state' \in [Writeback -> State] /\ logged' \in [Writeback -> Seq(Event)]
        <5>1. job[h].request \in Writeback /\ job[h].user \in Person
          BY <3>1 DEF Job
        <5>2. state[job[h].request] \in State
          BY <5>1 DEF WriteBackTypeOK
        <5>3. QED
          BY <3>3, <5>1, <5>2, RecordType
      <4>2. QED
        BY <3>3, <4>1 DEF Leave, WriteBackTypeOK, Stage, Reviewing
    <3>4. QED
      BY <2>9, <3>2, <3>3 DEF RecordUnavailable
  <2>10. ASSUME NEW h \in RouteHandler, stage[h] = "begin",
                LogEvent(job[h].request, "executing", "started", job[h].user, "executing")
         PROVE  state' \in [Writeback -> State] /\ logged' \in [Writeback -> Seq(Event)]
    <3>1. job[h] \in Job /\ "executing" \in State
      BY <2>10 DEF WriteBackTypeOK, State, Begun
    <3>2. QED
      BY <2>10, <3>1, RecordType DEF Job
  <2>11. ASSUME NEW h \in RouteHandler, BeginExecution(h) PROVE WriteBackTypeOK'
    <3>1. CASE Decline(h)
      BY <3>1, RefuseType
    <3>2. CASE /\ LogEvent(job[h].request, "executing", "started", job[h].user, "executing")
               /\ Proceed(h, "call") /\ UNCHANGED <<filed, decided, plantActs, withExecutor, job, faults>>
      <4>1. stage[h] = "begin"
        BY <2>11 DEF BeginExecution
      <4>2. QED
        BY <2>10, <3>2, <4>1 DEF Proceed, WriteBackTypeOK, Stage, Reviewing, Executing
    <3>3. QED
      BY <2>11, <3>1, <3>2 DEF BeginExecution
  <2>12. ASSUME NEW h \in RouteHandler, BeginUnheard(h) PROVE WriteBackTypeOK'
    <3>1. state' \in [Writeback -> State] /\ logged' \in [Writeback -> Seq(Event)]
      BY <2>10, <2>12 DEF BeginUnheard
    <3>2. QED
      BY <2>12, <3>1 DEF BeginUnheard, Leave, WriteBackTypeOK, Stage, Reviewing
  <2>13. ASSUME NEW h \in RouteHandler, Call(h) PROVE WriteBackTypeOK'
    <3>1. PICK acted \in BOOLEAN, verdict \in {"succeeded", "failed"} :
              /\ plantActs' = IF acted THEN [plantActs EXCEPT ![job[h].request] = @ + 1] ELSE plantActs
              /\ job' = [job EXCEPT ![h].verdict = verdict]
      BY <2>13 DEF Call
    <3>2. job[h] \in Job
      BY <2>13 DEF Call, WriteBackTypeOK
    <3>3. plantActs' \in [Writeback -> Nat]
      BY <3>1, <3>2 DEF WriteBackTypeOK, Job
    <3>4. [job[h] EXCEPT !.verdict = verdict] \in Job
      BY <3>2 DEF Job
    <3>5. QED
      BY <2>13, <3>1, <3>2, <3>3, <3>4 DEF Call, Proceed, WriteBackTypeOK, Stage, Reviewing, Executing, Job
  <2>14. ASSUME NEW h \in RouteHandler, Finish(h) PROVE WriteBackTypeOK'
    <3>1. CASE Decline(h)
      BY <3>1, RefuseType
    <3>2. CASE /\ LogEvent(job[h].request, job[h].verdict, "ended", job[h].user, job[h].verdict)
               /\ Leave(h) /\ UNCHANGED <<filed, decided, plantActs, withExecutor, faults>>
      <4>1. job[h] \in Job /\ job[h].verdict \in State
        BY <2>14 DEF Finish, WriteBackTypeOK, State, Begun
      <4>2. state' \in [Writeback -> State] /\ logged' \in [Writeback -> Seq(Event)]
        BY <3>2, <4>1, RecordType DEF Job
      <4>3. QED
        BY <3>2, <4>2 DEF Leave, WriteBackTypeOK, Stage, Reviewing
    <3>3. QED
      BY <2>14, <3>1, <3>2 DEF Finish
  <2>15. ASSUME NEW h \in RouteHandler, Fail(h) PROVE WriteBackTypeOK'
    BY <2>15 DEF Fail, Leave, WriteBackTypeOK, Stage, Reviewing
  <2>16. CASE UNCHANGED writeBackVars
    BY <2>16 DEF writeBackVars, WriteBackTypeOK
  <2>17. QED
    BY <2>1, <2>3, <2>4, <2>5, <2>6, <2>7, <2>8, <2>9, <2>11, <2>12, <2>13, <2>14, <2>15, <2>16
       DEF WriteBackNext, Review, Execution
<1>3. QED
  BY <1>1, <1>2, PTL DEF WriteBackSpec
-----------------------------------------------------------------------------
(* The inductive invariant of the ledger.                                  *)

(* What a review that is about to settle its request may conclude. *)
Sound(j) ==
    /\ j.next \in {"pending_approval", "approved", "cancelled"}
    /\ j.verdict = "rejected" => j.next = "cancelled"
    /\ j.verdict = "approved" /\ j.next = "cancelled" => Having(j.request, "rejected") # {}
    /\ j.next = "approved" =>
          /\ j.verdict = "approved"
          /\ Enough(j.request, Having(j.request, "approved") \cup {j.user})

(* A review in progress is somebody else's and, once inserted, the only one *)
(* of its reviewer.                                                         *)
ReviewSound(h) ==
    /\ stage[h] \in Reviewing =>
          /\ state[job[h].request] # "none"
          /\ job[h].user # filed[job[h].request].by
    /\ stage[h] \in {"count", "settle"} =>
          /\ decided[job[h].request][job[h].user] = "none"
          /\ ~Contended(h)
    /\ stage[h] = "settle" => Sound(job[h])

(* One handler runs a request that is being executed, and has not acted    *)
(* before it calls the executor.                                           *)
RunSound(h) ==
    stage[h] \in {"call", "finish"} =>
        /\ state[job[h].request] = "executing"
        /\ stage[h] = "call" => plantActs[job[h].request] = 0
        /\ \A g \in RouteHandler : g # h /\ stage[g] \in {"call", "finish"} =>
              job[g].request # job[h].request

RequestSound(r) ==
    /\ state[r] = "pending_approval" => Having(r, "rejected") = {}
    /\ state[r] = "none" => \A u \in Person : decided[r][u] = "none"
    /\ plantActs[r] \in {0, 1}
    /\ plantActs[r] = 1 => state[r] \in Begun

LedgerInv ==
    /\ WriteBackTypeOK
    /\ \A h \in RouteHandler : ReviewSound(h) /\ RunSound(h)
    /\ \A r \in Writeback : RequestSound(r)

(* Reviews that are added keep a set of approvers large enough. *)
LEMMA EnoughGrows ==
    ASSUME NEW r \in Writeback, NEW S, NEW T, S \subseteq T, T \subseteq Person,
           WriteBackTypeOK, filed' = filed, Enough(r, S)
    PROVE  Enough(r, T) /\ Enough(r, T)'
<1>1. IsFiniteSet(T)
  BY FS_Subset, WriteBackAssumption
<1>2. Cardinality(S) <= Cardinality(T) /\ Cardinality(S) \in Nat /\ Cardinality(T) \in Nat
  BY <1>1, FS_Subset, FS_CardinalityType
<1>3. Required[filed[r].risk] \in Nat
  BY WriteBackAssumption DEF WriteBackTypeOK
<1>4. QED
  BY <1>2, <1>3 DEF Enough

LEMMA SoundGrows ==
    ASSUME WriteBackTypeOK, NEW j \in Job, Sound(j), filed' = filed,
           \A u \in Person : decided[j.request][u] # "none" =>
                decided'[j.request][u] = decided[j.request][u]
    PROVE  Sound(j)'
<1>1. j.request \in Writeback /\ j.user \in Person
  BY DEF Job
<1>2. ASSUME NEW d \in Decision PROVE Having(j.request, d) \subseteq Having(j.request, d)'
  BY DEF Having, Decision
<1>3. CASE j.next = "approved"
  <2> DEFINE S == Having(j.request, "approved") \cup {j.user}
             T == Having(j.request, "approved")' \cup {j.user}
  <2>1. S \subseteq T /\ T \subseteq Person
    BY <1>1, <1>2 DEF Having, Decision
  <2>2. Enough(j.request, S)
    BY <1>3 DEF Sound
  <2>3. Cardinality(T) >= Required[filed[j.request].risk]
    <3> HIDE DEF S, T
    <3>1. QED
      BY <1>1, <2>1, <2>2, EnoughGrows DEF Enough
  <2>4. QED
    BY <1>3, <2>3 DEF Sound, Enough
<1>4. CASE j.next # "approved"
  BY <1>2, <1>4 DEF Sound, Decision
<1>5. QED
  BY <1>3, <1>4

(* What a step of one handler leaves of the reviews of the others. *)
LEMMA OtherReviews ==
    ASSUME LedgerInv, NEW h \in RouteHandler, NEW g \in RouteHandler, g # h, filed' = filed,
           \A d \in RouteHandler \ {h} : stage'[d] = stage[d] /\ job'[d] = job[d],
           \A r \in Writeback : state[r] # "none" => state'[r] # "none",
           \A r \in Writeback, u \in Person :
                decided[r][u] # "none" => decided'[r][u] = decided[r][u],
           \A r \in Writeback, u \in Person :
                \/ decided'[r][u] = decided[r][u]
                \/ stage[h] \in {"count", "settle"} /\ r = job[h].request /\ u = job[h].user,
           stage'[h] \in {"count", "settle"} =>
                /\ ~Contended(h)
                /\ job'[h].request = job[h].request /\ job'[h].user = job[h].user
    PROVE  ReviewSound(g)'
<1>1. ReviewSound(g) /\ stage'[g] = stage[g] /\ job'[g] = job[g]
  BY DEF LedgerInv
<1>2. ASSUME stage[g] \in Reviewing PROVE job[g] \in Job /\ job[g].request \in Writeback /\ job[g].user \in Person
  BY <1>2 DEF LedgerInv, WriteBackTypeOK, Reviewing, Job
<1>3. stage'[g] \in Reviewing =>
          state'[job'[g].request] # "none" /\ job'[g].user # filed'[job'[g].request].by
  BY <1>1, <1>2 DEF ReviewSound
<1>4. ASSUME stage[g] \in {"count", "settle"}
      PROVE  decided'[job'[g].request][job'[g].user] = "none" /\ ~Contended(g)'
  <2>1. decided[job[g].request][job[g].user] = "none" /\ ~Contended(g)
    BY <1>1, <1>4 DEF ReviewSound
  <2>2. decided'[job[g].request][job[g].user] = "none"
    <3>1. CASE stage[h] \in {"count", "settle"}
      BY <1>2, <1>4, <2>1, <3>1 DEF Contended, Reviewing
    <3>2. CASE stage[h] \notin {"count", "settle"}
      BY <1>2, <1>4, <2>1, <3>2 DEF Reviewing
    <3>3. QED
      BY <3>1, <3>2
  <2>3. ~Contended(g)'
    <3> SUFFICES ASSUME NEW d \in RouteHandler \ {g}, stage'[d] \in {"count", "settle"},
                        job'[d].request = job'[g].request, job'[d].user = job'[g].user
                 PROVE  FALSE
      BY DEF Contended
    <3>1. CASE d = h
      BY <1>1, <1>4, <3>1 DEF Contended
    <3>2. CASE d # h
      BY <1>1, <2>1, <3>2 DEF Contended
    <3>3. QED
      BY <3>1, <3>2
  <2>4. QED
    BY <1>1, <2>2, <2>3
<1>5. ASSUME stage[g] = "settle" PROVE Sound(job[g])'
  <2>1. job[g] \in Job /\ job[g].request \in Writeback /\ Sound(job[g]) /\ WriteBackTypeOK
    BY <1>1, <1>2, <1>5 DEF ReviewSound, Reviewing, LedgerInv
  <2>2. PICK j \in Job : j = job[g]
    BY <2>1
  <2>3. Sound(j)'
    BY <2>1, <2>2, SoundGrows
  <2>4. QED
    BY <1>1, <2>2, <2>3 DEF Sound
<1>6. QED
  BY <1>1, <1>3, <1>4, <1>5 DEF ReviewSound

(* And of the executions of the others. *)
LEMMA OtherRuns ==
    ASSUME LedgerInv, NEW h \in RouteHandler, NEW g \in RouteHandler, g # h,
           \A d \in RouteHandler \ {h} : stage'[d] = stage[d] /\ job'[d] = job[d],
           \A r \in Writeback : state[r] = "executing" =>
                \/ state'[r] = "executing"
                \/ stage[h] = "finish" /\ r = job[h].request,
           \A r \in Writeback : plantActs'[r] = plantActs[r] \/ (stage[h] = "call" /\ r = job[h].request),
           stage'[h] \in {"call", "finish"} =>
                /\ job'[h].request = job[h].request
                /\ stage[h] \in {"call", "finish"} \/ state[job[h].request] # "executing"
    PROVE  RunSound(g)'
<1> SUFFICES ASSUME stage[g] \in {"call", "finish"}
             PROVE  /\ state'[job[g].request] = "executing"
                    /\ stage[g] = "call" => plantActs'[job[g].request] = 0
                    /\ \A d \in RouteHandler : d # g /\ stage'[d] \in {"call", "finish"} =>
                          job'[d].request # job[g].request
  BY DEF RunSound
<1>1. /\ RunSound(g) /\ job[g].request \in Writeback
      /\ state[job[g].request] = "executing"
  BY DEF LedgerInv, WriteBackTypeOK, RunSound, Job
<1>2. stage[h] \in {"call", "finish"} => job[h].request # job[g].request
  BY <1>1 DEF RunSound
<1>3. ASSUME NEW d \in RouteHandler, d # g, stage'[d] \in {"call", "finish"}
      PROVE  job'[d].request # job[g].request
  <2>1. CASE d = h
    BY <1>1, <1>2, <1>3, <2>1
  <2>2. CASE d # h
    BY <1>1, <1>3, <2>2 DEF RunSound
  <2>3. QED
    BY <2>1, <2>2
<1>4. QED
  BY <1>1, <1>2, <1>3 DEF RunSound

(* A step of h that changes no table and does not act. *)
LEMMA SilentStep ==
    ASSUME LedgerInv, WriteBackTypeOK', NEW h \in RouteHandler, UNCHANGED <<tables, plantActs>>,
           \A d \in RouteHandler \ {h} : stage'[d] = stage[d] /\ job'[d] = job[d],
           stage'[h] \in {"count", "settle"} =>
                /\ ~Contended(h)
                /\ job'[h].request = job[h].request /\ job'[h].user = job[h].user,
           stage'[h] \notin {"call", "finish"},
           ReviewSound(h)'
    PROVE  LedgerInv'
<1>1. ASSUME NEW g \in RouteHandler PROVE ReviewSound(g)'
  <2>1. CASE g # h
    BY <2>1, OtherReviews DEF tables
  <2>2. QED
    BY <2>1
<1>2. ASSUME NEW g \in RouteHandler PROVE RunSound(g)'
  <2>1. CASE g # h
    <3>1. /\ \A r \in Writeback : state[r] = "executing" =>
                \/ state'[r] = "executing"
                \/ stage[h] = "finish" /\ r = job[h].request
          /\ \A r \in Writeback : plantActs'[r] = plantActs[r] \/ (stage[h] = "call" /\ r = job[h].request)
      BY DEF tables
    <3>2. QED
      BY <2>1, <3>1, OtherRuns
  <2>2. CASE g = h
    BY <2>2 DEF RunSound
  <2>3. QED
    BY <2>1, <2>2
<1>3. ASSUME NEW r \in Writeback PROVE RequestSound(r)'
  BY DEF LedgerInv, RequestSound, Having, tables
<1>4. QED
  BY <1>1, <1>2, <1>3 DEF LedgerInv

LEMMA RefuseSound ==
    ASSUME LedgerInv, WriteBackTypeOK', NEW h \in RouteHandler, Leave(h), UNCHANGED <<tables, plantActs>>
    PROVE  LedgerInv'
<1>1. stage'[h] = "idle" /\ \A d \in RouteHandler \ {h} : stage'[d] = stage[d] /\ job'[d] = job[d]
  BY DEF Leave, LedgerInv, WriteBackTypeOK
<1>2. ReviewSound(h)'
  BY <1>1 DEF ReviewSound, Reviewing
<1>3. QED
  BY <1>1, <1>2, SilentStep

(* The event and the state of one request change, and nothing of another. *)
LEMMA RecordEffect ==
    ASSUME WriteBackTypeOK, NEW r \in Writeback, NEW s, NEW type, NEW u, NEW to,
           LogEvent(r, s, type, u, to)
    PROVE  /\ state'[r] = s
           /\ logged'[r] = Append(logged[r], [type |-> type, by |-> u, to |-> to])
           /\ \E x : logged'[r] = Append(logged[r], x)
           /\ \A q \in Writeback \ {r} : state'[q] = state[q] /\ logged'[q] = logged[q]
<1>1. /\ state'[r] = s
      /\ logged'[r] = Append(logged[r], [type |-> type, by |-> u, to |-> to])
      /\ \A q \in Writeback \ {r} : state'[q] = state[q] /\ logged'[q] = logged[q]
  BY DEF LogEvent, WriteBackTypeOK
<1>2. \E x : logged'[r] = Append(logged[r], x)
  BY <1>1
<1>3. QED
  BY <1>1, <1>2

(* The steps of a review. *)
LEMMA ReviewSteps ==
    ASSUME LedgerInv, WriteBackTypeOK', NEW h \in RouteHandler, StartReview(h) \/ Review(h)
    PROVE  LedgerInv'
<1> USE DEF Stage
<1>0. WriteBackTypeOK
  BY DEF LedgerInv
<1>1. CASE StartReview(h)
  <2>1. PICK r \in Writeback, u \in Person, d \in Decision :
            state[r] = "pending_approval" /\ u # filed[r].by /\ Take(h, "insert", r, u, d)
    BY <1>1 DEF StartReview
  <2>2. /\ stage'[h] = "insert" /\ job'[h].request = r /\ job'[h].user = u
        /\ \A d1 \in RouteHandler \ {h} : stage'[d1] = stage[d1] /\ job'[d1] = job[d1]
    BY <1>0, <2>1 DEF Take, Proceed, WriteBackTypeOK
  <2>3. ReviewSound(h)'
    BY <2>1, <2>2 DEF ReviewSound, Reviewing, Take, tables
  <2>4. QED
    BY <2>1, <2>2, <2>3, SilentStep DEF Take
<1>2. CASE CheckPending(h)
  <2>1. CASE Decline(h)
    BY <2>1, RefuseSound DEF Decline
  <2>2. CASE Proceed(h, "unique") /\ UNCHANGED <<tables, plantActs, withExecutor, job, faults>>
    <3>1. stage'[h] = "unique" /\ \A d \in RouteHandler \ {h} : stage'[d] = stage[d] /\ job'[d] = job[d]
      BY <1>0, <2>2 DEF Proceed, WriteBackTypeOK
    <3>2. ReviewSound(h)'
      <4>1. stage[h] = "insert" /\ ReviewSound(h)
        BY <1>2 DEF CheckPending, LedgerInv
      <4>2. QED
        BY <2>2, <3>1, <4>1 DEF ReviewSound, Reviewing, tables
    <3>3. QED
      BY <2>2, <3>1, <3>2, SilentStep
  <2>3. QED
    BY <1>2, <2>1, <2>2 DEF CheckPending
<1>3. CASE Insert(h)
  <2>1. CASE Decline(h)
    BY <2>1, RefuseSound DEF Decline
  <2>2. CASE /\ decided[job[h].request][job[h].user] = "none"
             /\ Proceed(h, "count") /\ UNCHANGED <<tables, plantActs, withExecutor, job, faults>>
    <3>1. stage'[h] = "count" /\ \A d \in RouteHandler \ {h} : stage'[d] = stage[d] /\ job'[d] = job[d]
      BY <1>0, <2>2 DEF Proceed, WriteBackTypeOK
    <3>2. ReviewSound(h)'
      <4>1. stage[h] = "unique" /\ ReviewSound(h) /\ ~Contended(h)
        BY <1>3 DEF Insert, LedgerInv
      <4>2. ~Contended(h)'
        BY <2>2, <3>1, <4>1 DEF Contended
      <4>3. QED
        BY <2>2, <3>1, <4>1, <4>2 DEF ReviewSound, Reviewing, tables
    <3>3. ~Contended(h)
      BY <1>3 DEF Insert
    <3>4. QED
      BY <2>2, <3>1, <3>2, <3>3, SilentStep
  <2>3. QED
    BY <1>3, <2>1, <2>2 DEF Insert
<1>4. CASE Count(h)
  <2>1. /\ stage[h] = "count" /\ ReviewSound(h) /\ job[h] \in Job /\ job[h].verdict \in Decision
        /\ UNCHANGED <<tables, plantActs>>
    BY <1>0, <1>4 DEF Count, LedgerInv, WriteBackTypeOK, Reviewing
  <2>2. job' = [job EXCEPT ![h] = [job[h] EXCEPT !.next = Conclusion(job[h])]]
    BY <1>4 DEF Count
  <2>3. /\ stage'[h] = "settle" /\ job'[h] = [job[h] EXCEPT !.next = Conclusion(job[h])]
        /\ \A d \in RouteHandler \ {h} : stage'[d] = stage[d] /\ job'[d] = job[d]
    BY <1>0, <1>4, <2>2 DEF Count, Proceed, WriteBackTypeOK
  <2>4. /\ job'[h].request = job[h].request /\ job'[h].user = job[h].user
        /\ job'[h].verdict = job[h].verdict /\ job'[h].next = Conclusion(job[h])
    BY <2>1, <2>3 DEF Job
  <2>5. ~Contended(h) /\ ~Contended(h)'
    BY <2>1, <2>3, <2>4 DEF ReviewSound, Contended
  <2>6. Sound(job[h])'
    <3>1. \A r, d : Having(r, d)' = Having(r, d)
      BY <2>1 DEF Having, tables
    <3>2. \A r, S : Enough(r, S)' <=> Enough(r, S)
      BY <2>1 DEF Enough, tables
    <3>3. CASE job[h].verdict = "rejected"
      BY <2>4, <3>3 DEF Conclusion, Sound
    <3>4. CASE job[h].verdict = "approved" /\ Having(job[h].request, "rejected") # {}
      BY <2>4, <3>1, <3>4 DEF Conclusion, Sound
    <3>5. CASE job[h].verdict = "approved" /\ Having(job[h].request, "rejected") = {}
      <4> DEFINE S == Having(job[h].request, "approved") \cup {job[h].user}
      <4>1. Conclusion(job[h]) = IF Enough(job[h].request, S) THEN "approved" ELSE "pending_approval"
        BY <3>5 DEF Conclusion
      <4>2. (Having(job[h].request, "approved") \cup {job[h].user})' = S
        BY <2>4, <3>1
      <4>3. Enough(job[h].request, Having(job[h].request, "approved") \cup {job[h].user})'
               <=> Enough(job[h].request, S)
        BY <2>1, <2>4, <4>2 DEF Enough, tables
      <4>4. QED
        BY <2>4, <3>5, <4>1, <4>3 DEF Sound
    <3>6. QED
      BY <2>1, <3>3, <3>4, <3>5 DEF Decision
  <2>7. ReviewSound(h)'
    BY <2>1, <2>3, <2>4, <2>5, <2>6 DEF ReviewSound, Reviewing, tables
  <2>8. QED
    BY <2>1, <2>3, <2>4, <2>5, <2>7, SilentStep
<1>5. CASE Settle(h)
  <2>1. /\ stage[h] = "settle" /\ ReviewSound(h) /\ job[h] \in Job /\ job[h].verdict \in Decision
        /\ job[h].request \in Writeback /\ job[h].user \in Person /\ Sound(job[h])
    BY <1>0, <1>5 DEF Settle, LedgerInv, WriteBackTypeOK, Reviewing, Job, ReviewSound
  <2>2. PICK r \in Writeback, u \in Person : r = job[h].request /\ u = job[h].user
    BY <2>1
  <2>3. /\ state'[r] = Settled(job[h])
        /\ \A q \in Writeback \ {r} : state'[q] = state[q]
    BY <1>0, <1>5, <2>1, <2>2, RecordEffect DEF Settle
  <2>4. /\ decided[r][u] = "none" /\ decided'[r][u] = job[h].verdict
        /\ \A q \in Writeback, v \in Person : <<q, v>> # <<r, u>> => decided'[q][v] = decided[q][v]
    BY <1>0, <1>5, <2>1, <2>2 DEF Settle, WriteBackTypeOK, ReviewSound
  <2>5. /\ stage'[h] = "idle" /\ filed' = filed /\ plantActs' = plantActs
        /\ \A d \in RouteHandler \ {h} : stage'[d] = stage[d] /\ job'[d] = job[d]
    BY <1>0, <1>5 DEF Settle, Leave, WriteBackTypeOK
  <2>6. state[r] # "none" /\ state'[r] # "none"
    BY <2>1, <2>2, <2>3 DEF ReviewSound, Reviewing, Settled, Sound
  <2>7. ASSUME NEW g \in RouteHandler PROVE ReviewSound(g)'
    <3>1. CASE g = h
      BY <2>5, <3>1 DEF ReviewSound, Reviewing
    <3>2. CASE g # h
      BY <2>1, <2>2, <2>3, <2>4, <2>5, <2>6, <3>2, OtherReviews
    <3>3. QED
      BY <3>1, <3>2
  <2>8. ASSUME NEW g \in RouteHandler PROVE RunSound(g)'
    <3>1. CASE g = h
      BY <2>5, <3>1 DEF RunSound
    <3>2. CASE g # h
      <4>1. /\ \A q \in Writeback : state[q] = "executing" =>
                  \/ state'[q] = "executing"
                  \/ stage[h] = "finish" /\ q = job[h].request
            /\ \A q \in Writeback : plantActs'[q] = plantActs[q] \/ (stage[h] = "call" /\ q = job[h].request)
        BY <2>2, <2>3, <2>5 DEF Settled
      <4>2. QED
        BY <2>5, <3>2, <4>1, OtherRuns
    <3>3. QED
      BY <3>1, <3>2
  <2>9. ASSUME NEW q \in Writeback PROVE RequestSound(q)'
    <3>1. RequestSound(q)
      BY DEF LedgerInv
    <3>2. CASE q # r
      BY <2>3, <2>4, <2>5, <3>1, <3>2 DEF RequestSound, Having
    <3>3. CASE q = r
      <4>1. state'[r] = "pending_approval" => Having(r, "rejected")' = {}
        <5>1. ASSUME state'[r] = "pending_approval"
              PROVE  job[h].verdict = "approved" /\ Having(r, "rejected") = {}
          BY <2>1, <2>2, <2>3, <3>1, <3>3, <5>1 DEF Settled, Sound, RequestSound, Decision
        <5>2. QED
          BY <2>4, <5>1 DEF Having
      <4>2. state[r] \in Begun => state'[r] \in Begun
        BY <2>2, <2>3 DEF Settled, Begun
      <4>3. QED
        BY <2>5, <2>6, <3>1, <3>3, <4>1, <4>2 DEF RequestSound
    <3>4. QED
      BY <3>2, <3>3
  <2>10. QED
    BY <2>7, <2>8, <2>9 DEF LedgerInv
<1>6. QED
  BY <1>1, <1>2, <1>3, <1>4, <1>5 DEF Review

(* Begin and BeginUnheard: the request was approved, so nobody runs it. *)
LEMMA BeginStep ==
    ASSUME LedgerInv, WriteBackTypeOK', NEW h \in RouteHandler,
           stage[h] = "begin", state[job[h].request] = "approved",
           LogEvent(job[h].request, "executing", "started", job[h].user, "executing"),
           UNCHANGED <<filed, decided, plantActs>>,
           \/ Proceed(h, "call") /\ UNCHANGED job
           \/ Leave(h)
    PROVE  LedgerInv'
<1>1. WriteBackTypeOK /\ ReviewSound(h) /\ job[h] \in Job
  BY DEF LedgerInv, WriteBackTypeOK
<1>2. PICK r \in Writeback : r = job[h].request
  BY <1>1 DEF Job
<1>3. /\ state[r] = "approved" /\ state'[r] = "executing"
      /\ \A q \in Writeback \ {r} : state'[q] = state[q]
  BY <1>1, <1>2, RecordEffect
<1>4. /\ \A d \in RouteHandler \ {h} : stage'[d] = stage[d] /\ job'[d] = job[d]
      /\ stage'[h] \in {"idle", "call"}
      /\ stage'[h] = "call" => job'[h] = job[h]
  BY <1>1 DEF Proceed, Leave, WriteBackTypeOK
<1>5. /\ \A q \in Writeback : state[q] # "none" => state'[q] # "none"
      /\ \A q \in Writeback : state[q] = "executing" => state'[q] = "executing"
  BY <1>3
<1>6. ASSUME NEW g \in RouteHandler PROVE ReviewSound(g)'
  <2>1. CASE g = h
    BY <1>4, <2>1 DEF ReviewSound, Reviewing
  <2>2. CASE g # h
    BY <1>4, <1>5, <2>2, OtherReviews
  <2>3. QED
    BY <2>1, <2>2
<1>7. ASSUME NEW g \in RouteHandler PROVE RunSound(g)'
  <2>1. CASE g = h
    <3> SUFFICES ASSUME stage'[h] = "call"
                 PROVE  /\ state'[r] = "executing" /\ plantActs'[r] = 0
                        /\ \A d \in RouteHandler : d # h /\ stage'[d] \in {"call", "finish"} =>
                              job'[d].request # r
      BY <1>2, <1>4, <2>1 DEF RunSound
    <3>1. plantActs[r] = 0
      BY <1>3 DEF LedgerInv, RequestSound, Begun
    <3>2. ASSUME NEW d \in RouteHandler, d # h, stage[d] \in {"call", "finish"}
          PROVE  job[d].request # r
      BY <1>3, <3>2 DEF LedgerInv, RunSound
    <3>3. QED
      BY <1>3, <1>4, <3>1, <3>2
  <2>2. CASE g # h
    BY <1>2, <1>3, <1>4, <1>5, <2>2, OtherRuns
  <2>3. QED
    BY <2>1, <2>2
<1>8. ASSUME NEW q \in Writeback PROVE RequestSound(q)'
  BY <1>3 DEF LedgerInv, RequestSound, Having, Begun
<1>9. QED
  BY <1>6, <1>7, <1>8 DEF LedgerInv

LEMMA CallStep ==
    ASSUME LedgerInv, WriteBackTypeOK', NEW h \in RouteHandler, Call(h)
    PROVE  LedgerInv'
<1>1. WriteBackTypeOK /\ RunSound(h) /\ job[h] \in Job /\ stage[h] = "call"
  BY DEF LedgerInv, WriteBackTypeOK, Call
<1>2. PICK acted \in BOOLEAN, verdict \in {"succeeded", "failed"} :
          /\ plantActs' = IF acted THEN [plantActs EXCEPT ![job[h].request] = @ + 1] ELSE plantActs
          /\ job' = [job EXCEPT ![h].verdict = verdict]
  BY DEF Call
<1>3. PICK r \in Writeback : r = job[h].request
  BY <1>1 DEF Job
<1>4. job' = [job EXCEPT ![h] = [job[h] EXCEPT !.verdict = verdict]]
  BY <1>2
<1>5. /\ stage'[h] = "finish" /\ job'[h].request = r
      /\ \A d \in RouteHandler \ {h} : stage'[d] = stage[d] /\ job'[d] = job[d]
      /\ UNCHANGED tables
  <2>1. [job[h] EXCEPT !.verdict = verdict].request = r
    BY <1>1, <1>3 DEF Job
  <2>2. QED
    BY <1>1, <1>4, <2>1 DEF Call, Proceed, WriteBackTypeOK
<1>6. /\ plantActs[r] = 0 /\ plantActs'[r] \in {0, 1}
      /\ \A q \in Writeback \ {r} : plantActs'[q] = plantActs[q]
  BY <1>1, <1>2, <1>3 DEF RunSound, WriteBackTypeOK
<1>7. ASSUME NEW g \in RouteHandler PROVE ReviewSound(g)'
  <2>1. CASE g = h
    BY <1>5, <2>1 DEF ReviewSound, Reviewing
  <2>2. CASE g # h
    BY <1>5, <2>2, OtherReviews DEF tables
  <2>3. QED
    BY <2>1, <2>2
<1>8. ASSUME NEW g \in RouteHandler PROVE RunSound(g)'
  <2>1. CASE g = h
    BY <1>1, <1>3, <1>5, <2>1 DEF RunSound, tables
  <2>2. CASE g # h
    <3>1. /\ \A q \in Writeback : state[q] = "executing" => state'[q] = "executing"
          /\ \A q \in Writeback : plantActs'[q] = plantActs[q] \/ (stage[h] = "call" /\ q = job[h].request)
      BY <1>1, <1>3, <1>5, <1>6 DEF tables
    <3>2. QED
      BY <1>1, <1>3, <1>5, <2>2, <3>1, OtherRuns
  <2>3. QED
    BY <2>1, <2>2
<1>9. ASSUME NEW q \in Writeback PROVE RequestSound(q)'
  <2>1. state[r] = "executing"
    BY <1>1, <1>3 DEF RunSound
  <2>2. QED
    BY <1>5, <1>6, <2>1 DEF LedgerInv, RequestSound, Having, tables, Begun
<1>10. QED
  BY <1>7, <1>8, <1>9 DEF LedgerInv

LEMMA FinishStep ==
    ASSUME LedgerInv, WriteBackTypeOK', NEW h \in RouteHandler, Finish(h)
    PROVE  LedgerInv'
<1>1. /\ WriteBackTypeOK /\ job[h] \in Job /\ stage[h] = "finish" /\ RunSound(h)
      /\ job[h].verdict \in {"succeeded", "failed"}
  BY DEF LedgerInv, WriteBackTypeOK, Finish
<1>2. PICK r \in Writeback : r = job[h].request
  BY <1>1 DEF Job
<1>3. /\ LogEvent(r, job[h].verdict, "ended", job[h].user, job[h].verdict)
      /\ Leave(h) /\ UNCHANGED <<filed, decided, plantActs>>
  BY <1>1, <1>2 DEF Finish, RunSound
<1>4. /\ state[r] = "executing" /\ state'[r] \in {"succeeded", "failed"}
      /\ \A q \in Writeback \ {r} : state'[q] = state[q]
  BY <1>1, <1>2, <1>3, RecordEffect DEF RunSound
<1>5. /\ stage'[h] = "idle"
      /\ \A d \in RouteHandler \ {h} : stage'[d] = stage[d] /\ job'[d] = job[d]
  BY <1>1, <1>3 DEF Leave, WriteBackTypeOK
<1>6. ASSUME NEW g \in RouteHandler PROVE ReviewSound(g)'
  <2>1. CASE g = h
    BY <1>5, <2>1 DEF ReviewSound, Reviewing
  <2>2. CASE g # h
    <3>1. \A q \in Writeback : state[q] # "none" => state'[q] # "none"
      BY <1>4
    <3>2. QED
      BY <1>3, <1>5, <2>2, <3>1, OtherReviews
  <2>3. QED
    BY <2>1, <2>2
<1>7. ASSUME NEW g \in RouteHandler PROVE RunSound(g)'
  <2>1. CASE g = h
    BY <1>5, <2>1 DEF RunSound
  <2>2. CASE g # h
    BY <1>1, <1>2, <1>3, <1>4, <1>5, <2>2, OtherRuns
  <2>3. QED
    BY <2>1, <2>2
<1>8. ASSUME NEW q \in Writeback PROVE RequestSound(q)'
  BY <1>3, <1>4 DEF LedgerInv, RequestSound, Having, Begun
<1>9. QED
  BY <1>6, <1>7, <1>8 DEF LedgerInv

LEMMA CreateStep ==
    ASSUME LedgerInv, WriteBackTypeOK', NEW r \in Writeback, Create(r)
    PROVE  LedgerInv'
<1>1. /\ WriteBackTypeOK /\ state[r] = "none" /\ state'[r] \in {"pending_approval", "cancelled"}
      /\ \A q \in Writeback \ {r} : state'[q] = state[q]
      /\ UNCHANGED <<filed, decided, plantActs, stage, job>>
  BY RecordEffect DEF LedgerInv, Create
<1>2. ASSUME NEW g \in RouteHandler PROVE ReviewSound(g)'
  <2>1. ReviewSound(g) /\ (Contended(g)' <=> Contended(g)) /\ (Sound(job[g])' <=> Sound(job[g]))
    BY <1>1 DEF LedgerInv, Contended, Sound, Having, Enough
  <2>2. stage[g] \in Reviewing => job[g].request \in Writeback
    BY <1>1 DEF WriteBackTypeOK, Reviewing, Job
  <2>3. QED
    BY <1>1, <2>1, <2>2 DEF ReviewSound
<1>3. ASSUME NEW g \in RouteHandler PROVE RunSound(g)'
  <2>1. RunSound(g) /\ (stage[g] \in {"call", "finish"} => job[g].request \in Writeback)
    BY <1>1 DEF LedgerInv, WriteBackTypeOK, Job
  <2>2. QED
    BY <1>1, <2>1 DEF RunSound
<1>4. ASSUME NEW q \in Writeback PROVE RequestSound(q)'
  BY <1>1 DEF LedgerInv, RequestSound, Having, Begun
<1>5. QED
  BY <1>2, <1>3, <1>4 DEF LedgerInv

LEMMA LedgerInvariant == WriteBackSpec => []LedgerInv
<1>1. WriteBackInit => LedgerInv
  <2> SUFFICES ASSUME WriteBackInit PROVE LedgerInv
    OBVIOUS
  <2>1. WriteBackTypeOK
    BY WriteBackAssumption DEF WriteBackInit, WriteBackTypeOK, State, Stage, Reviewing
  <2>2. QED
    BY <2>1 DEF WriteBackInit, LedgerInv, ReviewSound, RunSound, RequestSound, Reviewing, Having
<1>2. LedgerInv /\ WriteBackTypeOK' /\ [WriteBackNext]_writeBackVars => LedgerInv'
  <2> SUFFICES ASSUME LedgerInv, WriteBackTypeOK', [WriteBackNext]_writeBackVars PROVE LedgerInv'
    OBVIOUS
  <2>0. WriteBackTypeOK
    BY DEF LedgerInv
  <2>1. ASSUME NEW h \in RouteHandler, StartExecution(h) PROVE LedgerInv'
    <3>1. /\ stage'[h] \in {"begin", "probe"} /\ UNCHANGED <<tables, plantActs>>
          /\ \A d \in RouteHandler \ {h} : stage'[d] = stage[d] /\ job'[d] = job[d]
      BY <2>0, <2>1 DEF StartExecution, Take, Proceed, WriteBackTypeOK
    <3>2. ReviewSound(h)'
      BY <3>1 DEF ReviewSound, Reviewing
    <3>3. QED
      BY <3>1, <3>2, SilentStep
  <2>2. ASSUME NEW h \in RouteHandler, RecordUnavailable(h) PROVE LedgerInv'
    <3>1. state' = state
      <4>1. job[h].request \in Writeback
        BY <2>0, <2>2 DEF RecordUnavailable, WriteBackTypeOK, Job
      <4>2. state \in [Writeback -> State]
        BY <2>0 DEF WriteBackTypeOK
      <4>3. QED
        BY <2>2, <4>1, <4>2 DEF RecordUnavailable, LogEvent, Decline, tables
    <3>2. Leave(h) /\ UNCHANGED <<filed, decided, plantActs>>
      BY <2>2 DEF RecordUnavailable, Decline, tables
    <3>3. /\ stage'[h] = "idle"
          /\ \A d \in RouteHandler \ {h} : stage'[d] = stage[d] /\ job'[d] = job[d]
      BY <2>0, <3>2 DEF Leave, WriteBackTypeOK
    <3>4. ASSUME NEW g \in RouteHandler PROVE ReviewSound(g)' /\ RunSound(g)'
      <4>1. CASE g = h
        BY <3>3, <4>1 DEF ReviewSound, RunSound, Reviewing
      <4>2. CASE g # h
        BY <3>1, <3>2, <3>3, <4>2, OtherReviews, OtherRuns
      <4>3. QED
        BY <4>1, <4>2
    <3>5. ASSUME NEW q \in Writeback PROVE RequestSound(q)'
      BY <3>1, <3>2 DEF LedgerInv, RequestSound, Having
    <3>6. QED
      BY <3>4, <3>5 DEF LedgerInv
  <2>3. ASSUME NEW h \in RouteHandler, BeginExecution(h) PROVE LedgerInv'
    <3>1. CASE Decline(h)
      BY <3>1, RefuseSound DEF Decline
    <3>2. CASE ~Decline(h)
      BY <2>3, <3>2, BeginStep DEF BeginExecution
    <3>3. QED
      BY <3>1, <3>2
  <2>4. ASSUME NEW h \in RouteHandler, BeginUnheard(h) PROVE LedgerInv'
    BY <2>4, BeginStep DEF BeginUnheard
  <2>5. ASSUME NEW h \in RouteHandler, Fail(h) PROVE LedgerInv'
    BY <2>5, RefuseSound DEF Fail
  <2>6. CASE UNCHANGED writeBackVars
    <3>1. ASSUME NEW g \in RouteHandler PROVE ReviewSound(g)' /\ RunSound(g)'
      BY <2>6 DEF LedgerInv, writeBackVars, tables, ReviewSound, RunSound, Contended, Sound, Having, Enough
    <3>2. ASSUME NEW q \in Writeback PROVE RequestSound(q)'
      BY <2>6 DEF LedgerInv, writeBackVars, tables, RequestSound, Having
    <3>3. QED
      BY <3>1, <3>2 DEF LedgerInv
  <2>7. QED
    BY <2>1, <2>2, <2>3, <2>4, <2>5, <2>6, ReviewSteps, CallStep, FinishStep, CreateStep
       DEF WriteBackNext, Execution
<1>3. QED
  BY <1>1, <1>2, TypeCorrect, PTL DEF WriteBackSpec
-----------------------------------------------------------------------------
(* The ledger of DualControl.                                              *)

Outcomes == [r \in Writeback |-> Outcome(r)]

LEMMA OutcomeEffect ==
    ASSUME NEW r \in Writeback, \A q \in Writeback \ {r} : state'[q] = state[q]
    PROVE  Outcomes' = [Outcomes EXCEPT ![r] = Outcome(r)']
BY DEF Outcomes, Outcome, Begun

LEMMA SettleRefines ==
    ASSUME LedgerInv, NEW h \in RouteHandler, Settle(h)
    PROVE  \E r \in Writeback, u \in Person : Ledger!Approve(r, u) \/ Ledger!Reject(r, u)
<1>1. /\ WriteBackTypeOK /\ stage[h] = "settle" /\ ReviewSound(h) /\ job[h] \in Job
      /\ job[h].verdict \in Decision /\ Sound(job[h])
  BY DEF LedgerInv, WriteBackTypeOK, Settle, Reviewing, ReviewSound
<1>2. PICK r \in Writeback, u \in Person : r = job[h].request /\ u = job[h].user
  BY <1>1 DEF Job
<1>3. /\ state[r] # "none" /\ u # filed[r].by /\ decided[r][u] = "none"
      /\ decided' = [decided EXCEPT ![r][u] = job[h].verdict]
      /\ UNCHANGED <<filed, plantActs>>
  BY <1>1, <1>2 DEF ReviewSound, Reviewing, Settle
<1>4. /\ state'[r] = Settled(job[h])
      /\ \A q \in Writeback \ {r} : state'[q] = state[q]
  BY <1>1, <1>2, RecordEffect DEF Settle
<1>5. /\ Outcomes' = [Outcomes EXCEPT ![r] = Outcome(r)']
      /\ Outcomes[r] = Outcome(r) /\ Outcome(r) # "none"
      /\ Outcome(r) = "open" <=> state[r] = "pending_approval"
  <2>1. Outcomes' = [Outcomes EXCEPT ![r] = Outcome(r)']
    BY <1>4, OutcomeEffect
  <2>2. state[r] \in State
    BY <1>1 DEF WriteBackTypeOK
  <2>3. QED
    BY <1>3, <2>1, <2>2 DEF Outcomes, Outcome, State, Begun
<1>6. state[r] # "pending_approval" => Outcome(r)' = Outcome(r)
  BY <1>2, <1>4 DEF Outcome, Settled
<1>7. state[r] = "pending_approval" => state'[r] = job[h].next
  BY <1>2, <1>4 DEF Settled
<1>8. CASE job[h].verdict = "rejected"
  <2>1. state[r] = "pending_approval" => Outcome(r)' = "cancelled"
    BY <1>1, <1>7, <1>8 DEF Sound, Outcome, Begun
  <2>2. Outcomes' = IF Outcomes[r] = "open" THEN [Outcomes EXCEPT ![r] = "cancelled"] ELSE Outcomes
    BY <1>5, <1>6, <2>1 DEF Outcomes
  <2>3. Ledger!Reject(r, u)
    BY <1>3, <1>5, <1>8, <2>2 DEF Ledger!Reject, Outcomes
  <2>4. QED
    BY <2>3
<1>9. CASE job[h].verdict = "approved"
  <2>1. CASE state[r] = "pending_approval" /\ job[h].next = "approved"
    <3>1. Outcomes' = [Outcomes EXCEPT ![r] = "approved"]
      BY <1>5, <1>7, <2>1 DEF Outcome, Begun
    <3>2. Having(r, "rejected") = {} /\ Enough(r, Having(r, "approved") \cup {u})
      BY <1>1, <1>2, <2>1 DEF LedgerInv, RequestSound, Sound
    <3>3. Ledger!Having(r, "rejected") = {}
      BY <3>2 DEF Ledger!Having, Having
    <3>4. Ledger!Cardinality(Ledger!Having(r, "approved") \cup {u}) >= Required[filed[r].risk]
      BY <3>2 DEF Ledger!Having, Having, Enough, Ledger!Cardinality, Cardinality
    <3>5. /\ Outcomes[r] # "none" /\ Outcomes[r] = "open"
          /\ u # filed[r].by /\ decided[r][u] = "none"
          /\ decided' = [decided EXCEPT ![r][u] = "approved"]
          /\ UNCHANGED <<filed, plantActs>>
      BY <1>3, <1>5, <1>9, <2>1
    <3>6. Ledger!Approve(r, u)
      <4> HIDE DEF Outcomes
      <4>1. QED
        BY <3>1, <3>3, <3>4, <3>5 DEF Ledger!Approve, Outcomes
    <3>7. QED
      BY <3>6
  <2>2. CASE ~(state[r] = "pending_approval" /\ job[h].next = "approved")
    <3>1. Outcome(r)' = Outcome(r)
      <4>1. CASE state[r] # "pending_approval"
        BY <1>6, <4>1
      <4>2. CASE state[r] = "pending_approval"
        <5>1. Having(r, "rejected") = {}
          BY <4>2 DEF LedgerInv, RequestSound
        <5>2. job[h].next = "pending_approval"
          BY <1>1, <1>2, <1>9, <2>2, <4>2, <5>1 DEF Sound
        <5>3. QED
          BY <1>7, <4>2, <5>2 DEF Outcome
      <4>3. QED
        BY <4>1, <4>2
    <3>2. Outcomes' = Outcomes
      BY <1>5, <3>1 DEF Outcomes
    <3>3. Ledger!Approve(r, u)
      BY <1>3, <1>5, <1>9, <3>2 DEF Ledger!Approve, Outcomes
    <3>4. QED
      BY <3>3
  <2>3. QED
    BY <2>1, <2>2
<1>10. QED
  BY <1>1, <1>8, <1>9 DEF Decision

LEMMA BeginRefines ==
    ASSUME LedgerInv, NEW h \in RouteHandler, stage[h] = "begin", state[job[h].request] = "approved",
           LogEvent(job[h].request, "executing", "started", job[h].user, "executing"),
           UNCHANGED <<filed, decided, plantActs>>
    PROVE  \E r \in Writeback : Ledger!Begin(r)
<1>1. PICK r \in Writeback : r = job[h].request
  BY DEF LedgerInv, WriteBackTypeOK, Job
<1>2. /\ state[r] = "approved" /\ state'[r] = "executing"
      /\ \A q \in Writeback \ {r} : state'[q] = state[q]
  BY <1>1, RecordEffect DEF LedgerInv
<1>3. Outcomes' = [Outcomes EXCEPT ![r] = "begun"] /\ Outcomes[r] = "approved"
  BY <1>2, OutcomeEffect DEF Outcomes, Outcome, Begun
<1>4. Ledger!Begin(r)
  BY <1>3 DEF Ledger!Begin, Outcomes
<1>5. QED
  BY <1>4

(* Statement by statement, the handlers keep to the ledger of DualControl: *)
(* four eyes, one review per person, enough approvals and no rejection     *)
(* before a request is approved, and at most one act on the plant.         *)
THEOREM Refinement == WriteBackSpec => ImplementsDualControl
<1>1. WriteBackInit => Ledger!Init
  <2> SUFFICES ASSUME WriteBackInit PROVE Ledger!Init
    OBVIOUS
  <2>1. \A r \in Writeback : Outcome(r) = "none"
    BY DEF WriteBackInit, Outcome, Begun
  <2>2. QED
    BY <2>1 DEF WriteBackInit, Ledger!Init
<1>2. LedgerInv /\ WriteBackTypeOK' /\ [WriteBackNext]_writeBackVars => [Ledger!Next]_(Ledger!vars)
  <2> SUFFICES ASSUME LedgerInv, WriteBackTypeOK', [WriteBackNext]_writeBackVars
               PROVE  Ledger!Next \/ UNCHANGED <<filed, decided, Outcomes, plantActs>>
    BY DEF Ledger!vars, Outcomes
  <2>0. WriteBackTypeOK
    BY DEF LedgerInv
  <2>1. CASE UNCHANGED <<filed, state, decided, plantActs>>
    BY <2>1 DEF Outcomes, Outcome
  <2>2. ASSUME NEW r \in Writeback, Create(r) PROVE Ledger!Next
    <3>1. /\ state[r] = "none" /\ state'[r] \in {"pending_approval", "cancelled"}
          /\ \A q \in Writeback \ {r} : state'[q] = state[q]
          /\ UNCHANGED <<filed, decided, plantActs>>
      BY <2>0, <2>2, RecordEffect DEF Create
    <3>2. Outcomes[r] = "none" /\ \E o \in {"open", "cancelled"} : Outcomes' = [Outcomes EXCEPT ![r] = o]
      BY <3>1, OutcomeEffect DEF Outcomes, Outcome, Begun
    <3>3. Ledger!File(r)
      BY <3>1, <3>2 DEF Ledger!File, Outcomes
    <3>4. QED
      BY <3>3 DEF Ledger!Next
  <2>3. ASSUME NEW h \in RouteHandler, Settle(h) PROVE Ledger!Next
    BY <2>3, SettleRefines DEF Ledger!Next
  <2>4. ASSUME NEW h \in RouteHandler, RecordUnavailable(h) PROVE UNCHANGED <<filed, state, decided, plantActs>>
    <3>1. job[h].request \in Writeback /\ state \in [Writeback -> State]
      BY <2>0, <2>4 DEF RecordUnavailable, WriteBackTypeOK, Job
    <3>2. QED
      BY <2>4, <3>1 DEF RecordUnavailable, LogEvent, Decline, tables
  <2>5. ASSUME NEW h \in RouteHandler, BeginExecution(h), ~Decline(h) PROVE Ledger!Next
    BY <2>5, BeginRefines DEF BeginExecution, Ledger!Next
  <2>6. ASSUME NEW h \in RouteHandler, BeginUnheard(h) PROVE Ledger!Next
    BY <2>6, BeginRefines DEF BeginUnheard, Ledger!Next
  <2>7. ASSUME NEW h \in RouteHandler, Call(h), plantActs' # plantActs PROVE Ledger!Next
    <3>1. PICK r \in Writeback : r = job[h].request
      BY <2>0, <2>7 DEF Call, WriteBackTypeOK, Job
    <3>2. plantActs' = [plantActs EXCEPT ![r] = @ + 1] /\ UNCHANGED tables
      BY <2>7, <3>1 DEF Call
    <3>3. plantActs[r] = 0 /\ state[r] = "executing"
      BY <2>7, <3>1 DEF LedgerInv, RunSound, Call
    <3>4. plantActs' = [plantActs EXCEPT ![r] = 1]
      BY <2>0, <3>2, <3>3 DEF WriteBackTypeOK
    <3>5. Outcomes[r] = "begun" /\ UNCHANGED <<filed, decided, Outcomes>>
      BY <3>2, <3>3 DEF tables, Outcomes, Outcome, Begun
    <3>6. Ledger!Act(r)
      BY <3>3, <3>4, <3>5 DEF Ledger!Act, Outcomes
    <3>7. QED
      BY <3>6 DEF Ledger!Next
  <2>8. ASSUME NEW h \in RouteHandler, Finish(h), ~Decline(h) PROVE UNCHANGED <<filed, decided, Outcomes, plantActs>>
    <3>1. job[h].request \in Writeback /\ job[h].verdict \in {"succeeded", "failed"}
      BY <2>0, <2>8 DEF Finish, WriteBackTypeOK, Job
    <3>2. PICK r \in Writeback : r = job[h].request
      BY <3>1
    <3>3. /\ state[r] = "executing" /\ state'[r] \in {"succeeded", "failed"}
          /\ \A q \in Writeback \ {r} : state'[q] = state[q]
          /\ UNCHANGED <<filed, decided, plantActs>>
      BY <2>0, <2>8, <3>1, <3>2, RecordEffect DEF Finish
    <3>4. QED
      BY <3>3 DEF Outcomes, Outcome, Begun
  <2>9. QED
    BY <2>1, <2>2, <2>3, <2>4, <2>5, <2>6, <2>7, <2>8
       DEF WriteBackNext, Review, Execution, StartReview, StartExecution, Take, CheckPending, Insert, Count,
           BeginExecution, Call, Finish, Fail, Decline, writeBackVars, tables
<1>3. QED
  BY LedgerInvariant, TypeCorrect, <1>1, <1>2, PTL DEF WriteBackSpec, Ledger!Spec, ImplementsDualControl
-----------------------------------------------------------------------------
(* The trail.                                                              *)

Trail(r) == Opening(r) /\ Settling(r) /\ Running(r) /\ Reviewed(r)

(* A request under review was filed, and not blocked. *)
Filed(h) ==
    stage[h] \in Reviewing =>
        logged[job[h].request] # <<>> /\ logged[job[h].request][1].type = "created"

TrailInv ==
    /\ \A r \in Writeback : Trail(r)
    /\ \A h \in RouteHandler : Filed(h)

(* One more event of a request: the old ones stay where they are. *)
LEMMA AppendEffect ==
    ASSUME WriteBackTypeOK, NEW r \in Writeback, NEW x, logged'[r] = Append(logged[r], x)
    PROVE  LET n == Len(logged[r]) + 1 IN
           /\ n \in Nat /\ n >= 1 /\ Len(logged'[r]) = n
           /\ DOMAIN logged[r] = 1 .. (n - 1) /\ DOMAIN logged'[r] = 1 .. n
           /\ logged'[r] # <<>> /\ logged'[r][n] = x
           /\ \A i \in 1 .. (n - 1) : logged'[r][i] = logged[r][i]
           /\ \A T : Where(r, T) \subseteq 1 .. (n - 1)
           /\ logged[r] = <<>> <=> n = 1
<1>1. logged[r] \in Seq(Event)
  BY DEF WriteBackTypeOK
<1>2. QED
  BY <1>1 DEF Where

LEMMA WhereEffect ==
    ASSUME WriteBackTypeOK, NEW r \in Writeback, NEW x, logged'[r] = Append(logged[r], x), NEW T
    PROVE  LET n == Len(logged[r]) + 1 IN
           Where(r, T)' = Where(r, T) \cup (IF x.type \in T THEN {n} ELSE {})
<1> DEFINE n == Len(logged[r]) + 1
<1>1. /\ n \in Nat /\ n >= 1 /\ logged'[r][n] = x
      /\ DOMAIN logged[r] = 1 .. (n - 1) /\ DOMAIN logged'[r] = 1 .. n
      /\ \A i \in 1 .. (n - 1) : logged'[r][i] = logged[r][i]
  BY AppendEffect
<1> HIDE DEF n
<1>2. Where(r, T)' = {i \in 1 .. n : logged'[r][i].type \in T}
  BY <1>1 DEF Where
<1>3. Where(r, T) = {i \in 1 .. (n - 1) : logged[r][i].type \in T}
  BY <1>1 DEF Where
<1>4. 1 .. n = 1 .. (n - 1) \cup {n}
  BY <1>1
<1>5. QED
  BY <1>1, <1>2, <1>3, <1>4 DEF n

LEMMA DecisiveEffect ==
    ASSUME WriteBackTypeOK, NEW r \in Writeback, NEW x, logged'[r] = Append(logged[r], x)
    PROVE  LET n == Len(logged[r]) + 1 IN
           Decisive(r)' = Decisive(r) \cup
               (IF x.type \in Decision /\ x.to # "pending_approval" THEN {n} ELSE {})
<1> DEFINE n == Len(logged[r]) + 1
<1>0. /\ n \in Nat /\ logged'[r][n] = x
      /\ \A i \in 1 .. (n - 1) : logged'[r][i] = logged[r][i]
      /\ \A T : Where(r, T) \subseteq 1 .. (n - 1)
  BY AppendEffect
<1>2. Where(r, Decision)' = Where(r, Decision) \cup (IF x.type \in Decision THEN {n} ELSE {})
  BY WhereEffect
<1> HIDE DEF n
<1>1. n \notin 1 .. (n - 1)
  BY <1>0
<1>4. Where(r, Decision) \subseteq 1 .. (n - 1)
  BY <1>0
<1>3. Decisive(r)' = {i \in Where(r, Decision)' : logged'[r][i].to # "pending_approval"}
  BY DEF Decisive
<1>5. QED
  BY <1>0, <1>1, <1>2, <1>4, <1>3 DEF Decisive, n

(* What is not written is not disturbed. *)
LEMMA OtherTrails ==
    ASSUME NEW r \in Writeback, Trail(r),
           state'[r] = state[r], logged'[r] = logged[r], decided'[r] = decided[r]
    PROVE  Trail(r)'
<1>1. \A T : Where(r, T)' = Where(r, T)
  BY DEF Where
<1>2. Decisive(r)' = Decisive(r)
  BY <1>1 DEF Decisive
<1>3. QED
  BY <1>1, <1>2 DEF Trail, Opening, Settling, Running, Reviewed

LEMMA OtherFiled ==
    ASSUME LedgerInv, NEW h \in RouteHandler, Filed(h), stage'[h] = stage[h], job'[h] = job[h],
           \A r \in Writeback : \/ logged'[r] = logged[r]
                             \/ \E x : logged'[r] = Append(logged[r], x)
    PROVE  Filed(h)'
<1> SUFFICES ASSUME stage[h] \in Reviewing
             PROVE  logged'[job[h].request] # <<>> /\ logged'[job[h].request][1].type = "created"
  BY DEF Filed
<1>1. PICK r \in Writeback : r = job[h].request
  BY DEF LedgerInv, WriteBackTypeOK, Reviewing, Job
<1>2. logged[r] # <<>> /\ logged[r][1].type = "created" /\ WriteBackTypeOK
  BY <1>1 DEF Filed, LedgerInv
<1>3. CASE logged'[r] = logged[r]
  BY <1>1, <1>2, <1>3
<1>4. ASSUME NEW x, logged'[r] = Append(logged[r], x)
      PROVE  logged'[r] # <<>> /\ logged'[r][1].type = "created"
  <2>1. 1 \in 1 .. (Len(logged[r]) + 1 - 1)
    BY <1>2, <1>4, AppendEffect
  <2>2. QED
    BY <1>2, <1>4, <2>1, AppendEffect
<1>5. QED
  BY <1>1, <1>3, <1>4

(* Every step that writes does so to one request; its trail is what has to *)
(* be looked at.                                                           *)
LEMMA OneTrail ==
    ASSUME LedgerInv, TrailInv, NEW r \in Writeback, Trail(r)',
           \A q \in Writeback \ {r} : /\ state'[q] = state[q] /\ logged'[q] = logged[q]
                                   /\ decided'[q] = decided[q],
           \E x : logged'[r] = Append(logged[r], x),
           \A h \in RouteHandler : stage'[h] \in Reviewing => stage'[h] = stage[h] /\ job'[h] = job[h]
    PROVE  TrailInv'
<1>1. ASSUME NEW q \in Writeback PROVE Trail(q)'
  <2>1. CASE q # r
    BY <2>1, OtherTrails DEF TrailInv
  <2>2. QED
    BY <2>1
<1>2. ASSUME NEW h \in RouteHandler PROVE Filed(h)'
  <2>1. CASE stage'[h] \in Reviewing
    BY <2>1, OtherFiled DEF TrailInv
  <2>2. CASE stage'[h] \notin Reviewing
    BY <2>2 DEF Filed
  <2>3. QED
    BY <2>1, <2>2
<1>3. QED
  BY <1>1, <1>2 DEF TrailInv

LEMMA CreateTrail ==
    ASSUME LedgerInv, TrailInv, NEW r \in Writeback, Create(r)
    PROVE  TrailInv'
<1>1. PICK s \in {"pending_approval", "cancelled"}, type \in {"created", "blocked"} :
          /\ LogEvent(r, s, type, filed[r].by, s)
          /\ s = "pending_approval" <=> type = "created"
  BY DEF Create
<1> DEFINE x == [type |-> type, by |-> filed[r].by, to |-> s]
<1>2. /\ WriteBackTypeOK /\ Trail(r) /\ RequestSound(r) /\ state[r] = "none" /\ logged[r] = <<>>
      /\ UNCHANGED <<filed, decided, plantActs, stage, job>>
  BY DEF LedgerInv, TrailInv, Create, Trail, Opening
<1>3. /\ state'[r] = s /\ logged'[r] = Append(logged[r], x)
      /\ \A q \in Writeback \ {r} : state'[q] = state[q] /\ logged'[q] = logged[q]
  BY <1>1, <1>2, RecordEffect
<1>4. x.type = type /\ x.type \notin Decision \cup {"started", "ended"} /\ x.to = s
  BY DEF Decision
<1> HIDE DEF x
<1>5. \A T : Where(r, T) = {}
  BY <1>2 DEF Where
<1>6. Decisive(r)' = {} /\ \A T \in {Decision, {"started"}, {"ended"}} : Where(r, T)' = {}
  <2>1. Decisive(r) = {}
    BY <1>5 DEF Decisive
  <2>2. Decisive(r)' = {}
    BY <1>2, <1>3, <1>4, <2>1, DecisiveEffect
  <2>3. ASSUME NEW T \in {Decision, {"started"}, {"ended"}} PROVE Where(r, T)' = {}
    <3>1. x.type \notin T /\ Where(r, T) = {}
      BY <1>4, <1>5
    <3>2. Where(r, T)' = Where(r, T) \cup
              (IF x.type \in T THEN {Len(logged[r]) + 1} ELSE {})
      BY <1>2, <1>3, WhereEffect
    <3>3. QED
      BY <3>1, <3>2
  <2>4. QED
    BY <2>2, <2>3
<1>7. logged'[r] # <<>> /\ Len(logged'[r]) = 1 /\ logged'[r][1].type = type
  BY <1>2, <1>3, <1>4, AppendEffect
<1>8. Opening(r)'
  BY <1>1, <1>3, <1>6, <1>7 DEF Opening
<1>9. Settling(r)' /\ Running(r)'
  BY <1>3, <1>6 DEF Settling, Running, Begun
<1>10. Reviewed(r)'
  BY <1>2, <1>6 DEF Reviewed, RequestSound
<1>11. QED
  BY <1>2, <1>3, <1>8, <1>9, <1>10, OneTrail DEF Trail

(* A probe, a start or an end: an event that reviews nothing, of a request *)
(* that was approved.                                                      *)
LEMMA ExecutionTrail ==
    ASSUME LedgerInv, TrailInv, NEW r \in Writeback, NEW s, NEW u, NEW to,
           NEW type \in {"unavailable", "started", "ended"}, LogEvent(r, s, type, u, to),
           state[r] \in {"approved"} \cup Begun, s \in {"approved"} \cup Begun,
           UNCHANGED <<filed, decided>>
    PROVE  /\ Opening(r)' /\ Settling(r)' /\ Reviewed(r)'
           /\ Where(r, {"started"})' =
                 Where(r, {"started"}) \cup (IF type = "started" THEN {Len(logged[r]) + 1} ELSE {})
           /\ Where(r, {"ended"})' =
                 Where(r, {"ended"}) \cup (IF type = "ended" THEN {Len(logged[r]) + 1} ELSE {})
<1> DEFINE x == [type |-> type, by |-> u, to |-> to]
           n == Len(logged[r]) + 1
<1>1. WriteBackTypeOK /\ Trail(r)
  BY DEF LedgerInv, TrailInv
<1>2. state'[r] = s /\ logged'[r] = Append(logged[r], x)
  BY <1>1, RecordEffect
<1>3. x.type = type
  OBVIOUS
<1> HIDE DEF x
<1>4. /\ n \in Nat /\ n >= 1 /\ Len(logged'[r]) = n /\ logged'[r] # <<>>
      /\ \A i \in 1 .. (n - 1) : logged'[r][i] = logged[r][i]
      /\ \A T : Where(r, T) \subseteq 1 .. (n - 1)
      /\ logged[r] = <<>> <=> n = 1
  BY <1>1, <1>2, AppendEffect
<1>5. /\ Decisive(r)' = Decisive(r) /\ Where(r, Decision)' = Where(r, Decision)
      /\ Decisive(r) \subseteq Where(r, Decision)
  <2>1. x.type \notin Decision
    BY <1>3 DEF Decision
  <2>2. Decisive(r)' = Decisive(r)
    BY <1>1, <1>2, <2>1, DecisiveEffect
  <2>3. Where(r, Decision)' = Where(r, Decision)
    <3>1. Where(r, Decision)' = Where(r, Decision) \cup
              (IF x.type \in Decision THEN {Len(logged[r]) + 1} ELSE {})
      BY <1>1, <1>2, WhereEffect
    <3>2. QED
      BY <2>1, <3>1
  <2>4. QED
    BY <2>2, <2>3 DEF Decisive
<1>6. Where(r, {"started"})' = Where(r, {"started"}) \cup (IF type = "started" THEN {n} ELSE {})
  BY <1>1, <1>2, <1>3, WhereEffect
<1>7. Where(r, {"ended"})' = Where(r, {"ended"}) \cup (IF type = "ended" THEN {n} ELSE {})
  BY <1>1, <1>2, <1>3, WhereEffect
<1> HIDE DEF n
<1>8. Opening(r)'
  <2>1. /\ state[r] # "none" /\ state[r] # "cancelled" /\ state[r] # "pending_approval"
        /\ s # "none" /\ s # "pending_approval"
    BY DEF Begun
  <2>2. logged[r] # <<>> /\ logged[r][1].type = "created" /\ Decisive(r) # {}
    BY <1>1, <2>1 DEF Trail, Opening
  <2>3. logged'[r][1].type = "created"
    <3>1. 1 \in 1 .. (n - 1)
      BY <1>4, <2>2
    <3>2. QED
      BY <1>4, <2>2, <3>1
  <2>4. QED
    BY <1>2, <1>4, <1>5, <2>1, <2>2, <2>3 DEF Opening
<1>9. Settling(r)'
  <2>1. \A i \in Decisive(r) : logged'[r][i] = logged[r][i]
    BY <1>4, <1>5
  <2>2. (IF state'[r] \in Begun THEN "approved" ELSE state'[r])
            = (IF state[r] \in Begun THEN "approved" ELSE state[r])
    BY <1>2
  <2>3. QED
    BY <1>1, <1>5, <2>1, <2>2 DEF Settling, Trail
<1>10. Reviewed(r)'
  <2>1. \A i \in Where(r, Decision) : logged'[r][i] = logged[r][i]
    BY <1>4
  <2>2. QED
    BY <1>1, <1>5, <2>1 DEF Reviewed, Trail
<1>11. QED
  BY <1>6, <1>7, <1>8, <1>9, <1>10 DEF n

(* A handler that only begins, ends or probes has nothing left in review. *)
LEMMA ExecutorLeaves ==
    ASSUME LedgerInv, NEW h \in RouteHandler, Leave(h) \/ (Proceed(h, "call") /\ UNCHANGED job)
    PROVE  \A g \in RouteHandler : stage'[g] \in Reviewing => stage'[g] = stage[g] /\ job'[g] = job[g]
BY DEF LedgerInv, WriteBackTypeOK, Leave, Proceed, Reviewing

LEMMA ProbeTrail ==
    ASSUME LedgerInv, TrailInv, NEW h \in RouteHandler, RecordUnavailable(h), ~Decline(h)
    PROVE  TrailInv'
<1>1. WriteBackTypeOK /\ job[h].request \in Writeback
  BY DEF LedgerInv, WriteBackTypeOK, RecordUnavailable, Job
<1>2. PICK r \in Writeback : r = job[h].request
  BY <1>1
<1>3. /\ state[r] = "approved" /\ LogEvent(r, state[r], "unavailable", job[h].user, state[r])
      /\ Leave(h) /\ UNCHANGED <<filed, decided>>
  BY <1>2 DEF RecordUnavailable
<1>4. /\ state'[r] = state[r] /\ \E x : logged'[r] = Append(logged[r], x)
      /\ \A q \in Writeback \ {r} : state'[q] = state[q] /\ logged'[q] = logged[q]
  BY <1>1, <1>3, RecordEffect
<1>5. /\ Opening(r)' /\ Settling(r)' /\ Reviewed(r)'
      /\ Where(r, {"started"})' = Where(r, {"started"})
      /\ Where(r, {"ended"})' = Where(r, {"ended"})
  BY <1>3, ExecutionTrail
<1>6. Running(r)'
  <2>1. Where(r, {"started"}) = {} /\ Where(r, {"ended"}) = {}
    BY <1>3 DEF TrailInv, Trail, Running, Begun
  <2>2. QED
    BY <1>3, <1>4, <1>5, <2>1 DEF Running, Begun
<1>7. QED
  BY <1>3, <1>4, <1>5, <1>6, ExecutorLeaves, OneTrail DEF Trail

LEMMA BeginTrail ==
    ASSUME LedgerInv, TrailInv, NEW h \in RouteHandler,
           stage[h] = "begin", state[job[h].request] = "approved",
           LogEvent(job[h].request, "executing", "started", job[h].user, "executing"),
           UNCHANGED <<filed, decided>>,
           Leave(h) \/ (Proceed(h, "call") /\ UNCHANGED job)
    PROVE  TrailInv'
<1>1. WriteBackTypeOK /\ job[h].request \in Writeback
  BY DEF LedgerInv, WriteBackTypeOK, Job
<1>2. PICK r \in Writeback : r = job[h].request
  BY <1>1
<1>3. /\ state'[r] = "executing" /\ \E x : logged'[r] = Append(logged[r], x)
      /\ \A q \in Writeback \ {r} : state'[q] = state[q] /\ logged'[q] = logged[q]
  BY <1>1, <1>2, RecordEffect
<1>4. "executing" \in Begun
  BY DEF Begun
<1>5. /\ Opening(r)' /\ Settling(r)' /\ Reviewed(r)'
      /\ Where(r, {"started"})' = Where(r, {"started"}) \cup {Len(logged[r]) + 1}
      /\ Where(r, {"ended"})' = Where(r, {"ended"})
  BY <1>2, <1>4, ExecutionTrail
<1>6. Running(r)'
  <2>1. Where(r, {"started"}) = {} /\ Where(r, {"ended"}) = {}
    BY <1>2 DEF TrailInv, Trail, Running, Begun
  <2>2. QED
    BY <1>3, <1>4, <1>5, <2>1 DEF Running
<1>7. QED
  BY <1>3, <1>5, <1>6, ExecutorLeaves, OneTrail DEF Trail

LEMMA FinishTrail ==
    ASSUME LedgerInv, TrailInv, NEW h \in RouteHandler, Finish(h), ~Decline(h)
    PROVE  TrailInv'
<1>1. /\ WriteBackTypeOK /\ job[h].request \in Writeback
      /\ job[h].verdict \in {"succeeded", "failed"}
  BY DEF LedgerInv, WriteBackTypeOK, Finish, Job
<1>2. PICK r \in Writeback : r = job[h].request
  BY <1>1
<1>3. PICK s \in {"succeeded", "failed"} : s = job[h].verdict
  BY <1>1
<1>4. /\ state[r] = "executing" /\ LogEvent(r, s, "ended", job[h].user, s)
      /\ Leave(h) /\ UNCHANGED <<filed, decided>>
  BY <1>2, <1>3 DEF Finish
<1> DEFINE x == [type |-> "ended", by |-> job[h].user, to |-> s]
           n == Len(logged[r]) + 1
<1>5. /\ state'[r] = s /\ logged'[r] = Append(logged[r], x)
      /\ \A q \in Writeback \ {r} : state'[q] = state[q] /\ logged'[q] = logged[q]
  BY <1>1, <1>4, RecordEffect
<1>6. x.to = s
  OBVIOUS
<1> HIDE DEF x
<1>7. /\ logged'[r][n] = x /\ n \in Nat
      /\ \A i \in Where(r, {"started"}) : i \in 1 .. (n - 1)
  <2>1. logged'[r] = Append(logged[r], x)
    BY <1>5
  <2>2. /\ n \in Nat /\ logged'[r][n] = x
        /\ \A T : Where(r, T) \subseteq 1 .. (n - 1)
    BY <1>1, <2>1, AppendEffect
  <2>3. Where(r, {"started"}) \subseteq 1 .. (n - 1)
    BY <2>2
  <2>4. QED
    BY <2>2, <2>3
<1>8. state[r] \in Begun /\ s \in Begun
  BY <1>4 DEF Begun
<1>9. /\ Opening(r)' /\ Settling(r)' /\ Reviewed(r)'
      /\ Where(r, {"started"})' = Where(r, {"started"})
      /\ Where(r, {"ended"})' = Where(r, {"ended"}) \cup {n}
  BY <1>4, <1>8, ExecutionTrail
<1> HIDE DEF n
<1>10. Running(r)'
  <2>1. /\ Where(r, {"started"}) # {} /\ Where(r, {"ended"}) = {}
        /\ \A i, k \in Where(r, {"started"}) : i = k
    BY <1>4, <1>8 DEF TrailInv, Trail, Running
  <2>2. \A k \in Where(r, {"started"}) : k < n
    BY <1>7
  <2>3. QED
    BY <1>5, <1>6, <1>7, <1>8, <1>9, <2>1, <2>2 DEF Running
<1>11. QED
  BY <1>4, <1>5, <1>9, <1>10, ExecutorLeaves, OneTrail DEF Trail

(* A review that commits adds its event; it is decisive for the request    *)
(* only if the request was still pending.                                  *)
LEMMA SettleTrail ==
    ASSUME LedgerInv, TrailInv, NEW h \in RouteHandler, Settle(h)
    PROVE  TrailInv'
<1>1. /\ WriteBackTypeOK /\ stage[h] = "settle" /\ ReviewSound(h) /\ job[h] \in Job
      /\ job[h].verdict \in Decision /\ Sound(job[h]) /\ Filed(h)
  BY DEF LedgerInv, WriteBackTypeOK, TrailInv, Settle, Reviewing, ReviewSound
<1>2. PICK r \in Writeback, u \in Person, verdict \in Decision, to \in State :
          r = job[h].request /\ u = job[h].user /\ verdict = job[h].verdict /\ to = job[h].next
  BY <1>1 DEF Job
<1> DEFINE x == [type |-> verdict, by |-> u, to |-> to]
           n == Len(logged[r]) + 1
<1>3. /\ state'[r] = Settled(job[h]) /\ logged'[r] = Append(logged[r], x)
      /\ \A q \in Writeback \ {r} : state'[q] = state[q] /\ logged'[q] = logged[q]
  <2>1. PICK s : s = Settled(job[h])
    OBVIOUS
  <2>2. LogEvent(r, s, verdict, u, to)
    BY <1>2, <2>1 DEF Settle
  <2>3. QED
    BY <1>1, <2>1, <2>2, RecordEffect
<1>4. x.type = verdict /\ x.by = u /\ x.to = to
  OBVIOUS
<1> HIDE DEF x
<1>5. /\ state'[r] = IF state[r] = "pending_approval" THEN to ELSE state[r]
      /\ to \in {"pending_approval", "approved", "cancelled"}
      /\ decided[r][u] = "none" /\ state[r] # "none"
      /\ logged[r] # <<>> /\ logged[r][1].type = "created"
      /\ Trail(r)
  BY <1>1, <1>2, <1>3 DEF Settled, Sound, ReviewSound, Reviewing, Filed, TrailInv
<1>6. /\ decided' = [decided EXCEPT ![r][u] = verdict]
      /\ stage'[h] = "idle"
      /\ \A g \in RouteHandler \ {h} : stage'[g] = stage[g] /\ job'[g] = job[g]
  BY <1>1, <1>2 DEF Settle, Leave, WriteBackTypeOK
<1>7. /\ n \in Nat /\ n >= 1 /\ logged'[r][n] = x /\ logged'[r] # <<>>
      /\ \A i \in 1 .. (n - 1) : logged'[r][i] = logged[r][i]
      /\ \A T : Where(r, T) \subseteq 1 .. (n - 1)
      /\ logged[r] = <<>> <=> n = 1
  <2>1. WriteBackTypeOK /\ logged'[r] = Append(logged[r], x)
    BY <1>1, <1>3
  <2>2. QED
    BY <2>1, AppendEffect
<1>8. Where(r, Decision)' = Where(r, Decision) \cup {n}
  <2>1. Where(r, Decision)' = Where(r, Decision) \cup (IF x.type \in Decision THEN {n} ELSE {})
    BY <1>1, <1>3, WhereEffect
  <2>2. QED
    BY <1>4, <2>1
<1>9. Decisive(r)' = Decisive(r) \cup (IF to # "pending_approval" THEN {n} ELSE {})
  <2>1. Decisive(r)' = Decisive(r) \cup
            (IF x.type \in Decision /\ x.to # "pending_approval" THEN {n} ELSE {})
    BY <1>1, <1>3, DecisiveEffect
  <2>2. QED
    BY <1>4, <2>1
<1>10. Where(r, {"started"})' = Where(r, {"started"}) /\ Where(r, {"ended"})' = Where(r, {"ended"})
  <2>1. x.type \notin {"started"} /\ x.type \notin {"ended"}
    BY <1>4 DEF Decision
  <2>2. Where(r, {"started"})' = Where(r, {"started"}) \cup (IF x.type \in {"started"} THEN {n} ELSE {})
    BY <1>1, <1>3, WhereEffect
  <2>3. Where(r, {"ended"})' = Where(r, {"ended"}) \cup (IF x.type \in {"ended"} THEN {n} ELSE {})
    BY <1>1, <1>3, WhereEffect
  <2>4. QED
    BY <2>1, <2>2, <2>3
<1> HIDE DEF n
<1>11. /\ 1 \in 1 .. (n - 1) /\ logged'[r][1].type = "created"
       /\ Decisive(r) \subseteq 1 .. (n - 1) /\ Where(r, {"ended"}) \subseteq 1 .. (n - 1)
       /\ Where(r, Decision) \subseteq 1 .. (n - 1)
  <2>1. 1 \in 1 .. (n - 1)
    BY <1>5, <1>7
  <2>2. Where(r, {"ended"}) \subseteq 1 .. (n - 1) /\ Where(r, Decision) \subseteq 1 .. (n - 1)
    BY <1>7
  <2>3. Decisive(r) \subseteq Where(r, Decision)
    BY DEF Decisive
  <2>4. QED
    BY <1>5, <1>7, <2>1, <2>2, <2>3
<1>12. state[r] = "pending_approval" <=> Decisive(r) = {}
  BY <1>5 DEF Trail, Opening
<1>13. Opening(r)'
  <2>1. state'[r] # "none"
    BY <1>5
  <2>2. state'[r] = "pending_approval" <=> Decisive(r)' = {}
    BY <1>5, <1>9, <1>12
  <2>3. QED
    BY <1>7, <1>11, <2>1, <2>2 DEF Opening
<1>14. Settling(r)'
  <2> SUFFICES ASSUME NEW i \in Decisive(r)', \A k \in Decisive(r)' : i <= k
               PROVE  logged'[r][i].to = IF state'[r] \in Begun THEN "approved" ELSE state'[r]
    BY DEF Settling
  <2>1. CASE state[r] = "pending_approval"
    <3>1. i = n /\ logged'[r][i].to = to
      BY <1>4, <1>7, <1>9, <1>12, <2>1
    <3>2. state'[r] = to /\ to \notin Begun
      BY <1>5, <2>1 DEF Begun
    <3>3. QED
      BY <3>1, <3>2
  <2>2. CASE state[r] # "pending_approval"
    <3>1. PICK k \in Decisive(r) : TRUE
      BY <1>12, <2>2
    <3>2. k \in 1 .. (n - 1) /\ k \in Decisive(r)'
      BY <1>9, <1>11
    <3>3. i # n
      BY <1>7, <3>2
    <3>4. i \in Decisive(r) /\ logged'[r][i] = logged[r][i]
      BY <1>7, <1>9, <1>11, <3>3
    <3>5. logged[r][i].to = IF state[r] \in Begun THEN "approved" ELSE state[r]
      BY <1>5, <1>9, <3>4 DEF Trail, Settling
    <3>6. QED
      BY <1>5, <2>2, <3>4, <3>5
  <2>3. QED
    BY <2>1, <2>2
<1>15. Running(r)'
  <2>1. state'[r] \in Begun <=> state[r] \in Begun
    BY <1>5 DEF Begun
  <2>2. /\ state'[r] \in {"succeeded", "failed"} <=> state[r] \in {"succeeded", "failed"}
        /\ state[r] \in {"succeeded", "failed"} => state'[r] = state[r]
    BY <1>5
  <2>3. \A i \in Where(r, {"ended"}) : logged'[r][i] = logged[r][i]
    BY <1>7, <1>11
  <2>4. QED
    BY <1>5, <1>10, <2>1, <2>2, <2>3 DEF Running, Trail
<1>16. Reviewed(r)'
  <2>1. \A i \in Where(r, Decision) : /\ logged'[r][i] = logged[r][i] /\ i # n
                                     /\ logged[r][i].by # u
    <3> SUFFICES ASSUME NEW i \in Where(r, Decision)
                 PROVE  logged'[r][i] = logged[r][i] /\ i # n /\ logged[r][i].by # u
      OBVIOUS
    <3>1. logged[r][i].type \in Decision /\ decided[r][logged[r][i].by] = logged[r][i].type
      BY <1>5 DEF Trail, Reviewed, Where
    <3>2. logged[r][i].by # u
      BY <1>5, <3>1 DEF Decision
    <3>3. QED
      BY <1>7, <1>11, <3>2
  <2>2. /\ decided'[r][u] = verdict
        /\ \A v \in Person \ {u} : decided'[r][v] = decided[r][v]
    BY <1>1, <1>6 DEF WriteBackTypeOK
  <2>3. \A i \in Where(r, Decision) : logged[r][i].by \in Person
    <3>1. logged[r] \in Seq(Event)
      BY <1>1 DEF WriteBackTypeOK
    <3>2. \A i \in Where(r, Decision) : logged[r][i] \in Event
      BY <3>1 DEF Where
    <3>3. QED
      BY <3>2 DEF Event
  <2>4. ASSUME NEW i \in Where(r, Decision)', NEW k \in Where(r, Decision)',
               logged'[r][i].by = logged'[r][k].by
        PROVE  i = k
    <3>1. \A a, b \in Where(r, Decision) : logged[r][a].by = logged[r][b].by => a = b
      BY <1>5 DEF Trail, Reviewed
    <3>2. QED
      BY <1>4, <1>7, <1>8, <2>1, <2>4, <3>1
  <2>5. ASSUME NEW i \in Where(r, Decision)'
        PROVE  decided'[r][logged'[r][i].by] = logged'[r][i].type
    <3>1. CASE i = n
      BY <1>4, <1>7, <2>2, <3>1
    <3>2. CASE i # n
      BY <1>5, <1>8, <2>1, <2>2, <2>3, <3>2 DEF Trail, Reviewed
    <3>3. QED
      BY <3>1, <3>2
  <2>6. ASSUME NEW v \in Person, decided'[r][v] # "none"
        PROVE  \E i \in Where(r, Decision)' : logged'[r][i].by = v
    <3>1. CASE v = u
      BY <1>4, <1>7, <1>8, <3>1
    <3>2. CASE v # u
      <4>1. PICK i \in Where(r, Decision) : logged[r][i].by = v
        BY <1>5, <2>2, <2>6, <3>2 DEF Trail, Reviewed
      <4>2. QED
        BY <1>8, <2>1, <4>1
    <3>3. QED
      BY <3>1, <3>2
  <2>7. QED
    BY <2>4, <2>5, <2>6 DEF Reviewed
<1>17. \A q \in Writeback \ {r} : decided'[q] = decided[q]
  BY <1>1, <1>6 DEF WriteBackTypeOK
<1>18. \A g \in RouteHandler : stage'[g] \in Reviewing => stage'[g] = stage[g] /\ job'[g] = job[g]
  BY <1>6 DEF Reviewing
<1>19. QED
  <2>1. \E y : logged'[r] = Append(logged[r], y)
    BY <1>3
  <2>2. QED
    BY <1>3, <1>13, <1>14, <1>15, <1>16, <1>17, <1>18, <2>1, OneTrail DEF Trail

(* The trail of a request tells its state, how it came there and who       *)
(* reviewed it, although reviews that race may record a result that never  *)
(* came about.                                                             *)
THEOREM TrailComplete == WriteBackSpec => []TrailTellsState
<1>1. WriteBackInit => TrailInv
  <2> SUFFICES ASSUME WriteBackInit PROVE TrailInv
    OBVIOUS
  <2>1. ASSUME NEW r \in Writeback PROVE Trail(r)
    <3>1. /\ state[r] = "none" /\ logged[r] = <<>>
          /\ \A u \in Person : decided[r][u] = "none"
      BY DEF WriteBackInit
    <3>2. \A T : Where(r, T) = {}
      BY <3>1 DEF Where
    <3>3. Decisive(r) = {}
      BY <3>2 DEF Decisive
    <3>4. QED
      BY <3>1, <3>2, <3>3 DEF Trail, Opening, Settling, Running, Reviewed, Begun
  <2>2. ASSUME NEW h \in RouteHandler PROVE Filed(h)
    BY DEF WriteBackInit, Filed, Reviewing
  <2>3. QED
    BY <2>1, <2>2 DEF TrailInv
<1>2. LedgerInv /\ TrailInv /\ [WriteBackNext]_writeBackVars => TrailInv'
  <2> SUFFICES ASSUME LedgerInv, TrailInv, [WriteBackNext]_writeBackVars PROVE TrailInv'
    OBVIOUS
  <2>0. WriteBackTypeOK
    BY DEF LedgerInv
  <2>1. ASSUME UNCHANGED tables, \A h \in RouteHandler : Filed(h)' PROVE TrailInv'
    BY <2>1, OtherTrails DEF TrailInv, tables
  <2>2. ASSUME UNCHANGED tables, NEW h \in RouteHandler,
               \A g \in RouteHandler \ {h} : stage'[g] = stage[g] /\ job'[g] = job[g],
               stage'[h] \in Reviewing => stage[h] \in Reviewing /\ job'[h].request = job[h].request
        PROVE  TrailInv'
    <3>1. ASSUME NEW g \in RouteHandler PROVE Filed(g)'
      BY <2>2 DEF TrailInv, Filed, tables
    <3>2. QED
      BY <2>1, <2>2, <3>1
  <2>3. ASSUME NEW h \in RouteHandler, Leave(h), UNCHANGED tables PROVE TrailInv'
    BY <2>0, <2>2, <2>3 DEF Leave, WriteBackTypeOK, Reviewing
  <2>4. ASSUME NEW h \in RouteHandler, StartReview(h) PROVE TrailInv'
    <3>1. PICK r \in Writeback, u \in Person, d \in Decision :
              state[r] = "pending_approval" /\ Take(h, "insert", r, u, d)
      BY <2>4 DEF StartReview
    <3>2. /\ job'[h].request = r /\ UNCHANGED tables
          /\ \A g \in RouteHandler \ {h} : stage'[g] = stage[g] /\ job'[g] = job[g]
      BY <2>0, <3>1 DEF Take, Proceed, WriteBackTypeOK
    <3>3. logged[r] # <<>> /\ logged[r][1].type = "created"
      BY <3>1 DEF TrailInv, Trail, Opening
    <3>4. ASSUME NEW g \in RouteHandler PROVE Filed(g)'
      BY <3>2, <3>3 DEF TrailInv, Filed, tables
    <3>5. QED
      BY <2>1, <3>2, <3>4
  <2>5. ASSUME NEW h \in RouteHandler, StartExecution(h) PROVE TrailInv'
    BY <2>0, <2>2, <2>5 DEF StartExecution, Take, Proceed, WriteBackTypeOK, Reviewing
  <2>6. ASSUME NEW h \in RouteHandler, CheckPending(h) \/ Insert(h) PROVE TrailInv'
    <3>1. CASE Decline(h)
      BY <2>3, <3>1 DEF Decline
    <3>2. CASE ~Decline(h)
      BY <2>0, <2>2, <2>6, <3>2 DEF CheckPending, Insert, Proceed, WriteBackTypeOK, Reviewing
    <3>3. QED
      BY <3>1, <3>2
  <2>7. ASSUME NEW h \in RouteHandler, Count(h) PROVE TrailInv'
    <3>1. job[h] \in Job /\ stage[h] = "count" /\ UNCHANGED tables
      BY <2>0, <2>7 DEF Count, WriteBackTypeOK
    <3>2. job' = [job EXCEPT ![h] = [job[h] EXCEPT !.next = Conclusion(job[h])]]
      BY <2>7 DEF Count
    <3>3. job'[h].request = job[h].request
      BY <2>0, <3>1, <3>2 DEF Job, WriteBackTypeOK
    <3>4. \A g \in RouteHandler \ {h} : stage'[g] = stage[g] /\ job'[g] = job[g]
      BY <2>0, <2>7, <3>2 DEF Count, Proceed, WriteBackTypeOK
    <3>5. stage[h] \in Reviewing
      BY <3>1 DEF Reviewing
    <3>6. QED
      BY <2>2, <3>1, <3>3, <3>4, <3>5
  <2>8. ASSUME NEW h \in RouteHandler, RecordUnavailable(h) PROVE TrailInv'
    <3>1. CASE Decline(h)
      BY <2>3, <3>1 DEF Decline
    <3>2. QED
      BY <2>8, <3>1, ProbeTrail
  <2>9. ASSUME NEW h \in RouteHandler, BeginExecution(h) PROVE TrailInv'
    <3>1. CASE Decline(h)
      BY <2>3, <3>1 DEF Decline
    <3>2. CASE ~Decline(h)
      BY <2>9, <3>2, BeginTrail DEF BeginExecution
    <3>3. QED
      BY <3>1, <3>2
  <2>10. ASSUME NEW h \in RouteHandler, BeginUnheard(h) PROVE TrailInv'
    BY <2>10, BeginTrail DEF BeginUnheard
  <2>11. ASSUME NEW h \in RouteHandler, Call(h) PROVE TrailInv'
    <3>1. PICK verdict : job' = [job EXCEPT ![h].verdict = verdict]
      BY <2>11 DEF Call
    <3>2. \A g \in RouteHandler \ {h} : stage'[g] = stage[g] /\ job'[g] = job[g]
      BY <2>0, <2>11, <3>1 DEF Call, Proceed, WriteBackTypeOK
    <3>3. stage'[h] \notin Reviewing
      BY <2>0, <2>11 DEF Call, Proceed, WriteBackTypeOK, Reviewing
    <3>4. QED
      BY <2>2, <2>11, <3>2, <3>3 DEF Call
  <2>12. ASSUME NEW h \in RouteHandler, Finish(h) PROVE TrailInv'
    <3>1. CASE Decline(h)
      BY <2>3, <3>1 DEF Decline
    <3>2. QED
      BY <2>12, <3>1, FinishTrail
  <2>13. ASSUME NEW h \in RouteHandler, Fail(h) PROVE TrailInv'
    BY <2>3, <2>13 DEF Fail
  <2>14. CASE UNCHANGED writeBackVars
    BY <2>1, <2>14 DEF writeBackVars, TrailInv, Filed, tables
  <2>15. QED
    BY <2>4, <2>5, <2>6, <2>7, <2>8, <2>9, <2>10, <2>11, <2>12, <2>13, <2>14,
       CreateTrail, SettleTrail DEF WriteBackNext, Review, Execution
<1>3. TrailInv => TrailTellsState
  BY DEF TrailInv, Trail, TrailTellsState
<1>4. QED
  BY LedgerInvariant, <1>1, <1>2, <1>3, PTL DEF WriteBackSpec
=============================================================================
