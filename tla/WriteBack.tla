----------------------------- MODULE WriteBack ------------------------------
(***************************************************************************)
(* Governed industrial write-back on the PostgreSQL plane: a request is    *)
(* filed, reviewed by people other than its author, and executed once by   *)
(* an external executor.                                                   *)
(*                                                                         *)
(* Handlers serve reviews and executions side by side.  Each runs READ     *)
(* COMMITTED transactions and an action is one statement, or the UPDATE    *)
(* of the request together with the COMMIT: the UPDATE holds the row until *)
(* then, nobody reads the uncommitted state, and reviews committed in      *)
(* between only make what its trigger asks for easier.                     *)
(*                                                                         *)
(* Requests share nothing but the handlers.  The policy does not change    *)
(* while a request lives, so its reasons against a request are fixed when  *)
(* it is filed ("cancelled" at once) and only approvals and rejections     *)
(* count afterwards.  The number the database trigger insists on is the    *)
(* least number normalizePolicy accepts; Required is never below it.       *)
(***************************************************************************)
EXTENDS Integers, Sequences, FiniteSets

CONSTANTS
    Writeback, Person, Risk,
    Required,       \* approvals the policy asks for, per risk
    RouteHandler,   \* API requests in progress
    NoJob,          \* the job of a handler that has none
    MaxUnavailable, \* bounds the recorded attempts without an executor
    MaxFaults       \* bounds crashes, failed statements and lost replies

ASSUME WriteBackAssumption ==
    /\ IsFiniteSet(Person)
    /\ Required \in [Risk -> Nat \ {0}]
    /\ MaxUnavailable \in Nat
    /\ MaxFaults \in Nat

(* What the policy asks for where it says nothing else. *)
DefaultRequired == [risk \in Risk |-> IF risk \in {"high", "critical"} THEN 2 ELSE 1]

Begun    == {"executing", "succeeded", "failed"}
State    == {"none", "pending_approval", "approved", "cancelled"} \cup Begun
Decision == {"approved", "rejected"}

VARIABLES
    filed,      \* per request: who files it, and its risk
    state,      \* per request: the state column, "none" before it is filed
    decided,    \* per request and user: the committed review
    logged,     \* per request: platform_legacy_writeback_events
    plantActs,  \* per request: how often the executor has acted on the plant
    withExecutor, \* the handlers whose process has an executor
    stage, job, \* per handler: the next statement, and what it is about
    faults

tables == <<filed, state, decided, logged>>
writeBackVars == <<tables, plantActs, withExecutor, stage, job, faults>>

Reviewing == {"insert", "unique", "count", "settle"}
Executing == {"begin", "call", "finish"}
Stage     == {"idle", "probe"} \cup Reviewing \cup Executing

(* verdict: the review, or what came of the execution; next: the state the *)
(* review leads to, as far as its transaction can see.                     *)
Job   == [request : Writeback, user : Person,
          verdict : Decision \cup {"succeeded", "failed"}, next : State]
Event == [type : {"created", "blocked", "started", "unavailable", "ended"} \cup Decision,
          by : Person, to : State]

WriteBackTypeOK ==
    /\ filed \in [Writeback -> [by : Person, risk : Risk]]
    /\ state \in [Writeback -> State]
    /\ decided \in [Writeback -> [Person -> Decision \cup {"none"}]]
    /\ logged \in [Writeback -> Seq(Event)]
    /\ plantActs \in [Writeback -> Nat]
    /\ withExecutor \subseteq RouteHandler
    /\ stage \in [RouteHandler -> Stage]
    /\ job \in [RouteHandler -> Job \cup {NoJob}]
    /\ faults \in 0..MaxFaults
    \* an open transaction knows what it is about
    /\ \A h \in RouteHandler :
          /\ stage[h] # "idle" => job[h] \in Job
          /\ stage[h] \in Reviewing => job[h].verdict \in Decision
          /\ stage[h] = "finish" => job[h].verdict \in {"succeeded", "failed"}

WriteBackInit ==
    /\ filed \in [Writeback -> [by : Person, risk : Risk]]
    /\ state = [r \in Writeback |-> "none"]
    /\ decided = [r \in Writeback |-> [u \in Person |-> "none"]]
    /\ logged = [r \in Writeback |-> <<>>]
    /\ plantActs = [r \in Writeback |-> 0]
    /\ withExecutor \in SUBSET RouteHandler
    /\ stage = [h \in RouteHandler |-> "idle"]
    /\ job = [h \in RouteHandler |-> NoJob]
    /\ faults = 0

-----------------------------------------------------------------------------
Having(r, decision) == {u \in Person : decided[r][u] = decision}

Enough(r, approvers) == Cardinality(approvers) >= Required[filed[r].risk]

(* evaluateWritebackSafety on the committed reviews. *)
Allowed(r) == Enough(r, Having(r, "approved")) /\ Having(r, "rejected") = {}

(* ROLLBACK, or a refusal: what the transaction has not committed is gone. *)
Leave(h) ==
    /\ stage' = [stage EXCEPT ![h] = "idle"]
    /\ job' = [job EXCEPT ![h] = NoJob]

Decline(h) == Leave(h) /\ UNCHANGED <<tables, plantActs, withExecutor, faults>>

Proceed(h, p) == stage' = [stage EXCEPT ![h] = p]

Take(h, p, r, u, verdict) ==
    /\ stage[h] = "idle"
    /\ Proceed(h, p)
    /\ job' = [job EXCEPT ![h] =
          [request |-> r, user |-> u, verdict |-> verdict, next |-> "pending_approval"]]
    /\ UNCHANGED <<tables, plantActs, withExecutor, faults>>

(* Row and event commit together. *)
LogEvent(r, s, type, u, to) ==
    /\ state' = [state EXCEPT ![r] = s]
    /\ logged' = [logged EXCEPT ![r] = Append(@, [type |-> type, by |-> u, to |-> to])]

(* createWritebackRequest: one transaction, so one action. *)
Create(r) ==
    /\ state[r] = "none"
    /\ \/ LogEvent(r, "pending_approval", "created", filed[r].by, "pending_approval")
       \/ LogEvent(r, "cancelled", "blocked", filed[r].by, "cancelled")
    /\ UNCHANGED <<filed, decided, plantActs, withExecutor, stage, job, faults>>

-----------------------------------------------------------------------------
(* approveWritebackRequest: the row is read and locks nothing. *)
StartReview(h) ==
    \E r \in Writeback, u \in Person, d \in Decision :
        /\ state[r] = "pending_approval"
        /\ u # filed[r].by
        /\ Take(h, "insert", r, u, d)

(* The BEFORE INSERT trigger reads the request again. *)
CheckPending(h) ==
    /\ stage[h] = "insert"
    /\ IF state[job[h].request] = "pending_approval"
       THEN Proceed(h, "unique") /\ UNCHANGED <<tables, plantActs, withExecutor, job, faults>>
       ELSE Decline(h)

(* Another transaction has inserted the same reviewer and not committed. *)
Contended(h) ==
    \E g \in RouteHandler \ {h} :
        /\ stage[g] \in {"count", "settle"}
        /\ job[g].request = job[h].request /\ job[g].user = job[h].user

(* ON CONFLICT DO NOTHING: wait for the other transaction, then insert, or *)
(* answer 409 if the reviewer has decided already.  The trigger does not   *)
(* run again after the wait.                                               *)
Insert(h) ==
    /\ stage[h] = "unique" /\ ~Contended(h)
    /\ IF decided[job[h].request][job[h].user] = "none"
       THEN Proceed(h, "count") /\ UNCHANGED <<tables, plantActs, withExecutor, job, faults>>
       ELSE Decline(h)

(* What the transaction makes of its own review and the committed ones. *)
Conclusion(j) ==
    IF j.verdict = "rejected" \/ Having(j.request, "rejected") # {} THEN "cancelled"
    ELSE IF Enough(j.request, Having(j.request, "approved") \cup {j.user}) THEN "approved"
    ELSE "pending_approval"

Count(h) ==
    /\ stage[h] = "count"
    /\ job' = [job EXCEPT ![h].next = Conclusion(job[h])]
    /\ Proceed(h, "settle")
    /\ UNCHANGED <<tables, plantActs, withExecutor, faults>>

(* Variant: the UPDATE does not look at the state. *)
SettledAnyway(j) == j.next

(* UPDATE ... WHERE state = 'pending_approval', the event, COMMIT.  If the *)
(* row is no longer pending the review is committed all the same.          *)
Settled(j) == IF state[j.request] = "pending_approval" THEN j.next ELSE state[j.request]

Settle(h) ==
    /\ stage[h] = "settle"
    /\ LET j == job[h] IN
          /\ decided' = [decided EXCEPT ![j.request][j.user] = j.verdict]
          /\ LogEvent(j.request, Settled(j), j.verdict, j.user, j.next)
    /\ Leave(h)
    /\ UNCHANGED <<filed, plantActs, withExecutor, faults>>

-----------------------------------------------------------------------------
(* The execute route: both paths begin with assertWritebackExecutableRow.  *)
StartExecution(h) ==
    \E r \in Writeback, u \in Person :
        /\ state[r] = "approved" /\ Allowed(r)
        /\ Take(h, IF h \in withExecutor THEN "begin" ELSE "probe", r, u, "failed")

(* recordUnavailableExecutor, a second transaction that checks again. *)
RecordUnavailable(h) ==
    /\ stage[h] = "probe"
    /\ LET r == job[h].request
           probes == {i \in DOMAIN logged[r] : logged[r][i].type = "unavailable"} IN
          IF state[r] = "approved" /\ Allowed(r)
          THEN /\ Cardinality(probes) < MaxUnavailable
               /\ LogEvent(r, state[r], "unavailable", job[h].user, state[r])
               /\ Leave(h) /\ UNCHANGED <<filed, decided, plantActs, withExecutor, faults>>
          ELSE Decline(h)

(* Variant: the UPDATE takes any request that has left review. *)
BeginExecutionAnyway(h) ==
    /\ stage[h] = "begin"
    /\ LET r == job[h].request IN
          /\ LogEvent(r, "executing", "started", job[h].user, "executing")
          /\ Proceed(h, "call")
          /\ UNCHANGED <<filed, decided, plantActs, withExecutor, job, faults>>

(* beginWritebackExecution: UPDATE ... WHERE state = 'approved', COMMIT.   *)
BeginExecution(h) ==
    /\ stage[h] = "begin"
    /\ LET r == job[h].request IN
          IF state[r] = "approved"
          THEN /\ LogEvent(r, "executing", "started", job[h].user, "executing")
               /\ Proceed(h, "call")
               /\ UNCHANGED <<filed, decided, plantActs, withExecutor, job, faults>>
          ELSE Decline(h)

(* The same, committed, but the reply is lost and the executor not called. *)
BeginUnheard(h) ==
    /\ stage[h] = "begin" /\ state[job[h].request] = "approved" /\ faults < MaxFaults
    /\ LET r == job[h].request IN LogEvent(r, "executing", "started", job[h].user, "executing")
    /\ Leave(h)
    /\ faults' = faults + 1
    /\ UNCHANGED <<filed, decided, plantActs, withExecutor>>

(* writebackExecutor.execute: it may also fail before or after it acted. *)
Call(h) ==
    /\ stage[h] = "call"
    /\ \E acted \in BOOLEAN, verdict \in {"succeeded", "failed"} :
          /\ verdict = "succeeded" => acted
          /\ plantActs' = IF acted THEN [plantActs EXCEPT ![job[h].request] = @ + 1] ELSE plantActs
          /\ job' = [job EXCEPT ![h].verdict = verdict]
    /\ Proceed(h, "finish")
    /\ UNCHANGED <<tables, withExecutor, faults>>

(* completeWritebackExecution. *)
Finish(h) ==
    /\ stage[h] = "finish"
    /\ LET j == job[h] IN
          IF state[j.request] = "executing"
          THEN /\ LogEvent(j.request, j.verdict, "ended", j.user, j.verdict)
               /\ Leave(h) /\ UNCHANGED <<filed, decided, plantActs, withExecutor, faults>>
          ELSE Decline(h)

(* The process dies, or a statement or a COMMIT fails. *)
Fail(h) ==
    /\ stage[h] # "idle" /\ faults < MaxFaults
    /\ Leave(h)
    /\ faults' = faults + 1
    /\ UNCHANGED <<tables, plantActs, withExecutor>>

-----------------------------------------------------------------------------
Review(h)    == CheckPending(h) \/ Insert(h) \/ Count(h) \/ Settle(h)
Execution(h) == RecordUnavailable(h) \/ BeginExecution(h) \/ Call(h) \/ Finish(h)

WriteBackNext ==
    \/ \E r \in Writeback : Create(r)
    \/ \E h \in RouteHandler :
          \/ StartReview(h) \/ StartExecution(h)
          \/ Review(h) \/ Execution(h)
          \/ BeginUnheard(h) \/ Fail(h)

WriteBackSpec == WriteBackInit /\ [][WriteBackNext]_writeBackVars

-----------------------------------------------------------------------------
(* Properties. *)

Where(r, types) == {i \in DOMAIN logged[r] : logged[r][i].type \in types}
Decisive(r) == {i \in Where(r, Decision) : logged[r][i].to # "pending_approval"}

(* It opens with the filing.  A blocked request has no further event; any  *)
(* other is pending until the first decisive review.                       *)
Opening(r) ==
    /\ state[r] = "none" <=> logged[r] = <<>>
    /\ logged[r] # <<>> =>
          \/ /\ logged[r][1].type = "blocked" /\ Len(logged[r]) = 1
             /\ state[r] = "cancelled"
          \/ /\ logged[r][1].type = "created"
             /\ state[r] = "pending_approval" <=> Decisive(r) = {}

(* The first decisive review says what came of the request, whatever later *)
(* reviews recorded.                                                       *)
Settling(r) ==
    \A i \in Decisive(r) : (\A k \in Decisive(r) : i <= k) =>
        logged[r][i].to = IF state[r] \in Begun THEN "approved" ELSE state[r]

(* It is started once if at all, ends later, once, and as it says. *)
Running(r) ==
    /\ Where(r, {"started"}) # {} <=> state[r] \in Begun
    /\ Where(r, {"ended"}) # {} <=> state[r] \in {"succeeded", "failed"}
    /\ \A i, k \in Where(r, {"started"}) : i = k
    /\ \A i, k \in Where(r, {"ended"}) : i = k
    /\ \A i \in Where(r, {"ended"}) :
          logged[r][i].to = state[r] /\ \A k \in Where(r, {"started"}) : k < i

(* Every committed review has one event, and no other event claims one. *)
Reviewed(r) ==
    /\ \A i, k \in Where(r, Decision) : logged[r][i].by = logged[r][k].by => i = k
    /\ \A i \in Where(r, Decision) : decided[r][logged[r][i].by] = logged[r][i].type
    /\ \A u \in Person : decided[r][u] # "none" =>
          \E i \in Where(r, Decision) : logged[r][i].by = u

(* The trail alone tells the state of a request and its reviews, although  *)
(* reviews that race may record a result that never came about.            *)
TrailTellsState ==
    \A r \in Writeback : Opening(r) /\ Settling(r) /\ Running(r) /\ Reviewed(r)

Outcome(r) == CASE state[r] \in Begun              -> "begun"
                [] state[r] = "pending_approval"   -> "open"
                [] OTHER                           -> state[r]

Ledger == INSTANCE DualControl WITH
    Request <- Writeback, User <- Person, acts <- plantActs,
    reviews <- decided, outcome <- [r \in Writeback |-> Outcome(r)]

(* The handlers, statement by statement, do no more than the ledger of     *)
(* DualControl allows: four eyes, one review per person, a rejection       *)
(* settles what is open, enough approvals before anything begins, and at   *)
(* most one act on the plant.                                              *)
ImplementsDualControl == Ledger!Spec

(* What the comment in writeback-repository.ts:142 says of two approvals   *)
(* that race: once no review is in progress, a request with the approvals  *)
(* it needs is not pending any more.                                       *)
NotLeftPending ==
    \A r \in Writeback :
        (\A h \in RouteHandler : stage[h] \in Reviewing => job[h].request # r) =>
            ~(state[r] = "pending_approval" /\ Allowed(r))
=============================================================================
