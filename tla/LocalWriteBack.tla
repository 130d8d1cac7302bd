--------------------------- MODULE LocalWriteBack ---------------------------
(***************************************************************************)
(* Industrial write-back on the embedded SQLite plane.  Every step is one  *)
(* transaction that nothing interrupts; only the executor is awaited.  The *)
(* safety policy is a setting of the process: a restart may change it      *)
(* under requests that were filed, reviewed or approved with another one.  *)
(***************************************************************************)
EXTENDS Naturals, FiniteSets, Sequences

CONSTANTS
    Request, User,
    Requester,      \* who files a request
    Policy,         \* settings: per request, the approvals it needs; 0: blocked,
                    \* for any reason but its reviews
    MaxRestarts,    \* bound
    MaxProbes       \* bound: attempts to execute without an executor

ReviewsAssumption ==
    /\ Requester \in [Request -> User]
    /\ Policy \subseteq [Request -> Nat]
    /\ MaxRestarts \in Nat

VARIABLES
    policy,         \* the setting of the process that runs
    equipped,       \* whether it has an executor
    state,          \* platform_writeback_requests.state, "none" before it is filed
    trail,          \* platform_writeback_events, with the approvals needed at the time;
                    \* the reviews are platform_writeback_approvals
    call,           \* per request: its executor call, while the route awaits it
    acts,           \* how often the executor acted for a request
    restarts

setting == <<policy, equipped, restarts>>
vars    == <<setting, state, trail, call, acts>>

Begun == {"executing", "succeeded", "failed"}

TrailEntry == [type : {"created", "blocked", "approved", "rejected", "unavailable",
                  "started", "succeeded", "failed"},
          by : User, needed : Nat]

TypeOK ==
    /\ policy \in Policy /\ equipped \in BOOLEAN /\ restarts \in 0..MaxRestarts
    /\ state \in [Request -> {"none", "pending", "approved", "cancelled"} \cup Begun]
    /\ trail \in [Request -> Seq(TrailEntry)]
    /\ call \in [Request -> {"none", "made", "succeeded", "failed"}]
    /\ acts \in [Request -> Nat]

Init ==
    /\ policy \in Policy
    /\ equipped \in BOOLEAN
    /\ restarts = 0
    /\ state = [r \in Request |-> "none"]
    /\ trail = [r \in Request |-> <<>>]
    /\ call = [r \in Request |-> "none"]
    /\ acts = [r \in Request |-> 0]

-----------------------------------------------------------------------------
Becomes(r, s, type, u) ==
    /\ state' = [state EXCEPT ![r] = s]
    /\ trail' = [trail EXCEPT ![r] = Append(@, [type |-> type, by |-> u, needed |-> policy[r]])]

By(entries, type) == {entries[i].by : i \in {k \in DOMAIN entries : entries[k].type = type}}

(* evaluateWritebackSafety(): distinct reviewers, none of whom filed it. *)
Enough(entries, r) == Cardinality(By(entries, "approved") \ {Requester[r]}) >= policy[r]

Allowed(r) ==
    /\ policy[r] > 0
    /\ By(trail[r], "rejected") = {}
    /\ Enough(trail[r], r)

(* createWritebackRequest() *)
File(r) ==
    /\ state[r] = "none"
    /\ IF policy[r] = 0 THEN Becomes(r, "cancelled", "blocked", Requester[r])
                        ELSE Becomes(r, "pending", "created", Requester[r])
    /\ UNCHANGED <<setting, call, acts>>

(* An approval that finds the request blocked by the policy cancels it. *)
Outcome(r, u) ==
    IF policy[r] = 0 THEN "cancelled"
    ELSE IF Enough(Append(trail[r], [type |-> "approved", by |-> u]), r) THEN "approved"
    ELSE "pending"

(* approveWritebackRequest() *)
Review(r, u) ==
    /\ state[r] = "pending"
    /\ u # Requester[r]
    /\ u \notin By(trail[r], "approved") \cup By(trail[r], "rejected")
    /\ \/ Becomes(r, "cancelled", "rejected", u)
       \/ Becomes(r, Outcome(r, u), "approved", u)
    /\ UNCHANGED <<setting, call, acts>>

(* assertWritebackExecutable(), recordUnavailableExecutor() *)
Probe(r, u) ==
    /\ ~equipped
    /\ state[r] = "approved" /\ Allowed(r)
    /\ Cardinality({i \in DOMAIN trail[r] : trail[r][i].type = "unavailable"}) < MaxProbes
    /\ Becomes(r, state[r], "unavailable", u)
    /\ UNCHANGED <<setting, call, acts>>

(* beginWritebackExecution(), then the executor is called. *)
Begin(r, u) ==
    /\ equipped
    /\ state[r] = "approved" /\ Allowed(r)
    /\ Becomes(r, "executing", "started", u)
    /\ call' = [call EXCEPT ![r] = "made"]
    /\ UNCHANGED <<setting, acts>>

(* The executor acts and says so; or fails, before or after it acted. *)
Execute(r) ==
    /\ call[r] = "made"
    /\ \E acted \in BOOLEAN, verdict \in {"succeeded", "failed"} :
          /\ verdict = "succeeded" => acted
          /\ acts' = IF acted THEN [acts EXCEPT ![r] = @ + 1] ELSE acts
          /\ call' = [call EXCEPT ![r] = verdict]
    /\ UNCHANGED <<setting, state, trail>>

(* completeWritebackExecution() *)
Complete(r) ==
    /\ call[r] \in {"succeeded", "failed"}
    /\ state[r] = "executing"
    /\ Becomes(r, call[r], call[r], trail[r][Len(trail[r])].by)
    /\ call' = [call EXCEPT ![r] = "none"]
    /\ UNCHANGED <<setting, acts>>

(* Variant: a new process takes executions that were cut off up again. *)
AfterRestart(r) == IF state[r] = "executing" THEN "approved" ELSE state[r]

(* The state column is as the old process left it. *)
Left(r) == state[r]

(* The process ends, and with it the calls; what they did stays. *)
Restart ==
    /\ restarts < MaxRestarts
    /\ restarts' = restarts + 1
    /\ policy' \in Policy
    /\ equipped' \in BOOLEAN
    /\ call' = [r \in Request |-> "none"]
    /\ state' = [r \in Request |-> Left(r)]
    /\ UNCHANGED <<trail, acts>>

Next ==
    \/ Restart
    \/ \E r \in Request :
          \/ File(r) \/ Execute(r) \/ Complete(r)
          \/ \E u \in User : Review(r, u) \/ Probe(r, u) \/ Begin(r, u)

-----------------------------------------------------------------------------
UpTo(r, i) == SubSeq(trail[r], 1, i)

(* The plant is acted upon at most once for a request, whatever restarts   *)
(* intervene, and only after a start that the policy of that very moment   *)
(* allowed: enough people other than the requester had approved, and       *)
(* nobody had rejected.                                                    *)
ActsAreCovered ==
    \A r \in Request :
        /\ acts[r] <= 1
        /\ acts[r] > 0 => "started" \in {trail[r][i].type : i \in DOMAIN trail[r]}
        /\ \A i \in DOMAIN trail[r] : trail[r][i].type = "started" =>
              LET approvers == By(UpTo(r, i), "approved") IN
              /\ trail[r][i].needed > 0 /\ Requester[r] \notin approvers
              /\ Cardinality(approvers) >= trail[r][i].needed
              /\ By(UpTo(r, i), "rejected") = {}

(* A review settles a request at once when it can: what is still pending   *)
(* lacks approvals by the policy its last review was made under, so no     *)
(* request is left pending for ever behind a review that was enough.       *)
ReviewsSettle ==
    \A r \in Request : state[r] = "pending" =>
        /\ By(trail[r], "rejected") = {}
        /\ LET last == trail[r][Len(trail[r])] IN Cardinality(By(trail[r], "approved")) < last.needed

-----------------------------------------------------------------------------
(* The inductive invariant behind both: a request that was never filed has *)
(* no trail; nobody approves what they filed; a start is on the trail of   *)
(* what has begun and of nothing else; and the executor is called for a    *)
(* request that is executing, which it has not acted upon yet.             *)
RequestInv(r) ==
    /\ state[r] = "none" <=> trail[r] = <<>>
    /\ Requester[r] \notin By(trail[r], "approved")
    /\ state[r] \in Begun <=> "started" \in {trail[r][i].type : i \in DOMAIN trail[r]}
    /\ call[r] # "none" => state[r] = "executing"
    /\ acts[r] > 0 => state[r] \in Begun /\ call[r] # "made"

ReviewsInv == TypeOK /\ ActsAreCovered /\ ReviewsSettle /\ \A r \in Request : RequestInv(r)
=============================================================================
