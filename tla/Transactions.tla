---------------------------- MODULE Transactions ----------------------------
(***************************************************************************)
(* Everything the API and its workers ask of PostgreSQL runs inside        *)
(* PostgresRuntime.withTransaction: a connection of a small pool, BEGIN,   *)
(* the request's scope as transaction-local settings that row-level        *)
(* security reads, the work, COMMIT or ROLLBACK, and the connection back   *)
(* to the pool for the next request.  A request of a project asks for its  *)
(* role in a transaction of its own first; what a user may select is       *)
(* discovered by two functions that read the settings.  Statements fail,   *)
(* answers are lost, connections break and the process stops; it starts    *)
(* only once the migrations and grants it needs are in place.              *)
(***************************************************************************)
EXTENDS Integers, FiniteSets, Sequences, SequencesExt

CONSTANTS Request,      \* requests
          KindOf,       \* what each is: "work", "tenants" or "projects"
          UserOf,       \* its user and the project it names
          ProjectOf,
          Project,
          TenantOf,     \* the tenant of a project
          PartOf,       \* what its tables come with, of Migrations below
          Connection,   \* places of the pool
          Null,
          MaxFaults,    \* bound: failures
          MaxChanges    \* bound: changes of access by others

Tenant == {TenantOf[p] : p \in Project}
Caller == {UserOf[r] : r \in Request}

\* The steps of the schema that a process looks for, in the order in which
\* they are applied.
Migrations == <<"data plane", "discovery", "workspaces", "objects",
                "administration", "advanced", "compatibility", "graph">>
Part == {Migrations[i] : i \in 1..Len(Migrations)}

TransactionsAssumption ==
    /\ KindOf \in [Request -> {"work", "tenants", "projects"}]
    /\ ProjectOf \in [Request -> Project]
    /\ PartOf \in [Request -> Part]
    /\ Null \notin Tenant \cup Project \cup Caller
    /\ MaxFaults \in Nat /\ MaxChanges \in Nat

VARIABLES schema,    \* how many of the migrations are applied
          serving,   \* whether the API process runs
          member,    \* odf.project_members: user and project
          live,      \* tenants and projects whose status is active
          session,   \* the server's side of each connection of the pool
          waiting,   \* requests the pool owes a connection, in order
          req,       \* each request: what it is at, and its connection
          written,   \* requests whose change is committed
          unheard,   \* requests whose COMMIT was executed and not answered
          entitled,  \* what each could select at some moment since it began
          faults, changes

vars == <<schema, serving, member, live, session, waiting, req, written,
          unheard, entitled, faults, changes>>
world == <<schema, serving, member, live, entitled, changes>>

Anonymous == [tenant |-> Null, project |-> Null, user |-> Null]

\* A session keeps its transaction, its settings and what it has not yet
\* committed.
Closed == [at |-> "closed", open |-> FALSE, scope |-> Anonymous, pending |-> {}]
Idle == [Closed EXCEPT !.at = "idle"]

Scopes == [tenant : Tenant \cup {Null}, project : Project \cup {Null},
           user : Caller \cup {Null}]

Session == [at : {"closed", "idle", "taken", "broken"}, open : BOOLEAN,
            scope : Scopes, pending : SUBSET Request]

Attempt == [at : {"new", "waiting", "connected", "begun", "configured",
                  "worked", "failed", "answered"},
            step : {"policy", "work"},
            conn : Connection \cup {Null},
            saw : SUBSET (Tenant \cup Project),
            answer : {"none", "ok", "refused", "failed", "missing"}]

TypeOK ==
    /\ schema \in 0..Len(Migrations) /\ serving \in BOOLEAN
    /\ member \subseteq Caller \X Project
    /\ live \subseteq Tenant \cup Project
    /\ session \in [Connection -> Session]
    /\ waiting \in Seq(Request)
    /\ req \in [Request -> Attempt]
    /\ written \subseteq Request /\ unheard \subseteq Request
    /\ entitled \in [Request -> SUBSET (Tenant \cup Project)]
    /\ faults \in 0..MaxFaults /\ changes \in 0..MaxChanges

Fresh(r) == [at |-> "new", step |-> IF KindOf[r] = "work" THEN "policy" ELSE "work",
             conn |-> Null, saw |-> {}, answer |-> "none"]

Init ==
    /\ schema = 0 /\ serving = FALSE
    /\ member = Caller \X Project /\ live = Tenant \cup Project
    /\ session = [c \in Connection |-> Closed]
    /\ waiting = <<>> /\ req = [r \in Request |-> Fresh(r)]
    /\ written = {} /\ unheard = {}
    /\ entitled = [r \in Request |-> {}]
    /\ faults = 0 /\ changes = 0

\* The join of the membership with projects and tenants that are active.
AccessibleAs(members, active, u) ==
    {p \in Project : /\ <<u, p>> \in members
                     /\ p \in active /\ TenantOf[p] \in active}

Accessible(u) == AccessibleAs(member, live, u)

Selectable(members, active, u) ==
    LET ps == AccessibleAs(members, active, u)
    IN ps \cup {TenantOf[p] : p \in ps}

Has(part) == \E i \in 1..schema : Migrations[i] = part

\* What a process attests before it listens: the runtime its own tables,
\* grants and principal, and the stores theirs.
RuntimeReady == Has("data plane") /\ Has("workspaces")
DiscoveryReady == Has("discovery")
AdministrationReady == Has("administration")
DataReady == Has("advanced")
CompatibilityReady == Has("compatibility")
ObjectsReady == Has("objects")

Migrate ==
    /\ schema < Len(Migrations)
    /\ schema' = schema + 1
    /\ UNCHANGED <<serving, member, live, session, waiting, req, written,
                   unheard, entitled, faults, changes>>

Start ==
    /\ ~serving
    /\ RuntimeReady /\ DiscoveryReady /\ AdministrationReady
    /\ DataReady /\ CompatibilityReady /\ ObjectsReady
    /\ serving' = TRUE
    /\ UNCHANGED <<schema, member, live, session, waiting, req, written,
                   unheard, entitled, faults, changes>>

\* Others add and remove members, and change the status of a tenant or a
\* project.
Change(members, active) ==
    /\ serving /\ changes < MaxChanges
    /\ member' = members /\ live' = active
    /\ changes' = changes + 1
    /\ entitled' = [r \in Request |->
                      IF req[r].at \in {"new", "answered"} THEN entitled[r]
                      ELSE entitled[r] \cup Selectable(members, active, UserOf[r])]
    /\ UNCHANGED <<schema, serving, session, waiting, req, written, unheard, faults>>

ChangeMember(u, p) ==
    Change(IF <<u, p>> \in member THEN member \ {<<u, p>>} ELSE member \cup {<<u, p>>}, live)
ChangeStatus(x) == Change(member, IF x \in live THEN live \ {x} ELSE live \cup {x})

Ask(r) ==
    /\ serving /\ req[r].at = "new"
    /\ req' = [req EXCEPT ![r].at = "waiting"]
    /\ waiting' = Append(waiting, r)
    /\ entitled' = [entitled EXCEPT ![r] = Selectable(member, live, UserOf[r])]
    /\ UNCHANGED <<schema, serving, member, live, session, written, unheard, faults, changes>>

\* The pool answers in order: an idle connection, or a new one if there is room.
Connect(r) ==
    /\ waiting # <<>> /\ r = Head(waiting)
    /\ \E c \in Connection :
         /\ \/ session[c].at = "idle"
            \/ session[c].at = "closed" /\ \A d \in Connection : session[d].at # "idle"
         /\ session' = [session EXCEPT ![c].at = "taken"]
         /\ req' = [req EXCEPT ![r].at = "connected", ![r].conn = c]
    /\ waiting' = Tail(waiting)
    /\ UNCHANGED <<world, written, unheard, faults>>

\* authorizeProject: no role, or none that could be resolved, refuses.
Decide(r, outcome) == outcome = "ok" /\ ProjectOf[r] \in req[r].saw

\* What a transaction's end means for its request: it goes on with the role
\* it asked for, or it is answered.
Finish(r, outcome) ==
    IF req[r].step = "policy" /\ Decide(r, outcome)
    THEN /\ req' = [req EXCEPT ![r].at = "waiting", ![r].step = "work", ![r].conn = Null]
         /\ waiting' = Append(waiting, r)
    ELSE /\ req' = [req EXCEPT ![r].at = "answered", ![r].conn = Null,
                               ![r].answer = IF req[r].step = "policy"
                                             THEN "refused" ELSE outcome]
         /\ UNCHANGED waiting

\* A statement fails because the connection broke, or it just fails.
Fails(c) == \/ session[c].at = "broken" /\ UNCHANGED faults
            \/ session[c].at = "taken" /\ faults < MaxFaults /\ faults' = faults + 1

Begin(r) ==
    LET c == req[r].conn
    IN /\ req[r].at = "connected"
       /\ session[c].at = "taken"
       /\ session' = [session EXCEPT ![c].open = TRUE]
       /\ req' = [req EXCEPT ![r].at = "begun"]
       /\ UNCHANGED <<world, waiting, written, unheard, faults>>

\* A connection that cannot begin a transaction is not given back.
BeginFails(r) ==
    /\ req[r].at = "connected" /\ Fails(req[r].conn)
    /\ session' = [session EXCEPT ![req[r].conn] = Closed]
    /\ Finish(r, "failed")
    /\ UNCHANGED <<world, written, unheard>>

\* The role is asked for under the tenant alone; discovery of tenants under
\* no tenant.
ScopeOf(r) == [tenant |-> IF KindOf[r] = "tenants" THEN Null ELSE TenantOf[ProjectOf[r]],
               project |-> IF KindOf[r] = "work" /\ req[r].step = "work"
                           THEN ProjectOf[r] ELSE Null,
               user |-> UserOf[r]]

Configure(r) ==
    LET c == req[r].conn
    IN /\ req[r].at = "begun"
       /\ session[c].at = "taken"
       /\ session' = [session EXCEPT ![c].scope = ScopeOf(r)]
       /\ req' = [req EXCEPT ![r].at = "configured"]
       /\ UNCHANGED <<world, waiting, written, unheard, faults>>

\* Row-level security: rows of the tenant in the settings, and, for the audit,
\* of the project there if there is one.
OfTenant(scope, p) == scope.tenant = TenantOf[p]
Permits(scope, p) == OfTenant(scope, p) /\ scope.project \in {Null, p}

\* discover_accessible_tenants, discover_accessible_projects, and the role.
Sees(r, scope) ==
    IF KindOf[r] = "tenants" THEN {TenantOf[p] : p \in Accessible(scope.user)}
    ELSE IF KindOf[r] = "projects"
         THEN {p \in Accessible(scope.user) : TenantOf[p] = scope.tenant}
         ELSE {p \in Accessible(UserOf[r]) : p = ProjectOf[r] /\ Permits(scope, p)}

Read(r) ==
    /\ req[r].at = "configured" /\ session[req[r].conn].at = "taken"
    /\ req[r].step = "policy" \/ KindOf[r] # "work"
    /\ req' = [req EXCEPT ![r].at = "worked", ![r].saw = Sees(r, session[req[r].conn].scope)]
    /\ UNCHANGED <<world, session, waiting, written, unheard, faults>>

\* The work writes its rows and their audit, and may then find that the
\* request cannot be served.
Work(r, refuses) ==
    LET c == req[r].conn
        goes == Has(PartOf[r]) /\ Permits(session[c].scope, ProjectOf[r])
    IN /\ req[r].at = "configured" /\ session[c].at = "taken"
       /\ req[r].step = "work" /\ KindOf[r] = "work"
       /\ session' = IF goes THEN [session EXCEPT ![c].pending = @ \cup {r}] ELSE session
       /\ req' = [req EXCEPT ![r].at = IF goes /\ ~refuses THEN "worked" ELSE "failed",
                             ![r].answer = IF Has(PartOf[r]) THEN "none" ELSE "missing"]
       /\ UNCHANGED <<world, waiting, written, unheard, faults>>

StatementFails(r) ==
    /\ req[r].at \in {"begun", "configured"} /\ Fails(req[r].conn)
    /\ req' = [req EXCEPT ![r].at = "failed"]
    /\ UNCHANGED <<world, session, waiting, written, unheard>>

\* The end of a transaction takes its settings with it.
Ended(s) == [s EXCEPT !.open = FALSE, !.pending = {}, !.scope = Anonymous]

Commit(r) ==
    LET c == req[r].conn
    IN /\ req[r].at = "worked" /\ session[c].at = "taken"
       /\ written' = written \cup session[c].pending
       /\ session' = [session EXCEPT ![c] = [Ended(@) EXCEPT !.at = "idle"]]
       /\ Finish(r, "ok")
       /\ UNCHANGED <<world, unheard, faults>>

CommitFails(r) ==
    /\ req[r].at = "worked" /\ Fails(req[r].conn)
    /\ req' = [req EXCEPT ![r].at = "failed"]
    /\ UNCHANGED <<world, session, waiting, written, unheard>>

\* COMMIT is executed and its answer does not arrive.
CommitUnheard(r) ==
    LET c == req[r].conn
    IN /\ req[r].at = "worked" /\ session[c].at = "taken" /\ faults < MaxFaults
       /\ written' = written \cup session[c].pending
       /\ unheard' = unheard \cup session[c].pending
       /\ session' = [session EXCEPT ![c] = [Ended(@) EXCEPT !.at = "broken"]]
       /\ req' = [req EXCEPT ![r].at = "failed"]
       /\ faults' = faults + 1
       /\ UNCHANGED <<world, waiting>>

FailedAs(r) == IF req[r].answer = "missing" THEN "missing" ELSE "failed"

Rollback(r) ==
    LET c == req[r].conn
    IN /\ req[r].at = "failed" /\ session[c].at = "taken"
       /\ session' = [session EXCEPT ![c] = [Ended(@) EXCEPT !.at = "idle"]]
       /\ Finish(r, FailedAs(r))
       /\ UNCHANGED <<world, written, unheard, faults>>

\* Variant: whatever became of the ROLLBACK, the connection is given back.
DiscardNever(s) == [s EXCEPT !.at = IF @ = "broken" THEN "closed" ELSE "idle"]

\* release(true): the connection is destroyed and its transaction with it.
Discard(s) == Closed

RollbackFails(r) ==
    LET c == req[r].conn
    IN /\ req[r].at = "failed" /\ Fails(c)
       /\ session' = [session EXCEPT ![c] = Discard(@)]
       /\ Finish(r, FailedAs(r))
       /\ UNCHANGED <<world, written, unheard>>

\* The wait for a connection has its own time-out.
WaitEnds(r) ==
    /\ req[r].at = "waiting" /\ faults < MaxFaults
    /\ faults' = faults + 1
    /\ req' = [req EXCEPT ![r].at = "answered",
                          ![r].answer = IF req[r].step = "policy" THEN "refused" ELSE "failed"]
    /\ \E i \in DOMAIN waiting : waiting[i] = r /\ waiting' = RemoveAt(waiting, i)
    /\ UNCHANGED <<world, session, written, unheard>>

\* The server ends a session that is in use: a time-out, a failover.
Sever(c) ==
    /\ session[c].at = "taken" /\ faults < MaxFaults
    /\ session' = [session EXCEPT ![c] = [Closed EXCEPT !.at = "broken"]]
    /\ faults' = faults + 1
    /\ UNCHANGED <<world, waiting, req, written, unheard>>

\* The process stops: it is killed, or a connection nobody is using breaks
\* (nothing listens for the pool's errors).  Its requests get no answer.
Stop ==
    /\ serving /\ faults < MaxFaults
    /\ serving' = FALSE
    /\ faults' = faults + 1
    /\ session' = [c \in Connection |-> Closed]
    /\ waiting' = <<>>
    /\ req' = [r \in Request |-> IF req[r].at = "new" THEN req[r]
                                 ELSE [req[r] EXCEPT !.at = "answered", !.conn = Null]]
    /\ UNCHANGED <<schema, member, live, written, unheard, entitled, changes>>

Next ==
    \/ Start \/ Stop
    \/ Migrate
    \/ \E u \in Caller, p \in Project : ChangeMember(u, p)
    \/ \E x \in Tenant \cup Project : ChangeStatus(x)
    \/ \E c \in Connection : Sever(c)
    \/ \E r \in Request :
         \/ Ask(r) \/ Connect(r) \/ WaitEnds(r)
         \/ Begin(r) \/ BeginFails(r) \/ Configure(r)
         \/ Read(r) \/ StatementFails(r)
         \/ \E refuses \in BOOLEAN : Work(r, refuses)
         \/ Commit(r) \/ CommitFails(r) \/ CommitUnheard(r)
         \/ Rollback(r) \/ RollbackFails(r)

Spec == Init /\ [][Next]_vars

(***************************************************************************)
(* No request leaves anything behind on its connection: what is committed  *)
(* was committed by the request that wrote it, which was told so unless    *)
(* its own COMMIT went unanswered, whoever else used the connection before *)
(* or after; and a connection in the pool has no transaction, no change    *)
(* waiting and no identity.                                                *)
(***************************************************************************)
NothingCarriesOver ==
    /\ \A r \in Request : KindOf[r] = "work" =>
         (req[r].answer = "ok" <=> r \in written \ unheard)
    /\ \A c \in Connection : session[c].at = "idle" => session[c] = Idle

(***************************************************************************)
(* A change is committed only for a user who held a role in an active      *)
(* project of an active tenant at some moment since the request began, and *)
(* a list of tenants or projects names only what the user could select at  *)
(* some moment since it was asked for, whatever failed on the way.         *)
(***************************************************************************)
RoleWasHeld ==
    /\ \A r \in written : ProjectOf[r] \in entitled[r]
    /\ \A r \in Request : req[r].saw \subseteq entitled[r]

(***************************************************************************)
(* A process that answers has the tables its requests need: none fails for *)
(* a migration yet to come, but for the model graph's, which no store      *)
(* looks for.                                                              *)
(***************************************************************************)
ServesWhatIsThere == \A r \in Request : req[r].answer = "missing" => PartOf[r] = "graph"

(***************************************************************************)
(* The inductive invariant behind the three: the requests the pool owes a  *)
(* connection wait, each once; those that have one share it with nobody;   *)
(* what a session holds is what the request that uses it did so far; and   *)
(* what a request may do is among what its user could select.              *)
(***************************************************************************)
Busy == {"connected", "begun", "configured", "worked", "failed"}
Using == {r \in Request : req[r].at \in Busy}

PoolInv ==
    /\ \A i \in DOMAIN waiting : req[waiting[i]].at = "waiting"
    /\ \A i, j \in DOMAIN waiting : waiting[i] = waiting[j] => i = j
    /\ \A r \in Using : /\ req[r].conn \in Connection
                        /\ session[req[r].conn].at \in {"taken", "broken"}
    /\ \A q, r \in Using : req[q].conn = req[r].conn => q = r

Wrote(r) == KindOf[r] = "work" /\ req[r].step = "work" /\ req[r].at \in {"worked", "failed"}

SessionInv ==
    /\ \A c \in Connection :
         /\ session[c].at \in {"closed", "idle", "broken"} =>
              session[c].pending = {} /\ session[c].open = FALSE /\ session[c].scope = Anonymous
    /\ \A r \in Using :
         LET s == session[req[r].conn] IN
         /\ s.pending \subseteq {r} /\ (r \in s.pending => Wrote(r))
         /\ s.at = "taken" /\ Wrote(r) /\ req[r].at = "worked" => r \in s.pending
         /\ s.at = "taken" /\ req[r].at = "configured" => s.scope = ScopeOf(r)

AnswerInv ==
    /\ \A r \in Request : KindOf[r] # "work" => req[r].step = "work"
    /\ unheard \subseteq written
    /\ \A r \in Request :
         /\ req[r].answer = "missing" => PartOf[r] = "graph"
         /\ req[r].at # "answered" => req[r].answer \in {"none", "missing"}
         /\ req[r].at = "failed" /\ r \in written =>
              r \in unheard /\ session[req[r].conn].at = "broken"
         /\ r \in written =>
              /\ KindOf[r] = "work" /\ req[r].step = "work"
              /\ req[r].at \in {"failed", "answered"}
         /\ req[r].at = "answered" /\ KindOf[r] = "work" =>
              (req[r].answer = "ok" <=> r \in written \ unheard)

ReadyInv ==
    /\ serving => /\ RuntimeReady /\ DiscoveryReady /\ AdministrationReady
                  /\ DataReady /\ CompatibilityReady /\ ObjectsReady
    /\ ~serving => \A r \in Request : req[r].at \in {"new", "answered"}

RoleInv ==
    /\ \A r \in Request : req[r].at \notin {"new", "answered"} =>
         Selectable(member, live, UserOf[r]) \subseteq entitled[r]
    /\ \A r \in Request : req[r].saw \subseteq entitled[r]
    /\ \A r \in Request : KindOf[r] = "work" /\ req[r].step = "work" => ProjectOf[r] \in req[r].saw
    /\ \A r \in Request : req[r].at = "new" => req[r] = Fresh(r)

SessionsInv == TypeOK /\ PoolInv /\ SessionInv /\ AnswerInv /\ ReadyInv /\ RoleInv
=============================================================================
