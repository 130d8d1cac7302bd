--------------------------- MODULE Administration ---------------------------
(***************************************************************************)
(* One tenant, its projects and who belongs to them: provisioned once by   *)
(* an operator, then administered through the SECURITY DEFINER routines of *)
(* migration 012.  A routine runs under READ COMMITTED: it first asks for  *)
(* the actor's role and later locks the row it changes, each statement     *)
(* with a snapshot of its own; provisioning is SERIALIZABLE, so that it    *)
(* sees the database as of its first statement, even after waiting.        *)
(*                                                                         *)
(* Tenant and project members have tables and routines of the same shape:  *)
(* a scope is the tenant or a project.  A role is "owner", "admin" (which  *)
(* only a tenant has) or "viewer", for every role that manages nothing.    *)
(***************************************************************************)
EXTENDS Naturals, Sequences

CONSTANTS
    User, Project, Tenant,
    Input,          \* what a project may be created with, records with a slug
    Bootstrap,      \* what operators provision: [project, input, owner]
    Handler,        \* sessions of the application and of operators
    Asked,          \* the requests that are made, records with a kind
    Absent,         \* a project that does not exist
    MaxChanges      \* bound: ledger entries

Scope == {Tenant} \cup Project
Role == {"owner", "admin", "viewer", "none"}
BootstrapInput == [project : Project, input : Input, owner : User]

AdministrationAssumption ==
    /\ Tenant \notin Project /\ Absent \notin Input /\ MaxChanges \in Nat
    /\ Bootstrap \subseteq BootstrapInput
    /\ Asked \subseteq
          [kind : {"member"}, by : User, scope : Scope, user : User, becomes : Role]
          \cup [kind : {"status"}, by : User, scope : Scope, becomes : {"active", "suspended"}]
          \cup [kind : {"project"}, by : User, scope : Project, input : Input]

VARIABLES
    status,         \* per scope: its status, "none" while it does not exist
    input,          \* per project: what it was created with
    role,           \* per scope and user: tenant_members, project_members
    ledger,         \* tenant_administration_events and audit_log, in commit
                    \* order (not the outbox: the event of an entry whose
                    \* correlation id was used before is dropped)
    session         \* per handler: the request it is at, or what it was told

tables == <<status, input, role>>
vars   == <<tables, ledger, session>>

Idle == [step |-> "idle"]

LedgerEntry ==
    [kind : {"member"}, by : User, scope : Scope, user : User, was : Role, becomes : Role]
    \cup [kind : {"status"}, by : User, scope : Scope, was : {"none", "active", "suspended"},
          becomes : {"active", "suspended"}]
    \cup [kind : {"created"}, by : User, scope : Project, input : Input]
    \cup [kind : {"provisioned"}, scope : {Tenant}, bootstrap : Bootstrap]

Session ==
    {Idle} \cup [step : {"allowed", "missing"}, asked : Asked]
    \cup [step : {"snapshot"}, asked : Bootstrap, empty : BOOLEAN, exact : BOOLEAN]
    \cup [step : {"told"}, asked : Bootstrap, answer : {"provisioned", "failed", "unchanged"},
          exact : BOOLEAN]

TypeOK ==
    /\ status \in [Scope -> {"none", "active", "suspended"}]
    /\ input \in [Project -> Input \cup {Absent}]
    /\ role \in [Scope -> [User -> Role]]
    /\ ledger \in Seq(LedgerEntry) /\ Len(ledger) <= MaxChanges
    /\ session \in [Handler -> Session]

Init ==
    /\ status = [s \in Scope |-> "none"]
    /\ input = [p \in Project |-> Absent]
    /\ role = [s \in Scope |-> [u \in User |-> "none"]]
    /\ ledger = <<>>
    /\ session = [h \in Handler |-> Idle]

-----------------------------------------------------------------------------
Goto(h, s) == session' = [session EXCEPT ![h] = s]
Ends(h)    == Goto(h, Idle)
Free(h)    == session[h].step \in {"idle", "told"}

Record(entry) ==
    /\ Len(ledger) < MaxChanges
    /\ ledger' = Append(ledger, entry)

(* administration_require_tenant_owner(), ..._require_project_manager() *)
Manages(s, u) ==
    IF s = Tenant THEN role[Tenant][u] = "owner"
                  ELSE role[Tenant][u] \in {"owner", "admin"} \/ role[s][u] = "owner"

(* administration_require_tenant_manager(): no row makes the role NULL, and *)
(* NULL NOT IN ('owner', 'admin') does not raise.                           *)
MayCreate(u) == role[Tenant][u] # "viewer"

(* The first statements of a routine: the actor's role, and for a new       *)
(* project the tenant's status.                                             *)
Ask(h) ==
    /\ Free(h)
    /\ status[Tenant] # "none"
    /\ \E q \in Asked :
          /\ IF q.kind = "project" THEN MayCreate(q.by) /\ status[Tenant] = "active"
                                   ELSE Manages(q.scope, q.by) /\ status[q.scope] # "none"
          /\ Goto(h, [step |-> "allowed", asked |-> q])
    /\ UNCHANGED <<tables, ledger>>

Owners(s) == {u \in User : role[s][u] = "owner"}

(* Variant: nothing holds the last owner back.                             *)
KeepsOwnerNot(s, u, r) == TRUE

(* protect_last_*_owner(): the count follows an advisory lock that every   *)
(* demotion of the scope holds until it commits.                           *)
KeepsOwner(s, u, r) == role[s][u] = "owner" /\ r # "owner" => Owners(s) # {u}

SetRole(h, q) ==
    /\ role' = [role EXCEPT ![q.scope][q.user] = q.becomes]
    /\ Record([kind |-> "member", by |-> q.by, scope |-> q.scope, user |-> q.user,
               was |-> role[q.scope][q.user], becomes |-> q.becomes])
    /\ Ends(h)
    /\ UNCHANGED <<status, input>>

(* admin_upsert_*_member() of a row it found and locked; ..._remove_*().   *)
ChangeMember(h) ==
    LET q == session[h].asked IN
    /\ session[h].step = "allowed" /\ q.kind = "member"
    /\ role[q.scope][q.user] \notin {"none", q.becomes}
    /\ KeepsOwner(q.scope, q.user, q.becomes)
    /\ SetRole(h, q)

(* An upsert that finds no row has nothing to lock... *)
LookInVain(h) ==
    LET q == session[h].asked IN
    /\ session[h].step = "allowed" /\ q.kind = "member"
    /\ q.becomes # "none" /\ role[q.scope][q.user] = "none"
    /\ Goto(h, [session[h] EXCEPT !.step = "missing"])
    /\ UNCHANGED <<tables, ledger>>

StillMissing(q) == role[q.scope][q.user] = "none"

(* ...and its INSERT may meet one on the primary key. *)
AddMember(h) ==
    LET q == session[h].asked IN
    /\ session[h].step = "missing"
    /\ StillMissing(q)
    /\ SetRole(h, q)

(* The row is locked; an update that changes nothing records nothing. *)
SetStatus(h) ==
    LET q == session[h].asked IN
    /\ session[h].step = "allowed" /\ q.kind = "status"
    /\ status[q.scope] # q.becomes
    /\ status' = [status EXCEPT ![q.scope] = q.becomes]
    /\ Record([kind |-> "status", by |-> q.by, scope |-> q.scope,
               was |-> status[q.scope], becomes |-> q.becomes])
    /\ Ends(h)
    /\ UNCHANGED <<input, role>>

(* admin_update_tenant(), admin_update_project() *)
UpdateTenant(h)  == SetStatus(h) /\ session[h].asked.scope = Tenant
UpdateProject(h) == SetStatus(h) /\ session[h].asked.scope # Tenant

(* Another project has the id or the slug. *)
Taken(p, i) == \E q \in Project : input[q] # Absent /\ (q = p \/ input[q].slug = i.slug)

Founds(p, i, owner) ==
    /\ input' = [input EXCEPT ![p] = i]
    /\ role' = [role EXCEPT ![p][owner] = "owner"]

(* admin_create_project(), behind a lock on the id. *)
CreateProject(h) ==
    LET q == session[h].asked IN
    /\ session[h].step = "allowed" /\ q.kind = "project"
    /\ ~Taken(q.scope, q.input)
    /\ Founds(q.scope, q.input, q.by)
    /\ status' = [status EXCEPT ![q.scope] = "active"]
    /\ Record([kind |-> "created", by |-> q.by, scope |-> q.scope, input |-> q.input])
    /\ Ends(h)

(* Nothing to change, an answer that repeats an earlier one, or a refusal. *)
Nothing(h) ==
    LET q == session[h].asked IN
    /\ \/ /\ session[h].step = "allowed"
          /\ CASE q.kind = "project" -> Taken(q.scope, q.input)
               [] q.kind = "status"  -> status[q.scope] = q.becomes
               [] q.kind = "member"  -> \/ role[q.scope][q.user] = q.becomes
                                        \/ ~KeepsOwner(q.scope, q.user, q.becomes)
       \/ session[h].step = "missing" /\ ~StillMissing(q)
    /\ Ends(h)
    /\ UNCHANGED <<tables, ledger>>

-----------------------------------------------------------------------------
(* The rows that provisioning writes, all of them or none. *)
Exact(b) ==
    /\ status[Tenant] = "active" /\ role[Tenant][b.owner] = "owner"
    /\ status[b.project] = "active" /\ input[b.project] = b.input
    /\ role[b.project][b.owner] = "owner"
    /\ ledger # <<>> /\ ledger[1].bootstrap = b

(* provisionTenantProject(): BEGIN SERIALIZABLE, and its first query. *)
ProvisionBegins(h) ==
    /\ Free(h)
    /\ \E b \in Bootstrap : Goto(h, [step |-> "snapshot", asked |-> b,
                                     empty |-> status[Tenant] = "none", exact |-> Exact(b)])
    /\ UNCHANGED <<tables, ledger>>

Answer(h, a) ==
    Goto(h, [step |-> "told", asked |-> session[h].asked, answer |-> a,
             exact |-> Exact(session[h].asked)])

(* provision_tenant_project(), past its gate: the tables are as they were  *)
(* at the first query.  A dry run rolls back.                              *)
Provision(h) ==
    LET b == session[h].asked IN
    /\ session[h].step = "snapshot" /\ session[h].empty
    /\ status[Tenant] = "none"
    /\ \/ /\ status' = [status EXCEPT ![Tenant] = "active", ![b.project] = "active"]
          /\ input' = [input EXCEPT ![b.project] = b.input]
          /\ role' = [role EXCEPT ![Tenant][b.owner] = "owner", ![b.project][b.owner] = "owner"]
          /\ Record([kind |-> "provisioned", scope |-> Tenant, bootstrap |-> b])
       \/ UNCHANGED <<tables, ledger>>
    /\ Answer(h, "provisioned")

(* A tenant that has appeared since collides on its key. *)
ProvisionCollides(h) ==
    /\ session[h].step = "snapshot" /\ session[h].empty
    /\ status[Tenant] # "none"
    /\ Answer(h, "failed")
    /\ UNCHANGED <<tables, ledger>>

Verdict(h) == IF session[h].exact THEN "unchanged" ELSE "failed"

ProvisionAgain(h) ==
    /\ session[h].step = "snapshot" /\ ~session[h].empty
    /\ Answer(h, Verdict(h))
    /\ UNCHANGED <<tables, ledger>>

Next == \E h \in Handler :
    \/ Ask(h) \/ ChangeMember(h) \/ LookInVain(h) \/ AddMember(h) \/ UpdateTenant(h) \/ UpdateProject(h)
    \/ CreateProject(h) \/ Nothing(h)
    \/ ProvisionBegins(h) \/ Provision(h) \/ ProvisionCollides(h) \/ ProvisionAgain(h)

-----------------------------------------------------------------------------
(* The tenant and each project keep an owner, whoever removes or demotes   *)
(* whom at the same time.                                                  *)
OwnersRemain == \A s \in Scope : status[s] # "none" => Owners(s) # {}

Entries(s, kind) == {i \in DOMAIN ledger : ledger[i].kind = kind /\ ledger[i].scope = s}
EntriesOf(s, u) == {i \in Entries(s, "member") : ledger[i].user = u}

\* The last of some entries leaves x.
Leave(start, at, x) ==
    \/ at = {} /\ x = start
    \/ \E i \in at : ledger[i].becomes = x /\ \A j \in at : j <= i

(* Entries that continue one another: each one starts from what the one    *)
(* before it left, and changes it.                                         *)
Continues(start, at, now) ==
    /\ Leave(start, at, now)
    /\ \A i \in at : /\ Leave(start, {j \in at : j < i}, ledger[i].was)
                     /\ ledger[i].becomes # ledger[i].was

(* Who owned a scope when it came to be. *)
FoundedBy(s, u) ==
    \/ \E i \in Entries(s, "created") : ledger[i].by = u
    \/ Entries(s, "created") = {} /\ ledger[1].bootstrap.owner = u

StatusTold(s) == Continues("active", Entries(s, "status"), status[s])

RoleTold(s, u) ==
    Continues(IF FoundedBy(s, u) THEN "owner" ELSE "none", EntriesOf(s, u), role[s][u])

InputTold(p) ==
    \/ /\ ledger[1].bootstrap.project = p /\ ledger[1].bootstrap.input = input[p]
       /\ Entries(p, "created") = {}
    \/ \E i \in Entries(p, "created") :
          Entries(p, "created") = {i} /\ ledger[i].input = input[p]

(* The ledger alone tells the administration: the tenant was provisioned   *)
(* first and once, every other project was created once, from one input,   *)
(* and every role and status is what its entries lead to, each of which    *)
(* changed something.                                                      *)
LedgerTellsAdministration ==
    /\ \A s \in Scope : status[s] # "none" => StatusTold(s) /\ \A u \in User : RoleTold(s, u)
    /\ status[Tenant] # "none" <=> ledger # <<>>
    /\ \A i \in DOMAIN ledger : ledger[i].kind = "provisioned" <=> i = 1
    /\ \A p \in Project : input[p] # Absent => InputTold(p)

told == {session[h] : h \in {x \in Handler : session[x].step = "told"}}

(* A bootstrap is said to be in place only if it was the one that was      *)
(* applied: a second operator is never told so about another one.          *)
UnchangedMeansApplied ==
    \A a \in told : a.answer = "unchanged" => ledger[1].bootstrap = a.asked

(* The inductive invariant behind the three: a scope that does not exist   *)
(* has no members, no input and no entries; what a request was allowed for *)
(* exists; and what provisioning saw in place stays first in the ledger.   *)
Blank(s) ==
    /\ \A u \in User : role[s][u] = "none"
    /\ \A i \in DOMAIN ledger : ledger[i].scope # s
    /\ s = Tenant => \A p \in Project : status[p] = "none"

Sound(x) ==
    /\ x.step \in {"allowed", "missing"} =>
          /\ status[Tenant] # "none"
          /\ x.asked.kind # "project" => status[x.asked.scope] # "none"
    /\ x.step = "missing" => x.asked.kind = "member" /\ x.asked.becomes # "none"
    /\ \/ x.step = "snapshot" /\ x.exact
       \/ x.step = "told" /\ x.answer = "unchanged"
       => ledger # <<>> /\ ledger[1].bootstrap = x.asked

AdministrationInv ==
    /\ TypeOK /\ OwnersRemain /\ LedgerTellsAdministration
    /\ \A s \in Scope : status[s] = "none" => Blank(s)
    /\ \A p \in Project : status[p] = "none" <=> input[p] = Absent
    /\ \A h \in Handler : Sound(session[h])
=============================================================================
