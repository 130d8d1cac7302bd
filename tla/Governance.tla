---------------------------- MODULE Governance -----------------------------
(***************************************************************************)
(* Four components that decide who may do what, and what a process runs    *)
(* on: reviews of write-backs in SQLite, tenants and projects with their   *)
(* managers, the transactions of the pool, and the cutover.  They share no *)
(* state, so that a behaviour of their product shows nothing that theirs   *)
(* do not: a behaviour is the behaviour of one of them, named by           *)
(* governancePart; the others rest.                                        *)
(***************************************************************************)
CONSTANTS
    \* SQLite write-back: requests, people and the policies a process may have.
    ReviewRequest, Reviewer, Requester, Policy, MaxRestarts, MaxProbes,
    \* Transactions: requests of three kinds and the places of the pool.
    SessionRequest, Connection, NoSetting, KindOf, RequestUser, ProjectOf,
    SessionProject, TenantOf, PartOf, MaxSessionFaults, MaxSessionChanges,
    \* Administration: a tenant, its projects, bootstraps and managers.
    AdminUser, AdminProject, AdminTenant, ProjectInput, Bootstrap,
    AdminHandler, AdminRequest, NotHeld, MaxAdminChanges,
    \* Cutover: SQLite sources and invocations of the import.
    Source, ImportRun, MaxWrites, MaxOthers, MaxImportFaults

VARIABLES
    governancePart,
    policy, equipped, reviewState, trail, call, acts, restarts,
    schemaState, serving, grant, live, poolSession, waiting, sessionReq,
    written, unheard, entitled, sessionFaults, sessionChanges,
    scopeStatus, projectInput, scopeRole, ledger, adminSession,
    source, importFile, importRun, imports, others, sequence, early,
    importFaults

reviewsVars == <<policy, equipped, reviewState, trail, call, acts, restarts>>
sessionsVars == <<schemaState, serving, grant, live, poolSession, waiting,
    sessionReq, written, unheard, entitled, sessionFaults, sessionChanges>>
adminVars == <<scopeStatus, projectInput, scopeRole, ledger, adminSession>>
importVars == <<source, importFile, importRun, imports, others, sequence,
    early, importFaults>>

-----------------------------------------------------------------------------
Reviews == INSTANCE LocalWriteBack WITH
    Request <- ReviewRequest, User <- Reviewer,
    state <- reviewState

Sessions == INSTANCE Transactions WITH
    Request <- SessionRequest, Null <- NoSetting, UserOf <- RequestUser,
    Project <- SessionProject, MaxFaults <- MaxSessionFaults,
    MaxChanges <- MaxSessionChanges,
    schema <- schemaState, member <- grant, session <- poolSession,
    req <- sessionReq, faults <- sessionFaults, changes <- sessionChanges

Admin == INSTANCE Administration WITH
    User <- AdminUser, Project <- AdminProject, Tenant <- AdminTenant,
    Input <- ProjectInput, Handler <- AdminHandler, Asked <- AdminRequest,
    Absent <- NotHeld, MaxChanges <- MaxAdminChanges,
    status <- scopeStatus, input <- projectInput, role <- scopeRole,
    session <- adminSession

Import == INSTANCE Cutover WITH
    Run <- ImportRun, MaxFaults <- MaxImportFaults,
    file <- importFile, run <- importRun, faults <- importFaults

ASSUME GovernanceAssumptions ==
    /\ Sessions!TransactionsAssumption
    /\ Reviews!ReviewsAssumption
    /\ Import!CutoverAssumption
    /\ Admin!AdministrationAssumption

-----------------------------------------------------------------------------
(* A component that has no part in this behaviour. *)
ReviewsRest ==
    /\ policy = "unused" /\ equipped = "unused" /\ reviewState = "unused"
    /\ trail = "unused" /\ call = "unused" /\ acts = "unused"
    /\ restarts = "unused"

SessionsRest ==
    /\ schemaState = "unused" /\ serving = "unused" /\ grant = "unused"
    /\ live = "unused" /\ poolSession = "unused" /\ waiting = "unused"
    /\ sessionReq = "unused" /\ written = "unused" /\ unheard = "unused"
    /\ entitled = "unused" /\ sessionFaults = "unused"
    /\ sessionChanges = "unused"

AdminRest ==
    /\ scopeStatus = "unused" /\ projectInput = "unused"
    /\ scopeRole = "unused" /\ ledger = "unused" /\ adminSession = "unused"

ImportRest ==
    /\ source = "unused" /\ importFile = "unused" /\ importRun = "unused"
    /\ imports = "unused" /\ others = "unused" /\ sequence = "unused"
    /\ early = "unused" /\ importFaults = "unused"

GovernanceInit ==
    /\ governancePart \in {"reviews", "sessions", "admin", "import"}
    /\ IF governancePart = "reviews" THEN Reviews!Init ELSE ReviewsRest
    /\ IF governancePart = "sessions" THEN Sessions!Init ELSE SessionsRest
    /\ IF governancePart = "admin" THEN Admin!Init ELSE AdminRest
    /\ IF governancePart = "import" THEN Import!Init ELSE ImportRest

GovernanceNext ==
    /\ UNCHANGED governancePart
    /\ IF governancePart = "reviews" THEN Reviews!Next ELSE UNCHANGED reviewsVars
    /\ IF governancePart = "sessions" THEN Sessions!Next ELSE UNCHANGED sessionsVars
    /\ IF governancePart = "admin" THEN Admin!Next ELSE UNCHANGED adminVars
    /\ IF governancePart = "import" THEN Import!Next ELSE UNCHANGED importVars

governanceVars == <<governancePart, reviewsVars, sessionsVars, adminVars, importVars>>

GovernanceSpec == GovernanceInit /\ [][GovernanceNext]_governanceVars

GovernanceRest == governancePart = "none" /\ ReviewsRest /\ SessionsRest /\ AdminRest /\ ImportRest

-----------------------------------------------------------------------------
(* SQLite write-back: the plant is acted upon at most once for a request,  *)
(* through restarts that change the policy, after a start that enough      *)
(* people other than the requester had approved and nobody rejected; and a *)
(* review that is enough settles the request.                              *)
ActsFollowReviews ==
    governancePart = "reviews" => Reviews!ActsAreCovered /\ Reviews!ReviewsSettle

(* Administration: tenant and projects keep an owner through every race of *)
(* two managers, the ledger tells roles, statuses and creations, and       *)
(* "unchanged" is said of the bootstrap that was applied.                  *)
AdministrationIsLedgered ==
    governancePart = "admin" =>
        Admin!OwnersRemain /\ Admin!LedgerTellsAdministration /\ Admin!UnchangedMeansApplied

(* Transactions: no request leaves anything behind on a pooled connection, *)
(* nothing is committed or listed for a user without the role, and a       *)
(* process that answers has the tables it attested.                        *)
SessionsAreScoped ==
    governancePart = "sessions" =>
        Sessions!NothingCarriesOver /\ Sessions!RoleWasHeld /\ Sessions!ServesWhatIsThere

(* Cutover: at most one whole source is applied, through retries, a second *)
(* operator and a late writer; the audit sequence is beyond what was       *)
(* imported; and a rehearsal leaves nothing behind.                        *)
CutoverIsExact ==
    governancePart = "import" =>
        Import!TargetHoldsOneSource /\ Import!NextIdIsFree /\ Import!RehearsalsLeaveNoTrace
=============================================================================
