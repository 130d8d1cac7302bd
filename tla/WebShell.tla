------------------------------- MODULE WebShell -------------------------------
(***************************************************************************)
(* The shell of the web application: which tenant and project are chosen,  *)
(* the address, and what is loaded for them.  Answers arrive in any order, *)
(* while the user chooses, navigates, goes back or retries.  A change of   *)
(* the state and the effects it sets off are one step; whatever was asked  *)
(* for with a signal that is aborted since is not answered.                *)
(***************************************************************************)
EXTENDS Integers, SequencesExt

CONSTANTS Tenant, Project, Asset,
          NoTenant, NoProject, NoAsset, None,
          Tenants,      \* the accessible tenants, as they are listed
          ProjectsOf,   \* the projects of each, as they are listed
          FirstAsset,   \* the first asset of each project, or NoAsset
          Address,      \* the routes a user may begin with
          MaxActs,      \* bound: what the user does
          MaxFailures   \* bound: requests that fail

Scope == Tenant \X Project

AppRoute == [view : {"explorer", "other"}, tenant : Tenant \cup {NoTenant},
             project : Project \cup {NoProject}, asset : Asset \cup {NoAsset},
             search : BOOLEAN]

WebShellAssumption ==
    /\ Tenants \in Seq(Tenant) /\ Tenants # <<>> /\ IsInjective(Tenants)
    /\ ProjectsOf \in [Tenant -> Seq(Project)]
    /\ FirstAsset \in [Project -> Asset \cup {NoAsset}]
    /\ Address \subseteq AppRoute
    /\ NoTenant \notin Tenant /\ NoProject \notin Project /\ NoAsset \notin Asset
    /\ None \notin Scope /\ None \notin Scope \X Asset
    /\ {MaxActs, MaxFailures} \subseteq Nat

\* What an address says: an asset or a search in the explorer only, never
\* both, and a project only with its tenant.
Normal(r) ==
    [r EXCEPT !.asset = IF r.view = "explorer" /\ ~r.search THEN @ ELSE NoAsset,
              !.search = r.view = "explorer" /\ @,
              !.project = IF r.tenant = NoTenant THEN NoProject ELSE @]

readAppRoute(r) == Normal(r)

VARIABLES revoked,      \* the user has lost every tenant
          tenants,      \* platformTenants
          selected,     \* selectedTenantId
          projects,     \* platformProjects, each with its tenant
          context,      \* platformContext
          status,       \* of platformBootstrap
          history,      \* the addresses of the tab, and which of them is shown
          discoveries,  \* requests for the tenants
          loads,        \* requests for the projects of a tenant
          workspace,    \* what is shown and what was asked for
          explorer,     \* asset selected, snapshot, requests and loading sign
          reloads,      \* contexts whose assets are listed again, without a signal
          late,         \* for the property: such an answer chose an asset where
                        \* its context was left, or no asset is shown; or the
                        \* list was empty while an asset was being loaded
          count         \* of what the bounds limit

vars == <<revoked, tenants, selected, projects, context, status, history,
          discoveries, loads, workspace, explorer, reloads, late, count>>

TypeOK ==
    /\ revoked \in BOOLEAN /\ late \in BOOLEAN
    /\ tenants \in {<<>>, Tenants}
    /\ selected \in Tenant \cup {NoTenant} /\ projects \subseteq Scope
    /\ context \in Scope \cup {None}
    /\ status \in {"loading", "ready", "empty", "failed"}
    /\ history \in [entries : Seq(AppRoute), at : Nat] /\ history.at \in DOMAIN history.entries
    /\ discoveries \subseteq [retry : BOOLEAN, tenant : Tenant \cup {NoTenant}]
    /\ loads \subseteq [tenant : Tenant, project : Project \cup {NoProject},
                        mode : {"push", "replace", "none"}]
    /\ workspace \in [shown : Scope \cup {None}, asked : Scope \cup {None}]
    /\ explorer \in [asset : Asset \cup {NoAsset},
                     snapshot : (Scope \X Asset) \cup {None},
                     asked : (Scope \X Asset) \cup {None},
                     listing : Scope \cup {None}, busy : BOOLEAN]
    /\ reloads \subseteq Scope
    /\ count \in [acts : 0..MaxActs, failures : 0..MaxFailures]

Route == history.entries[history.at]

Init ==
    \E r \in Address :
        /\ revoked = FALSE /\ tenants = <<>> /\ projects = {} /\ context = None
        /\ status = "loading" /\ selected = readAppRoute(r).tenant
        /\ history = [entries |-> <<readAppRoute(r)>>, at |-> 1]
        /\ discoveries = {[retry |-> FALSE, tenant |-> NoTenant]}
        /\ loads = {} /\ reloads = {} /\ late = FALSE
        /\ workspace = [shown |-> None, asked |-> None]
        /\ explorer = [asset |-> readAppRoute(r).asset, snapshot |-> None, asked |-> None,
                       listing |-> None, busy |-> FALSE]
        /\ count = [acts |-> 0, failures |-> 0]

-----------------------------------------------------------------------------
(* The address: a replaced entry stays where it is, a new one takes the    *)
(* place of what was ahead, and the address one is at already is neither.  *)
Committed(h, r, mode) ==
    LET to == Normal(r)
    IN IF mode = "none" \/ to = h.entries[h.at] THEN h
       ELSE IF mode = "replace" THEN [h EXCEPT !.entries[h.at] = to]
       ELSE [entries |-> SubSeq(h.entries, 1, h.at) \o <<to>>, at |-> h.at + 1]

(* The effects of a context and a view, from a shell state e of the         *)
(* explorer: the assets are listed and the workspace is asked for again if  *)
(* the context changed, and nothing is shown where there is none.           *)
WorkspaceEffect(c) ==
    workspace' = (IF c = context THEN workspace ELSE [shown |-> None, asked |-> c])

ExplorerEffect(e, c, view, r) ==
    IF c = context /\ view = r.view THEN e
    ELSE IF view = "explorer" /\ c # None THEN [e EXCEPT !.asked = None, !.listing = c]
    ELSE [e EXCEPT !.asked = None, !.listing = None, !.snapshot = None]

\* invalidateScopedData
Invalidated == [explorer EXCEPT !.asset = NoAsset, !.snapshot = None, !.asked = None,
                                !.busy = FALSE]

\* loadExplorerAsset, for the context it was made for.
LoadAsset(e, c, asset) ==
    IF c = None THEN e ELSE [e EXCEPT !.asset = asset, !.asked = <<c, asset>>, !.busy = TRUE]

RouteOfAsset(h, c, asset) ==
    LET r == h.entries[h.at]
    IN IF c # None /\ r.view = "explorer" /\ ~r.search
       THEN Committed(h, [r EXCEPT !.asset = asset], "replace") ELSE h

\* A request for projects aborts the one before it.
OnlyLoad(l) == {l}

\* loadProjectsForTenant, up to its await.
Begin(tenant, project, mode) ==
    /\ selected' = tenant /\ projects' = {} /\ context' = None /\ status' = "loading"
    /\ loads' = OnlyLoad([tenant |-> tenant, project |-> project, mode |-> mode])
    /\ workspace' = [shown |-> None, asked |-> None]
    /\ explorer' = [Invalidated EXCEPT !.listing = None]

Acts == count.acts < MaxActs /\ count' = [count EXCEPT !.acts = @ + 1]
Fails == count.failures < MaxFailures /\ count' = [count EXCEPT !.failures = @ + 1]

\* A request is answered, or it fails.
Answered(ok) == IF ok THEN UNCHANGED count ELSE Fails

-----------------------------------------------------------------------------
(* Discovery.                                                               *)
\* The tenants arrive, of the first effect or of a retry, which asks for the
\* tenant that was selected when it was pressed.
Preferred(d) ==
    IF d.retry /\ d.tenant # NoTenant THEN d.tenant ELSE Route.tenant

TenantsArrive(d) ==
    LET wanted == Preferred(d)
        tenant == IF wanted \in Range(Tenants) THEN wanted ELSE Tenants[1]
    IN /\ tenants' = Tenants
       /\ Begin(tenant,
                IF d.retry /\ tenant # Route.tenant THEN NoProject ELSE Route.project,
                "replace")
       /\ discoveries' = discoveries \ {d}
       /\ UNCHANGED <<revoked, history, reloads, late, count>>

NoTenantsArrive(d) ==
    /\ revoked
    /\ tenants' = <<>> /\ status' = "empty"
    /\ IF d.retry
       THEN /\ selected' = NoTenant /\ projects' = {} /\ context' = None
            /\ workspace' = [shown |-> None, asked |-> None]
            /\ explorer' = [Invalidated EXCEPT !.listing = None]
       ELSE UNCHANGED <<selected, projects, context, workspace, explorer>>
    /\ discoveries' = discoveries \ {d}
    /\ UNCHANGED <<revoked, history, loads, reloads, late, count>>

TenantsFail(d) ==
    /\ Fails /\ status' = "failed" /\ discoveries' = discoveries \ {d}
    /\ UNCHANGED <<revoked, tenants, selected, projects, context, history, loads, workspace,
                   explorer, reloads, late>>

retryPlatformBootstrap ==
    /\ Acts /\ status \notin {"ready", "loading"}
    /\ status' = "loading"
    /\ discoveries' = discoveries \cup {[retry |-> TRUE, tenant |-> selected]}
    /\ UNCHANGED <<revoked, tenants, selected, projects, context, history, loads, workspace,
                   explorer, reloads, late>>

\* The projects arrive: the one that was asked for, or the first.
ProjectsArrive(l, list) ==
    LET wanted == IF l.project # NoProject THEN {p \in Range(list) : p = l.project}
                  ELSE IF list = <<>> THEN {} ELSE {list[1]}
        base == [Route EXCEPT !.tenant = l.tenant]
    IN /\ projects' = {<<l.tenant, p>> : p \in Range(list)}
       /\ IF wanted = {}
          THEN /\ status' = "empty"
               /\ history' = (IF l.project = NoProject
                              THEN Committed(history, [base EXCEPT !.project = NoProject], l.mode)
                              ELSE history)
               /\ UNCHANGED <<context, workspace, explorer>>
          ELSE LET project == CHOOSE p \in wanted : TRUE
                   scope == <<l.tenant, project>>
               IN /\ status' = "ready" /\ context' = scope
                  /\ history' = Committed(history, [base EXCEPT !.project = project], l.mode)
                  /\ WorkspaceEffect(scope)
                  /\ explorer' = ExplorerEffect(explorer, scope, Route.view, Route)
       /\ loads' = loads \ {l}
       /\ UNCHANGED <<revoked, tenants, selected, discoveries, reloads, late, count>>

ProjectsFail(l) ==
    /\ Fails /\ status' = "failed" /\ loads' = loads \ {l}
    /\ UNCHANGED <<revoked, tenants, selected, projects, context, history, discoveries,
                   workspace, explorer, reloads, late>>

\* The user loses every tenant; an answer that was on its way may still name
\* projects.
Revoke ==
    /\ ~revoked /\ revoked' = TRUE
    /\ UNCHANGED <<tenants, selected, projects, context, status, history, discoveries, loads,
                   workspace, explorer, reloads, late, count>>

-----------------------------------------------------------------------------
(* What the user does.                                                      *)
selectPlatformTenant(tenant) ==
    /\ Acts /\ status # "loading" /\ tenant \in Range(tenants) /\ tenant # selected
    /\ Begin(tenant, NoProject, "push")
    /\ UNCHANGED <<revoked, tenants, history, discoveries, reloads, late>>

selectPlatformProject(project) ==
    LET scope == <<selected, project>>
    IN /\ Acts /\ status # "loading" /\ selected # NoTenant
       /\ \E p \in projects : p[2] = project
       /\ \A t \in Tenant : context # <<t, project>>
       /\ context' = scope /\ status' = "ready"
       /\ history' = Committed(history,
              [Route EXCEPT !.tenant = selected, !.project = project], "push")
       /\ WorkspaceEffect(scope)
       /\ explorer' = ExplorerEffect(Invalidated, scope, Route.view, Route)
       /\ UNCHANGED <<revoked, tenants, selected, projects, discoveries, loads, reloads, late>>

\* Back or forward to another address of the tab: an asset it names is loaded
\* for the context there is, and the projects of its tenant are asked for.
restoreRoute(i) ==
    LET r == history.entries[i]
        kept == IF r.search THEN Invalidated
                ELSE IF r.asset # NoAsset THEN LoadAsset(explorer, context, r.asset)
                ELSE explorer
    IN /\ Acts /\ i # history.at /\ history' = [history EXCEPT !.at = i]
       /\ IF r.tenant # NoTenant
          THEN Begin(r.tenant, r.project, "none")
          ELSE /\ explorer' = ExplorerEffect(kept, context, r.view, Route)
               /\ UNCHANGED <<selected, projects, context, status, loads, workspace>>
       /\ UNCHANGED <<revoked, tenants, discoveries, reloads, late>>

\* A view that keeps the asset selected, an asset, or a search.
Visit(r, e) ==
    /\ Acts
    /\ explorer' = ExplorerEffect(e, context, r.view, Route)
    /\ history' = Committed(history, r, "push")
    /\ UNCHANGED <<revoked, tenants, selected, projects, context, status, discoveries, loads,
                   workspace, reloads, late>>

showView(view) ==
    Visit([Route EXCEPT !.view = view, !.asset = explorer.asset, !.search = FALSE], explorer)

openAsset(asset) ==
    /\ context # None
    /\ Visit([Route EXCEPT !.view = "explorer", !.asset = asset, !.search = FALSE],
             LoadAsset(explorer, context, asset))

openDataExplorer == Visit([Route EXCEPT !.view = "explorer", !.search = TRUE], Invalidated)

\* The search is closed: the first asset of the list is opened, if there is one.
clearDataExplorer(asset) ==
    /\ Acts /\ Route.search
    /\ IF asset # NoAsset /\ context # None
       THEN explorer' = LoadAsset(explorer, context, asset) ELSE UNCHANGED explorer
    /\ history' = Committed(history, [Route EXCEPT !.asset = asset, !.search = FALSE], "replace")
    /\ UNCHANGED <<revoked, tenants, selected, projects, context, status, discoveries, loads,
                   workspace, reloads, late>>

\* The asset selected is asked for again, from the pane that shows it.
retryAsset ==
    /\ Acts /\ Route.view = "explorer" /\ ~Route.search /\ explorer.asset # NoAsset
    /\ explorer' = LoadAsset(explorer, context, explorer.asset)
    /\ history' = RouteOfAsset(history, context, explorer.asset)
    /\ UNCHANGED <<revoked, tenants, selected, projects, context, status, discoveries, loads,
                   workspace, reloads, late>>

\* Something was ingested, or the list of assets is retried.
reloadAssets ==
    /\ Acts /\ context # None /\ reloads' = reloads \cup {context}
    /\ UNCHANGED <<revoked, tenants, selected, projects, context, status, history, discoveries,
                   loads, workspace, explorer, late>>

-----------------------------------------------------------------------------
(* What was asked for arrives.                                              *)
WorkspaceArrives(ok) ==
    /\ workspace.asked # None /\ Answered(ok)
    /\ workspace' = [shown |-> IF ok THEN workspace.asked ELSE None, asked |-> None]
    /\ UNCHANGED <<revoked, tenants, selected, projects, context, status, history, discoveries,
                   loads, explorer, reloads, late>>

\* The assets arrive: the asset of the address is loaded, or the first.
AssetsArrive(ok) ==
    LET c == explorer.listing
        listed == [explorer EXCEPT !.listing = None]
        asset == IF Route.asset # NoAsset THEN Route.asset ELSE FirstAsset[c[2]]
    IN /\ c # None /\ Answered(ok)
       /\ IF ok /\ ~Route.search /\ asset # NoAsset
          THEN /\ explorer' = LoadAsset(listed, c, asset)
               /\ history' = RouteOfAsset(history, c, asset)
               /\ UNCHANGED late
          ELSE /\ explorer' =
                    (IF ~ok THEN listed
                     ELSE [listed EXCEPT !.asset = NoAsset, !.snapshot = None,
                              !.busy = IF Route.search THEN FALSE ELSE @])
               /\ late' = (late \/ (ok /\ explorer.asked # None))
               /\ UNCHANGED history
       /\ UNCHANGED <<revoked, tenants, selected, projects, context, status, discoveries, loads,
                      workspace, reloads>>

\* The list asked for again arrives: the asset selected when it was asked for,
\* if it is among them, or the first, for the context of then.
AssetsAgain(c, asset) ==
    /\ asset # NoAsset /\ asset \in Asset
    /\ explorer' = LoadAsset(explorer, c, asset)
    /\ history' = RouteOfAsset(history, c, asset)
    /\ late' = (late \/ c # context \/ Route.search \/ Route.view # "explorer")
    /\ reloads' = reloads \ {c}
    /\ UNCHANGED <<revoked, tenants, selected, projects, context, status, discoveries, loads,
                   workspace, count>>

AssetsAgainFail(c) ==
    /\ Fails /\ reloads' = reloads \ {c}
    /\ UNCHANGED <<revoked, tenants, selected, projects, context, status, history, discoveries,
                   loads, workspace, explorer, late>>

SnapshotArrives(ok) ==
    /\ explorer.asked # None /\ Answered(ok)
    /\ explorer' = [explorer EXCEPT !.snapshot = IF ok THEN explorer.asked ELSE None,
                                    !.asked = None, !.busy = FALSE]
    /\ UNCHANGED <<revoked, tenants, selected, projects, context, status, history, discoveries,
                   loads, workspace, reloads, late>>

Next ==
    \/ Revoke \/ retryPlatformBootstrap \/ openDataExplorer \/ reloadAssets
    \/ retryAsset
    \/ \E d \in discoveries : TenantsArrive(d) \/ NoTenantsArrive(d) \/ TenantsFail(d)
    \/ \E l \in loads : \/ ProjectsArrive(l, ProjectsOf[l.tenant])
                        \/ revoked /\ ProjectsArrive(l, <<>>)
                        \/ ProjectsFail(l)
    \/ \E t \in Tenant : selectPlatformTenant(t)
    \/ \E p \in Project : selectPlatformProject(p)
    \/ \E i \in DOMAIN history.entries : restoreRoute(i)
    \/ \E v \in {"explorer", "other"} : showView(v)
    \/ \E a \in Asset : openAsset(a)
    \/ \E a \in Asset \cup {NoAsset} : clearDataExplorer(a)
    \/ \E ok \in BOOLEAN : WorkspaceArrives(ok) \/ AssetsArrive(ok) \/ SnapshotArrives(ok)
    \/ \E c \in reloads : AssetsAgainFail(c) \/ (\E a \in Asset : AssetsAgain(c, a))

Spec == Init /\ [][Next]_vars

-----------------------------------------------------------------------------
(* A project is chosen only among those listed for the tenant selected,     *)
(* however discovery, retries and navigation overtake each other; only one  *)
(* who lost every tenant meanwhile may have a context and no tenant.        *)
ContextIsListed ==
    context # None =>
        /\ context \in projects
        /\ context[1] = selected \/ (revoked /\ selected = NoTenant)

(* What is shown was loaded for the context there is; only the answer to a  *)
(* list that was asked for again can bring a snapshot of an earlier one.    *)
ShownForContext ==
    /\ workspace.shown \in {None, context} /\ workspace.asked \in {None, context}
    /\ explorer.listing \in {None, context}
    /\ ~late => /\ explorer.snapshot # None => explorer.snapshot[1] = context
                /\ explorer.asked # None => explorer.asked[1] = context

(* When nothing is on its way, an address that names a tenant names the one *)
(* that is worked in, and the project, if it names one.                     *)
AddressAgrees ==
    context # None /\ loads = {} /\ Route.tenant # NoTenant =>
        /\ Route.tenant = context[1] /\ Route.project \in {NoProject, context[2]}

(* Unless it says that it loads, the explorer shows the asset selected,     *)
(* and that is the one in the address; again but for such an answer, and    *)
(* for an empty list, which deselects an asset that is still loaded.        *)
AssetAgrees ==
    ~late /\ explorer.snapshot # None /\ ~explorer.busy /\ explorer.listing = None =>
        /\ explorer.asset = explorer.snapshot[2]
        /\ Route.view = "explorer" => Route.asset \in {NoAsset, explorer.asset}

(* The inductive invariant behind them: what is in an address; a request    *)
(* for projects is the only one, of the tenant selected, and until it is    *)
(* answered nothing is chosen; one made by going back is for the address    *)
(* there is; and an asset that is asked for, or shown, is the selected one. *)
SelectedIs(tenant) == tenant = selected \/ (revoked /\ selected = NoTenant)

AddressNames(asset) == Route.view = "explorer" => Route.asset \in {NoAsset, asset}

LoadsAreSound ==
    /\ \A l, m \in loads : l = m
    /\ \A l \in loads :
          /\ projects = {} /\ context = None /\ SelectedIs(l.tenant)
          /\ l.mode = "none" /\ Route.tenant # NoTenant =>
                Route.tenant = l.tenant /\ Route.project = l.project

ExplorerIsSound ==
    /\ explorer.listing # None => Route.view = "explorer"
    /\ ~late /\ explorer.asked # None =>
          /\ explorer.asset = explorer.asked[2] /\ explorer.busy
          /\ AddressNames(explorer.asset) /\ Route.view = "explorer" /\ ~Route.search
    /\ ~late /\ explorer.snapshot # None =>
          /\ Route.view = "explorer" /\ ~Route.search
          /\ explorer.busy \/ (explorer.asset = explorer.snapshot[2]
                               /\ AddressNames(explorer.asset))

WebShellInv ==
    /\ TypeOK /\ ContextIsListed /\ ShownForContext /\ AddressAgrees
    /\ \A i \in DOMAIN history.entries : Normal(history.entries[i]) = history.entries[i]
    /\ \A p \in projects : SelectedIs(p[1])
    /\ LoadsAreSound /\ ExplorerIsSound
=============================================================================
