------------------------------ MODULE WebPlane ------------------------------
(***************************************************************************)
(* What people work with in a browser: the workspace of the embedded       *)
(* SQLite plane, and the lists, the shell and the canvas editor of the web *)
(* application.  They share no state, so that a behaviour of their product *)
(* shows nothing that theirs do not: a behaviour is the behaviour of one   *)
(* of them, named by webPart; the others rest.                             *)
(***************************************************************************)
CONSTANTS
    \* SQLite workspace: its founder, the other users, event streams.
    CanvasUser, Founder, Browser, BrowserUser, MemberChange, Follower, Edge,
    EdgeEnds, CanvasBatch, NoneYet, MaxCanvasChanges,
    \* Web panels: the projects and the rows each of them has.
    PanelProject, NoProject, PanelId, PanelRows, MaxPanelActs,
    MaxPanelFailures,
    \* Web shell: tenants, projects, assets and addresses in order.
    ShellTenant, ShellProject, ShellAsset, NoPlace, Tenants, ProjectsOf,
    FirstAsset, Address, MaxShellActs, MaxShellFailures,
    \* Canvas editor: what was stored, and its limits.
    MaxWidgets, MaxComments, Keep, StoredCanvas, MaxEditorActs, MaxPicks,
    MaxSaves

VARIABLES
    webPart,
    canvasRole, canvasVersion, canvasSnapshot, canvasRevisions, audit,
    request, canvasStream,
    panel, panelTable, scope, shown, next, flags, busy, issue, form, inflight,
    tale, panelCount,
    revoked, tenants, selected, projects, context, shellStatus, history,
    discoveries, loads, workspace, explorer, reloads, shellLate, shellCount,
    open, canvas, stored, timer, undoStack, redoStack, historyEntries,
    selection, tool, gesture, clipboard, editorLate, stray, editorCount

canvasVars == <<canvasRole, canvasVersion, canvasSnapshot, canvasRevisions,
    audit, request, canvasStream>>
panelsVars == <<panel, panelTable, scope, shown, next, flags, busy, issue,
    form, inflight, tale, panelCount>>
shellVars == <<revoked, tenants, selected, projects, context, shellStatus,
    history, discoveries, loads, workspace, explorer, reloads, shellLate,
    shellCount>>
editorVars == <<open, canvas, stored, timer, undoStack, redoStack,
    historyEntries, selection, tool, gesture, clipboard, editorLate, stray,
    editorCount>>

-----------------------------------------------------------------------------
Canvas == INSTANCE LocalWorkspace WITH
    User <- CanvasUser, Client <- Browser, UserOf <- BrowserUser,
    EndsOf <- EdgeEnds, Batch <- CanvasBatch, NoSnapshot <- NoneYet,
    MaxChanges <- MaxCanvasChanges,
    role <- canvasRole, version <- canvasVersion, snapshot <- canvasSnapshot,
    revisions <- canvasRevisions, stream <- canvasStream

Panels == INSTANCE WebPanels WITH
    Project <- PanelProject, Id <- PanelId, Rows <- PanelRows,
    NoCursor <- NoneYet, MaxActs <- MaxPanelActs,
    MaxFailures <- MaxPanelFailures,
    table <- panelTable, count <- panelCount

Shell == INSTANCE WebShell WITH
    Tenant <- ShellTenant, Project <- ShellProject, Asset <- ShellAsset,
    NoTenant <- NoPlace, NoProject <- NoPlace, NoAsset <- NoPlace,
    None <- NoneYet, MaxActs <- MaxShellActs, MaxFailures <- MaxShellFailures,
    status <- shellStatus, late <- shellLate, count <- shellCount

Editor == INSTANCE CanvasEditor WITH
    Stored <- StoredCanvas, None <- NoneYet, MaxActs <- MaxEditorActs,
    late <- editorLate, count <- editorCount

ASSUME WebPlaneAssumptions ==
    /\ Canvas!LocalWorkspaceAssumption
    /\ Panels!WebPanelsAssumption
    /\ Shell!WebShellAssumption
    /\ Editor!CanvasEditorAssumption

-----------------------------------------------------------------------------
(* A component that has no part in this behaviour. *)
CanvasRest ==
    /\ canvasRole = "unused" /\ canvasVersion = "unused"
    /\ canvasSnapshot = "unused" /\ canvasRevisions = "unused"
    /\ audit = "unused" /\ request = "unused" /\ canvasStream = "unused"

PanelsRest ==
    /\ panel = "unused" /\ panelTable = "unused" /\ scope = "unused"
    /\ shown = "unused" /\ next = "unused" /\ flags = "unused"
    /\ busy = "unused" /\ issue = "unused" /\ form = "unused"
    /\ inflight = "unused" /\ tale = "unused" /\ panelCount = "unused"

ShellRest ==
    /\ revoked = "unused" /\ tenants = "unused" /\ selected = "unused"
    /\ projects = "unused" /\ context = "unused" /\ shellStatus = "unused"
    /\ history = "unused" /\ discoveries = "unused" /\ loads = "unused"
    /\ workspace = "unused" /\ explorer = "unused" /\ reloads = "unused"
    /\ shellLate = "unused" /\ shellCount = "unused"

EditorRest ==
    /\ open = "unused" /\ canvas = "unused" /\ stored = "unused"
    /\ timer = "unused" /\ undoStack = "unused" /\ redoStack = "unused"
    /\ historyEntries = "unused" /\ selection = "unused" /\ tool = "unused"
    /\ gesture = "unused" /\ clipboard = "unused" /\ editorLate = "unused"
    /\ stray = "unused" /\ editorCount = "unused"

WebInit ==
    /\ webPart \in {"canvas", "panels", "shell", "editor"}
    /\ IF webPart = "canvas" THEN Canvas!Init ELSE CanvasRest
    /\ IF webPart = "panels" THEN Panels!Init ELSE PanelsRest
    /\ IF webPart = "shell" THEN Shell!Init ELSE ShellRest
    /\ IF webPart = "editor" THEN Editor!Init ELSE EditorRest

WebNext ==
    /\ UNCHANGED webPart
    /\ IF webPart = "canvas" THEN Canvas!Next ELSE UNCHANGED canvasVars
    /\ IF webPart = "panels" THEN Panels!Next ELSE UNCHANGED panelsVars
    /\ IF webPart = "shell" THEN Shell!Next ELSE UNCHANGED shellVars
    /\ IF webPart = "editor" THEN Editor!Next ELSE UNCHANGED editorVars

webVars == <<webPart, canvasVars, panelsVars, shellVars, editorVars>>

WebSpec == WebInit /\ [][WebNext]_webVars

WebPlaneRest == webPart = "none" /\ CanvasRest /\ PanelsRest /\ ShellRest /\ EditorRest

-----------------------------------------------------------------------------
(* SQLite workspace: the audit ledger alone gives the versions and the     *)
(* members, there is always an owner, each open event stream follows the   *)
(* ledger, and no editor's version is overwritten by another's.            *)
CanvasFollowsLedger ==
    [][webPart = "canvas" /\ ~UNCHANGED <<canvasRole, canvasVersion, canvasSnapshot,
                                         canvasRevisions, audit, canvasStream>> =>
         /\ Canvas!LedgerTellsWorkspace' /\ Canvas!StreamsFollowLedger'
         /\ Canvas!KeepsEdits]_canvasVars

(* Web application: a list shows rows of its own project, all that it has  *)
(* passed, and waits for nothing nobody asked for; a form keeps what was   *)
(* typed; the tenant, the project, the address and what is shown agree:    *)
(* however answers overtake switches, navigation, retries and one another. *)
PagesKeepToProject ==
    /\ webPart = "panels" => /\ Panels!ShowsItsProject /\ Panels!ShowsAllItPassed
                          /\ Panels!WaitsForSomething /\ Panels!KeyedFormsKeepText
    /\ webPart = "shell" => /\ Shell!ContextIsListed /\ Shell!ShownForContext
                         /\ Shell!AddressAgrees /\ Shell!AssetAgrees

(* Canvas editor: connectors and comments have their widgets in every copy *)
(* that can come back, "Saved" is said of what is stored, and what was     *)
(* there before a change can be brought back, also one made in a drag.     *)
CanvasKeepsWork ==
    [][webPart = "editor" =>
         /\ Editor!EndsAreThere' /\ Editor!SavedIsStored'
         /\ Editor!ChangesCanBeUndone]_editorVars
=============================================================================
