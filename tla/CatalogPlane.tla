--------------------------- MODULE CatalogPlane ----------------------------
(***************************************************************************)
(* Four components that register and list: the catalog of either plane,    *)
(* the paging of the collections, and the polls of the edge agent that     *)
(* page through a table.  They share no state: a behaviour is the          *)
(* behaviour of one of them, named by catalogPart; the others rest.        *)
(***************************************************************************)
CONSTANTS
    \* SQLite catalog: entries that need one another, runs, proposals, members.
    Entry, Unsearched, QualityRule, Proposal, Versions, Needs, RegistryAsset,
    Title, RegistryBundle, Trigger, RunId, RegistryInput, RegistryUser, Seed,
    NoEntry, MaxSteps,
    \* Compatibility catalog: handlers, and workloads of client requests.
    CatalogHandler, Workload, MaxEffects, MaxCatalogFaults,
    \* Paging: rows, the keys they are sorted by, the kinds of listing.
    RowId, SortKey, Null, Listing, Limit, MaxPageChanges, MaxListed,
    \* Edge connectors: a table with a sort column, nodes of a device.
    PollKey, PollSize, Node, Time, Column, Value, MaxPollChanges,
    MaxPollFaults

VARIABLES
    catalogPart,
    entryRow, asset, done, behind, index, mirror, fts, registryRun, verdict,
    registryRole, held, answers, steps,
    asked, log, catalogSession, catalogFaults,
    listing, limit, rows, cursor, listed, steady, pageChanges,
    column, pollTable, device, pollClock, checkpoint, poll, queued,
    pollChanges, pollFaults

registryVars == <<entryRow, asset, done, behind, index, mirror, fts,
    registryRun, verdict, registryRole, held, answers, steps>>
catalogVars == <<asked, log, catalogSession, catalogFaults>>
pagesVars == <<listing, limit, rows, cursor, listed, steady, pageChanges>>
pollsVars == <<column, pollTable, device, pollClock, checkpoint, poll, queued,
    pollChanges, pollFaults>>

-----------------------------------------------------------------------------
Registry == INSTANCE LocalCatalog WITH
    Rule <- QualityRule, Asset <- RegistryAsset, Bundle <- RegistryBundle,
    Input <- RegistryInput, User <- RegistryUser, Absent <- NoEntry,
    row <- entryRow, run <- registryRun, role <- registryRole

Catalog == INSTANCE Catalog WITH
    Handler <- CatalogHandler, MaxFaults <- MaxCatalogFaults,
    session <- catalogSession, faults <- catalogFaults

Pages == INSTANCE Paging WITH
    Id <- RowId, Key <- SortKey, MaxChanges <- MaxPageChanges,
    changes <- pageChanges

Polls == INSTANCE EdgeConnectors WITH
    Key <- PollKey, BatchSize <- PollSize, MaxChanges <- MaxPollChanges,
    MaxFaults <- MaxPollFaults,
    table <- pollTable, clock <- pollClock, changes <- pollChanges,
    faults <- pollFaults

ASSUME CatalogPlaneAssumptions ==
    /\ Registry!LocalCatalogAssumption /\ Catalog!CatalogAssumption
    /\ Pages!PagingAssumption
    /\ Polls!EdgeConnectorsAssumption

-----------------------------------------------------------------------------
(* A component that has no part in this behaviour. *)
RegistryRest ==
    /\ entryRow = "unused" /\ asset = "unused" /\ done = "unused"
    /\ behind = "unused" /\ index = "unused" /\ mirror = "unused"
    /\ fts = "unused" /\ registryRun = "unused" /\ verdict = "unused"
    /\ registryRole = "unused" /\ held = "unused" /\ answers = "unused"
    /\ steps = "unused"

CatalogRest ==
    /\ asked = "unused" /\ log = "unused" /\ catalogSession = "unused"
    /\ catalogFaults = "unused"

PagesRest ==
    /\ listing = "unused" /\ limit = "unused" /\ rows = "unused"
    /\ cursor = "unused" /\ listed = "unused" /\ steady = "unused"
    /\ pageChanges = "unused"

PollsRest ==
    /\ column = "unused" /\ pollTable = "unused" /\ device = "unused"
    /\ pollClock = "unused" /\ checkpoint = "unused" /\ poll = "unused"
    /\ queued = "unused" /\ pollChanges = "unused" /\ pollFaults = "unused"

CatalogPlaneInit ==
    /\ catalogPart \in {"registry", "catalog", "pages", "polls"}
    /\ IF catalogPart = "registry" THEN Registry!Init ELSE RegistryRest
    /\ IF catalogPart = "catalog" THEN Catalog!Init ELSE CatalogRest
    /\ IF catalogPart = "pages" THEN Pages!Init ELSE PagesRest
    /\ IF catalogPart = "polls" THEN Polls!Init ELSE PollsRest

CatalogPlaneNext ==
    /\ UNCHANGED catalogPart
    /\ IF catalogPart = "registry" THEN Registry!Next ELSE UNCHANGED registryVars
    /\ IF catalogPart = "catalog" THEN Catalog!Next ELSE UNCHANGED catalogVars
    /\ IF catalogPart = "pages" THEN Pages!Next ELSE UNCHANGED pagesVars
    /\ IF catalogPart = "polls" THEN Polls!Next ELSE UNCHANGED pollsVars

catalogPlaneVars == <<catalogPart, registryVars, catalogVars, pagesVars, pollsVars>>

CatalogPlaneSpec == CatalogPlaneInit /\ [][CatalogPlaneNext]_catalogPlaneVars

CatalogPlaneRest == catalogPart = "none" /\ RegistryRest /\ CatalogRest /\ PagesRest /\ PollsRest

-----------------------------------------------------------------------------
(* SQLite catalog: a search finds what the index has and every resource,   *)
(* whatever statement of the full-text mirror failed; a run's key and a    *)
(* proposal have one answer; the project keeps an owner.                   *)
RegistryAnswersOnce ==
    catalogPart = "registry" => Registry!SearchIsExact /\ Registry!OneAnswer /\ Registry!OwnerRemains

(* Catalog: what a client is told is stored and its own, however often it  *)
(* asks after a lost reply; one row per key and one decision per           *)
(* candidate; versions without gaps and once in either table.              *)
CatalogAnswersOnce ==
    catalogPart = "catalog" =>
        Catalog!AnswersAgree /\ Catalog!RecordedOnce /\ Catalog!VersionsAreTwinned

(* Polls: no row is queued twice nor passed unseen, whatever the column    *)
(* keeps of it, and no value under a time that went back.                  *)
PollsCollectOnce ==
    catalogPart = "polls" =>
        /\ Polls!RowsAreCollectedOnce /\ Polls!PassedRowsAreKnown /\ Polls!TimesGoUp

(* Paging: of the rows that stay while others write, a client that follows *)
(* the cursors misses or repeats only some that share the millisecond of a *)
(* page's last row.                                                        *)
PagingStraysAtCutsOnly == catalogPart = "pages" => Pages!CursorsStrayAtCutsOnly

(* Paging by number: a client is never past more rows it was not given     *)
(* than were changed meanwhile, and does not stop before it has every row  *)
(* that stayed, unless rows came between the count and the page.           *)
OffsetsComplete == catalogPart = "pages" => Pages!OffsetsStrayByChanges
=============================================================================
