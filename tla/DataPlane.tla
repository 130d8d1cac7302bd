----------------------------- MODULE DataPlane -----------------------------
(***************************************************************************)
(* Four components that keep what clients send: the SQLite ingest, the     *)
(* objects of either plane, and the model graph.  They share no state: a   *)
(* behaviour is the behaviour of one of them, named by dataPart; the       *)
(* others rest.                                                            *)
(***************************************************************************)
CONSTANTS
    \* SQLite ingest: concurrent requests, their bundles, and replays.
    IngestClient, IngestBundle, IngestKey, IngestAsset, IngestPoint,
    IngestRelation, ReplayKey, Nil, Missing, TreeRoot, AssetOf, RelationEnds,
    MaxBundleSends, MaxIngestFaults,
    \* SQLite objects: uploads of objects, and readers.
    Upload, Object, Reader, ObjectOf, MaxReads, MaxObjectFaults,
    \* PostgreSQL objects: the same uploads, with bounds of their own.
    MaxStoreReads, MaxStoreFaults,
    \* Model graph: clients, versions with their views, batches of instances.
    GraphClient, GraphVersion, GraphView, GraphInstance, Anchored, GraphBatch,
    UsedFor, Outside, NoEnd, MaxRequests, MaxGraphFaults

VARIABLES
    dataPart,
    ingestPhase, ingestJob, ingestFile, ingestRow, ingestState, replayState,
    ingestRun, bundleFile, pointValue, assetParent, relationRow,
    ingestIndexed, bundleSends, ingestFaults,
    objectPhase, objectFile, objectVersions, objectIndexed, objectReading,
    objectRecorded, objectServed, objectReads, objectFaults,
    storePhase, staged, blob, began, seenVersion, storeClock, storeVersions,
    updated, storeReading, storeRecorded, storeServed, storeReads, storeFaults,
    modelState, views, graph, batches, graphPhase, graphJob, graphRequests,
    graphFaults

ingestVars == <<ingestPhase, ingestJob, ingestFile, ingestRow, ingestState,
    replayState, ingestRun, bundleFile, pointValue, assetParent, relationRow,
    ingestIndexed, bundleSends, ingestFaults>>
objectsVars == <<objectPhase, objectFile, objectVersions, objectIndexed,
    objectReading, objectRecorded, objectServed, objectReads, objectFaults>>
storeVars == <<storePhase, staged, blob, began, seenVersion, storeClock,
    storeVersions, updated, storeReading, storeRecorded, storeServed,
    storeReads, storeFaults>>
graphVars == <<modelState, views, graph, batches, graphPhase, graphJob,
    graphRequests, graphFaults>>

-----------------------------------------------------------------------------
Ingest == INSTANCE LocalIngest WITH
    Client <- IngestClient, Bundle <- IngestBundle, Key <- IngestKey,
    Asset <- IngestAsset, Point <- IngestPoint, Relation <- IngestRelation,
    NoBundle <- Nil, NoKey <- Nil, NoValue <- Nil, Absent <- Missing,
    Root <- TreeRoot, Undefined <- Missing, EndsOf <- RelationEnds,
    MaxSends <- MaxBundleSends, MaxFaults <- MaxIngestFaults,
    phase <- ingestPhase, job <- ingestJob, file <- ingestFile,
    row <- ingestRow, state <- ingestState, replayed <- replayState,
    run <- ingestRun, payload <- bundleFile, value <- pointValue,
    parent <- assetParent, relation <- relationRow, indexed <- ingestIndexed,
    sends <- bundleSends, faults <- ingestFaults

Objects == INSTANCE LocalObjects WITH
    MaxFaults <- MaxObjectFaults,
    phase <- objectPhase, file <- objectFile, versions <- objectVersions,
    indexed <- objectIndexed, reading <- objectReading,
    recorded <- objectRecorded, served <- objectServed, reads <- objectReads,
    faults <- objectFaults

Store == INSTANCE GovernedObjects WITH
    MaxReads <- MaxStoreReads, MaxFaults <- MaxStoreFaults,
    phase <- storePhase, seen <- seenVersion, clock <- storeClock,
    versions <- storeVersions, reading <- storeReading,
    recorded <- storeRecorded, served <- storeServed, reads <- storeReads,
    faults <- storeFaults

Graph == INSTANCE ModelGraph WITH
    Client <- GraphClient, Version <- GraphVersion, View <- GraphView,
    Instance <- GraphInstance, Batch <- GraphBatch, NoBatch <- Nil,
    Absent <- Missing, MaxFaults <- MaxGraphFaults,
    state <- modelState, phase <- graphPhase, job <- graphJob,
    requests <- graphRequests, faults <- graphFaults

ASSUME DataPlaneAssumptions ==
    /\ Ingest!LocalIngestAssumption /\ Objects!LocalObjectsAssumption
    /\ Store!GovernedObjectsAssumption
    /\ Graph!ModelGraphAssumption

-----------------------------------------------------------------------------
(* A component that has no part in this behaviour. *)
IngestRest ==
    /\ ingestPhase = "unused" /\ ingestJob = "unused" /\ ingestFile = "unused"
    /\ ingestRow = "unused" /\ ingestState = "unused"
    /\ replayState = "unused" /\ ingestRun = "unused" /\ bundleFile = "unused"
    /\ pointValue = "unused" /\ assetParent = "unused"
    /\ relationRow = "unused" /\ ingestIndexed = "unused"
    /\ bundleSends = "unused" /\ ingestFaults = "unused"

ObjectsRest ==
    /\ objectPhase = "unused" /\ objectFile = "unused"
    /\ objectVersions = "unused" /\ objectIndexed = "unused"
    /\ objectReading = "unused" /\ objectRecorded = "unused"
    /\ objectServed = "unused" /\ objectReads = "unused"
    /\ objectFaults = "unused"

StoreRest ==
    /\ storePhase = "unused" /\ staged = "unused" /\ blob = "unused"
    /\ began = "unused" /\ seenVersion = "unused" /\ storeClock = "unused"
    /\ storeVersions = "unused" /\ updated = "unused"
    /\ storeReading = "unused" /\ storeRecorded = "unused"
    /\ storeServed = "unused" /\ storeReads = "unused"
    /\ storeFaults = "unused"

GraphRest ==
    /\ modelState = "unused" /\ views = "unused" /\ graph = "unused"
    /\ batches = "unused" /\ graphPhase = "unused" /\ graphJob = "unused"
    /\ graphRequests = "unused" /\ graphFaults = "unused"

DataInit ==
    /\ dataPart \in {"ingest", "objects", "store", "graph"}
    /\ IF dataPart = "ingest" THEN Ingest!Init ELSE IngestRest
    /\ IF dataPart = "objects" THEN Objects!Init ELSE ObjectsRest
    /\ IF dataPart = "store" THEN Store!Init ELSE StoreRest
    /\ IF dataPart = "graph" THEN Graph!Init ELSE GraphRest

DataNext ==
    /\ UNCHANGED dataPart
    /\ IF dataPart = "ingest" THEN Ingest!Next ELSE UNCHANGED ingestVars
    /\ IF dataPart = "objects" THEN Objects!Next ELSE UNCHANGED objectsVars
    /\ IF dataPart = "store" THEN Store!Next ELSE UNCHANGED storeVars
    /\ IF dataPart = "graph" THEN Graph!Next ELSE UNCHANGED graphVars

dataVars == <<dataPart, ingestVars, objectsVars, storeVars, graphVars>>

DataSpec == DataInit /\ [][DataNext]_dataVars

DataRest == dataPart = "none" /\ IngestRest /\ ObjectsRest /\ StoreRest /\ GraphRest

-----------------------------------------------------------------------------
(* SQLite ingest: however bundles, retries, replays, reviews, torn files   *)
(* and kills interleave, the hierarchy stays a forest, what is accepted or *)
(* indexed is backed by whole evidence, a reviewer's decision stands, and  *)
(* the tables implement the ingest ledger the PostgreSQL plane implements. *)
IngestKeepsEvidence ==
    /\ dataPart = "ingest" => Ingest!Ledger!Init
    /\ [][dataPart = "ingest" =>
            /\ Ingest!HierarchyIsForest' /\ Ingest!AcceptedIsBacked'
            /\ Ingest!KeepsDecisions
            /\ [Ingest!Ledger!Next]_(Ingest!Ledger!vars)]_ingestVars

(* SQLite objects: rows, files and search documents agree at every await   *)
(* and after every kill, and what readers get is what was uploaded.        *)
FilesFollowRows ==
    /\ dataPart = "objects" => Objects!Archive!Init
    /\ [][dataPart = "objects" =>
            /\ Objects!FilesMatchRows'
            /\ [Objects!Archive!Next]_(Objects!Archive!vars)]_objectsVars

(* PostgreSQL objects: a committed version names bytes that stay, uploads  *)
(* of one object are ordered by the lock, and readers get what was         *)
(* uploaded, after the event that says so.                                 *)
StoredIsBacked ==
    /\ dataPart = "store" => Store!Archive!Init
    /\ [][dataPart = "store" =>
            /\ Store!VersionsAreBacked' /\ Store!RefusedWereOvertaken'
            /\ [Store!Archive!Next]_(Store!Archive!vars)]_storeVars

(* Model graph: a batch is entered once and whole under its key, of a      *)
(* version that is published and has its views, and no race of two         *)
(* versions takes an instance from the model it was bound to.              *)
GraphStaysBound ==
    /\ dataPart = "graph" => Graph!Ledger!Init
    /\ [][dataPart = "graph" =>
            /\ Graph!InstancesAreBound' /\ Graph!KeepsModels
            /\ [Graph!Ledger!Next]_(Graph!Ledger!vars)]_graphVars
=============================================================================
