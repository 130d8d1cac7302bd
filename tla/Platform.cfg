SPECIFICATION PlatformSpec
CONSTANTS
    ann = ann  bob = bob  c1 = c1  c2 = c2  none = none  e1 = e1  e2 = e2
    User <- OneUser
    Client <- Clients
    NoClient = none
    Edit <- Edits
    MaxVersion = 3
    nothing = nothing  absent = absent  outside = outside
    src = src  rule = rule  pipe = pipe  link = link  pump = pump
    IngestClient = {"c1", "c2"}  IngestBundle <- IngestBundles  IngestKey = {"k1", "k2", "k3"}
    IngestAsset = {"x", "y"}  IngestPoint = {"p"}  IngestRelation = {"r1", "r2"}  ReplayKey = {"t1"}
    Nil = nothing  NoSetting = nothing  Null = nothing  NoneYet = nothing
    Missing = absent  NotHeld = absent  NoEntry = absent  TreeRoot = "root"  AssetOf <- PointAssets  RelationEnds <- Ends
    MaxBundleSends = 3  MaxIngestFaults = 1
    Upload = {"u1", "u2", "u3"}  Object = {"o1", "o2"}  Reader = {"r1"}  ObjectOf <- UploadedObject
    MaxReads = 2  MaxObjectFaults = 2
    CanvasUser = {"u1", "u2"}  Founder = "u1"  Browser = {"b1", "b2"}  BrowserUser <- SharedBrowser
    MemberChange <- MemberChanges  Follower = {"u2"}  Edge = {"e"}  EdgeEnds <- EdgeNodes
    CanvasBatch <- Batches  MaxCanvasChanges = 2
    ReviewRequest = {"q"}  Reviewer = {"a", "b", "c"}  Requester <- OneRequester
    Policy <- AnyPolicy  MaxRestarts = 2  MaxProbes = 1
    Entry <- Entries  Unsearched = {link}  QualityRule = {rule}  Proposal = {link}  Versions = {1, 2}
    Needs <- PipelineNeedsSource  RegistryAsset = {pump}  Title = {"t1", "t2"}
    RegistryBundle <- TitleEverywhere  Trigger <- Triggers  RunId <- FirstRun
    RegistryInput = {"i", "j"}  RegistryUser = {"u1", "u2"}  Seed <- OwnerAndEditor  MaxSteps = 4
    MaxStoreReads = 1  MaxStoreFaults = 1
    GraphClient = {"c1", "c2"}  GraphVersion = {1, 2}  GraphView = {"thing", "link"}
    GraphInstance = {"a", "b", "e", "z"}  Anchored = {"z"}  GraphBatch <- GraphBatches
    UsedFor <- NodeAndEdge  Outside = outside  NoEnd = "no end"  MaxRequests = 5  MaxGraphFaults = 1
    AdminUser = {"u", "v"}  AdminProject = {"p", "p2"}  AdminTenant = "tenant"
    ProjectInput <- Inputs  Bootstrap <- Bootstraps  AdminHandler = {"h1", "h2"}  AdminRequest <- Requests
    MaxAdminChanges = 4
    CatalogHandler = {"ha", "hb"}  Workload <- Workloads  MaxEffects = 3  MaxCatalogFaults = 1
    RowId = {1, 2, 3}  SortKey = {0, 1, 2}  Listing <- PageKinds  Limit = {1, 2}  MaxPageChanges = 2
    MaxListed = 6
    SessionRequest = {"r1", "r2", "r3"}  Connection = {"c1"}  KindOf <- OneOfEachKind
    RequestUser <- OneCaller  ProjectOf <- OneProject  SessionProject = {"p1"}
    TenantOf <- OneTenant  PartOf <- GraphOrDiscovery  MaxSessionFaults = 1  MaxSessionChanges = 1
    Source = {"sa"}  ImportRun = {"ra", "rb"}  MaxWrites = 1  MaxOthers = 1  MaxImportFaults = 1
    PanelProject = {"A", "B"}  NoProject = "none"  PanelId = {1, 2}  PanelRows <- TwoAndOneRow
    MaxPanelActs = 3  MaxPanelFailures = 1
    ShellTenant = {"A", "B"}  ShellProject = {"p", "q", "r"}  ShellAsset = {"x", "y"}  NoPlace = "-"
    Tenants <- TenantOrder  ProjectsOf <- ProjectOrder  FirstAsset <- FirstShown
    Address <- Addresses  MaxShellActs = 3  MaxShellFailures = 1
    MaxWidgets = 3  MaxComments = 1  Keep = 2  StoredCanvas <- StoredCanvases  MaxEditorActs = 2
    MaxPicks = 1  MaxSaves = 1
    PollKey = {0, 1, 2}  PollSize = 2  Node = {"n1", "n2"}  Time = {0, 1}  Column <- Columns
    Value <- Values  MaxPollChanges = 2  MaxPollFaults = 1
INVARIANTS
    WellTyped
    ActsFollowReviews
    RegistryAnswersOnce
    AdministrationIsLedgered
    CatalogAnswersOnce
    PagingStraysAtCutsOnly
    OffsetsComplete
    SessionsAreScoped
    CutoverIsExact
    PagesKeepToProject
    PollsCollectOnce
PROPERTIES
    ImplementsVersionedDocument
    IngestKeepsEvidence
    FilesFollowRows
    CanvasFollowsLedger
    StoredIsBacked
    GraphStaysBound
    
SYMMETRY ClientSymmetry
CHECK_DEADLOCK FALSE
