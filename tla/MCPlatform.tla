----------------------------- MODULE MCPlatform -----------------------------
(***************************************************************************)
(* The instance of the platform for TLC: the workspace document and the     *)
(* components of WebPlane, Governance, DataPlane and CatalogPlane.  They    *)
(* share no state, so that a behaviour of their product shows nothing that  *)
(* theirs do not: a behaviour here is the behaviour of one of them, named   *)
(* by `part'; the others rest.                                              *)
(***************************************************************************)
EXTENDS WorkspaceDocument, WebPlane, Governance, DataPlane, CatalogPlane, TLC

CONSTANTS
    ann, bob, c1, c2, none, e1, e2,     \* of the workspace document
    nothing, absent, outside, src, rule, pipe, link, pump

\* The workspace document: two clients of one user.
OneUser == {ann}
Clients == {c1, c2}
Edits == {e1, e2}
ClientSymmetry == Permutations(Clients)

-----------------------------------------------------------------------------
(* Bundles that contradict one another in a parent, a point or a relation. *)
None == [a \in {} |-> absent]
Asserts(r, status) == (r :> [id |-> "i", status |-> status])

IngestBundles == {
    [key |-> "k1", parent |-> ("x" :> "root" @@ "y" :> "x"), value |-> ("p" :> 1),
     rel |-> Asserts("r1", "proposed")],
    [key |-> "k1", parent |-> ("x" :> "y" @@ "y" :> "root"), value |-> None, rel |-> None],
    [key |-> "k2", parent |-> ("x" :> "y"), value |-> ("p" :> 2), rel |-> None],
    [key |-> "k3", parent |-> ("x" :> "y" @@ "y" :> "root"), value |-> None,
     rel |-> Asserts("r1", "accepted")],
    [key |-> "k2", parent |-> None, value |-> None, rel |-> Asserts("r2", "proposed")]}

PointAssets == [p \in {"p"} |-> "y"]
Ends == [r \in {"r1", "r2"} |-> IF r = "r1" THEN {"x", "y"} ELSE {"y"}]

(* Objects in either store: two uploads of one and one of another. *)
UploadedObject == [u \in {"u1", "u2", "u3"} |-> IF u = "u3" THEN "o2" ELSE "o1"]

(* The canvas: its founder, a second user who may join and manage, a stream. *)
MemberChanges == {[user |-> "u2", becomes |-> "owner"],
                  [user |-> "u2", becomes |-> "none"], [user |-> "u1", becomes |-> "none"]}
Does(op, id, look) == [op |-> op, id |-> id, look |-> look]
Batches == {<<Does("add", "n", "plain"), Does("add", "e", "plain")>>,
            <<Does("add", "m", "plain"), Does("update", "m", "bold")>>,
            <<Does("remove", "n", "plain")>>}

SharedBrowser == [c \in {"b1", "b2"} |-> IF c = "b1" THEN {"u1"} ELSE {"u1", "u2"}]
EdgeNodes == [e \in {"e"} |-> {"n"}]

(* Write-back: a request, three people, any policy, an executor or none. *)
OneRequester == [r \in {"q"} |-> "a"]
AnyPolicy == [{"q"} -> 0..2]

(* A source, an enabled rule, a pipeline, a candidate and two model versions. *)
Nightly == [pipeline |-> pipe, key |-> "k"]

Entries == {src, rule, pipe, link, 1, 2}
PipelineNeedsSource == [e \in {src, rule, pipe, link, 1, 2} |-> IF e = pipe THEN {src} ELSE {}]
TitleEverywhere == [b \in {"t1", "t2"} |-> [a \in {pump} |-> b]]
Triggers == {Nightly}
FirstRun == [t \in {Nightly} |-> 1]
OwnerAndEditor == [u \in {"u1", "u2"} |-> IF u = "u1" THEN "owner" ELSE "editor"]

-----------------------------------------------------------------------------
(* Batches that share a key, an instance, or turn a node into an edge. *)
Thing(v) == [version |-> v, view |-> "thing", source |-> "no end", target |-> "no end"]
Arc(v, s, t) == [version |-> v, view |-> "link", source |-> s, target |-> t]
Of(v, key, items) == [key |-> <<v, key>>, version |-> v, items |-> items]
GraphBatches == {
    Of(1, "k1", "a" :> Thing(1) @@ "b" :> Thing(1) @@ "e" :> Arc(1, "a", "b")),
    Of(1, "k1", "a" :> Thing(1)), Of(1, "k2", "a" :> Arc(1, "b", "b")),
    Of(1, "k3", "e" :> Arc(1, "z", "b")), Of(2, "k1", "a" :> Thing(2))}

NodeAndEdge == [v \in {"thing", "link"} |-> IF v = "thing" THEN "node" ELSE "edge"]

(* Administration: two owners, two bootstraps, two projects. *)
First == [slug |-> "s1", name |-> "n"]
Second == [slug |-> "s2", name |-> "m"]
Bootstraps == {[project |-> "p", input |-> First, owner |-> u] : u \in {"u", "v"}}
Member(by, u, r) ==
    [kind |-> "member", by |-> by, scope |-> "tenant", user |-> u, becomes |-> r]
Requests ==
    {Member("u", "v", "owner"), Member("v", "u", "none"), Member("u", "v", "viewer")}
    \cup {[kind |-> "status", by |-> "u", scope |-> s, becomes |-> "suspended"] :
             s \in {"tenant", "p"}}
    \cup {[kind |-> "project", by |-> "u", scope |-> "p2", input |-> Second],
          [kind |-> "project", by |-> "v", scope |-> "p2", input |-> First]}

Inputs == {First, Second}

(* Workloads whose requests share a key, a name or a parent. *)
Asks(kind, id, of, n) == [kind |-> kind, id |-> id, of |-> of, input |-> n]
Workloads == {
    {Asks("source", "s", "none", 1), Asks("source", "s", "none", 2),
     Asks("connector", "c", "s", 1), Asks("connector", "s", "s", 1)},
    {Asks("dataset", "d", "none", 1), Asks("dataset", "d", "none", 2),
     Asks("project", "p", "none", 1), Asks("rename", "none", "p", 2),
     Asks("pipeline", "q", "none", 1)},
    {Asks("rule", "r", "none", 1), Asks("run", "k", "none", 1),
     Asks("run", "k", "none", 2)},
    {Asks("candidate", "x", "none", 1), Asks("decision", "none", "x", 1),
     Asks("decision", "none", "x", 2)},
    {Asks("model", "none", "m", 1), Asks("graph", "none", "m", 2),
     Asks("graph", "none", "m", 1)},
    {Asks("append", "v", "l", 1), Asks("append", "w", "l", 1),
     Asks("append", "v", "l", 2), Asks("result", "y", "none", 1)}}

(* Paging: a listing of every kind there is, up to three rows that share    *)
(* times.                                                                   *)
ByNumber(by, changes) == [order |-> "newest", by |-> by, grain |-> 1, changes |-> changes]
ByTime(grain, changes) == [order |-> "newest", by |-> "cursor", grain |-> grain, changes |-> changes]
SortedBy(order, grain) == [order |-> order, by |-> "cursor", grain |-> grain,
                           changes |-> {"add", "move"}]
PageKinds == {[order |-> "id", by |-> "cursor", grain |-> 1, changes |-> {"add", "remove"}],
              ByNumber("offset", {"add"}), ByNumber("offset", {"add", "move"}),
              ByNumber("counted", {"add"}), ByTime(1, {"add"}), ByTime(2, {"add"}),
              ByTime(1, {"add", "move"}), ByTime(2, {"add", "move"})}
             \cup {SortedBy(order, grain) : order \in {"ascending", "descending"}, grain \in {1, 2}}

(* Sessions and schema: one pooled connection, three kinds of request. *)
OneOfEachKind == "r1" :> "work" @@ "r2" :> "projects" @@ "r3" :> "tenants"
OneCaller == [r \in {"r1", "r2", "r3"} |-> "u1"]
OneProject == [r \in {"r1", "r2", "r3"} |-> "p1"]
OneTenant == [p \in {"p1"} |-> "t1"]
GraphOrDiscovery == "r1" :> "graph" @@ "r2" :> "discovery" @@ "r3" :> "discovery"

-----------------------------------------------------------------------------
(* The web application: panels of every workspace, two projects that use the *)
(* same ids; the shell with two tenants, one of them with two projects.      *)
TwoAndOneRow == [p \in {"A", "B"} |-> IF p = "A" THEN {1, 2} ELSE {1}]

PageAt(view, tenant, project, shows) ==
    [view |-> view, tenant |-> tenant, project |-> project, asset |-> shows, search |-> FALSE]

TenantOrder == <<"A", "B">>
ProjectOrder == [t \in {"A", "B"} |-> IF t = "A" THEN <<"p", "q">> ELSE <<"r">>]
FirstShown == [p \in {"p", "q", "r"} |-> IF p = "r" THEN "-" ELSE "x"]
Addresses == {PageAt("other", "-", "-", "-"), PageAt("explorer", "B", "p", "x"),
              PageAt("explorer", "A", "p", "x")}

(* The canvas editor: two joined widgets are stored. *)
Card(text) == [look |-> 0, locked |-> FALSE,
               data |-> [text |-> text, card |-> "idle", file |-> FALSE]]
TwoCards == [widgets |-> <<Card(1), Card(0)>>, links |-> {<<1, 2>>}, comments |-> <<>>, view |-> 0]

StoredCanvases == {TwoCards}

(* Polls: a column read as it is, one cut below its precision, one that the *)
(* agent orders otherwise; values with and without timestamps.              *)
AsItIs == <<0, 1, 2>>
ReadAs(keeps, ranks) ==
    [stored |-> [k \in 0..2 |-> keeps[k + 1]], rank |-> [k \in 0..2 |-> ranks[k + 1]]]
Given(at, server, usable) == [source |-> at, server |-> server, usable |-> usable]

Columns == {ReadAs(AsItIs, AsItIs), ReadAs(<<0, 0, 2>>, AsItIs), ReadAs(AsItIs, <<0, 2, 1>>)}
Values == {Given(1, 0, TRUE), Given(nothing, 0, TRUE), Given(nothing, nothing, TRUE),
           Given(1, nothing, FALSE)}

-----------------------------------------------------------------------------
VARIABLE part

(* The listings that the source has are among those that are checked. *)
ASSUME EveryListingIsChecked == Pages!Collections \subseteq Listing

PlatformInit ==
    /\ part \in {"document", "web", "governance", "data", "catalog"}
    /\ Init /\ (part # "document" => access = [u \in User |-> "edit"])
    /\ IF part = "web" THEN WebInit ELSE WebPlaneRest
    /\ IF part = "governance" THEN GovernanceInit ELSE GovernanceRest
    /\ IF part = "data" THEN DataInit ELSE DataRest
    /\ IF part = "catalog" THEN CatalogPlaneInit ELSE CatalogPlaneRest

PlatformNext ==
    /\ UNCHANGED part
    /\ IF part = "document" THEN Next ELSE UNCHANGED vars
    /\ IF part = "web" THEN WebNext ELSE UNCHANGED webVars
    /\ IF part = "governance" THEN GovernanceNext ELSE UNCHANGED governanceVars
    /\ IF part = "data" THEN DataNext ELSE UNCHANGED dataVars
    /\ IF part = "catalog" THEN CatalogPlaneNext ELSE UNCHANGED catalogPlaneVars

platformVars == <<part, vars, webVars, governanceVars, dataVars, catalogPlaneVars>>

PlatformSpec == PlatformInit /\ [][PlatformNext]_platformVars

-----------------------------------------------------------------------------
(* Every variable of every component keeps its type. *)
WellTyped ==
    /\ part = "document" => TypeOK
    /\ webPart = "canvas" => Canvas!TypeOK
    /\ webPart = "panels" => Panels!TypeOK
    /\ webPart = "shell" => Shell!TypeOK
    /\ webPart = "editor" => Editor!TypeOK
    /\ governancePart = "reviews" => Reviews!TypeOK
    /\ governancePart = "sessions" => Sessions!TypeOK
    /\ governancePart = "admin" => Admin!TypeOK
    /\ governancePart = "import" => Import!TypeOK
    /\ dataPart = "ingest" => Ingest!TypeOK
    /\ dataPart = "objects" => Objects!TypeOK
    /\ dataPart = "store" => Store!TypeOK
    /\ dataPart = "graph" => Graph!TypeOK
    /\ catalogPart = "registry" => Registry!TypeOK
    /\ catalogPart = "catalog" => Catalog!TypeOK
    /\ catalogPart = "pages" => Pages!TypeOK
    /\ catalogPart = "polls" => Polls!TypeOK
=============================================================================
