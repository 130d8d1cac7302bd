------------------------------- MODULE Paging -------------------------------
(***************************************************************************)
(* Every collection of the platform is read a page at a time: the answer   *)
(* carries the items and a cursor that the client sends back, or how many  *)
(* there are in all and the client asks for those after the ones it has;   *)
(* each page is one statement over the table as it is by then.  A listing  *)
(* is an order of the rows, what the cursor keeps of the last row, and     *)
(* what other clients may do to the rows in the meantime.  Times are kept  *)
(* by PostgreSQL to the microsecond and carried by a cursor to the         *)
(* millisecond; the SQLite plane stores them as the cursor carries them.   *)
(***************************************************************************)
EXTENDS Integers, FiniteSets, Sequences

CONSTANTS Id,           \* the unique part of a row's key, a number
          Key,          \* what the rows are sorted by first: times or values
          Null,         \* a row without the value it would be sorted by
          Listing,      \* the listings explored, of those defined below
          Limit,        \* page sizes a client asks for
          MaxChanges,   \* bound: changes while a client reads
          MaxListed     \* bound: rows a client is given in all

(* Nothing is removed from a table that is read by number: neither assets, *)
(* revisions nor audit entries are ever deleted.                           *)
PagingAssumption ==
    /\ Id \subseteq Nat /\ Key \subseteq Nat /\ Null \notin Int
    /\ Listing \subseteq [order : {"id", "newest", "ascending", "descending"},
                          by : {"cursor", "offset", "counted"}, grain : Nat \ {0},
                          changes : SUBSET {"add", "move", "remove"}]
    /\ \A l \in Listing : l.by # "cursor" => l.changes \subseteq {"add", "move"}
    /\ Limit \subseteq Nat \ {0}
    /\ MaxChanges \in Nat /\ MaxListed \in Nat

\* A cursor keeps a time down to a unit of `grain` ticks of the stored time.
ById == [order |-> "id", by |-> "cursor", grain |-> 1, changes |-> {"add", "remove"}]
Newest(grain) == [order |-> "newest", by |-> "cursor", grain |-> grain, changes |-> {"add"}]
Latest(grain) == [Newest(grain) EXCEPT !.changes = {"add", "move"}]
Sorted(order, grain) == [order |-> order, by |-> "cursor", grain |-> grain,
                         changes |-> {"add", "move"}]
\* By number; `by` says if the rows are counted with the page or before it.
Numbered(by, changes) == [order |-> "newest", by |-> by, grain |-> 1, changes |-> changes]

PerMillisecond == 2   \* stands for the thousand microseconds of one

\* PostgreSQL: pages of the public and the canonical repositories.
RawObjects == Newest(PerMillisecond)
IngestionRuns == Newest(PerMillisecond)
RawLandings == Newest(PerMillisecond)
CatalogProjects == Newest(PerMillisecond)
CatalogDatasets == Newest(PerMillisecond)
Relations == Newest(PerMillisecond)
RelationCandidates == Newest(PerMillisecond)
DataModels == Newest(PerMillisecond)
ModelVersions == Newest(PerMillisecond)
VersionsOfModel == Newest(PerMillisecond)
WritebackRequests == Newest(PerMillisecond)
Assets == Latest(PerMillisecond)
Documents == Latest(PerMillisecond)
SearchResults == Latest(PerMillisecond)
\* Sorted by a property of the model, which may be a time.
ModelInstances(order, ofTimes) == Sorted(order, IF ofTimes THEN PerMillisecond ELSE 1)
TenantMembers == ById
ProjectMembers == ById
ModelSpaces == ById
SourceConnections == ById
TimeSeries == ById
WritebackEvents == ById
PipelineRunPages == ById
QualityRules == ById
DiagramExtractions == ById
MatchingEvaluations == ById
SpatialLinks == ById
CompatibilityModels == ById
CompatibilityPipelines == ById
CompatibilityRuns == ById
CompatibilityRules == ById
CompatibilityResults == ById
CompatibilityCandidates == ById
CompatibilityWritebacks == ById
CompatibilityEvents == ById
PublicDatasets == ById
PublicConnections == ById
GovernedObjectPages == ById
GovernedVersionPages == ById
GovernedEventPages == ById
AuditPages == Numbered("counted", {"add"})
RevisionPages == Numbered("counted", {"add"})

\* SQLite: the same collections of the local plane.
LocalRawObjects == Newest(1)
LocalTenants == ById
LocalProjects == ById
LocalModels == ById
LocalResults == ById
LocalSearch == ById
LocalScoped == ById
LocalObjectPages == ById
LocalVersionPages == ById
LocalEventPages == ById
LocalMembers == ById
LocalWritebackEvents == ById
LocalAuditPages == Numbered("offset", {"add"})
LocalRevisionPages == Numbered("offset", {"add"})

\* Assets are listed by name (any order serves) and offset; an upsert may
\* rename one.
AssetsByName == Numbered("offset", {"add", "move"})

ModelQueries == {ModelInstances(order, times) : order \in {"ascending", "descending"}, times \in BOOLEAN}

\* Every collection that is read in pages.
Collections ==
    {RawObjects, IngestionRuns, RawLandings, CatalogProjects, CatalogDatasets,
    Relations, RelationCandidates, DataModels, ModelVersions,
    VersionsOfModel, WritebackRequests, Assets, Documents, SearchResults,
    TenantMembers, ProjectMembers, ModelSpaces, SourceConnections,
    TimeSeries, WritebackEvents, PipelineRunPages, QualityRules,
    DiagramExtractions, MatchingEvaluations, SpatialLinks,
    CompatibilityModels, CompatibilityPipelines, CompatibilityRuns,
    CompatibilityRules, CompatibilityResults, CompatibilityCandidates,
    CompatibilityWritebacks, CompatibilityEvents, PublicDatasets,
    PublicConnections, GovernedObjectPages, GovernedVersionPages,
    GovernedEventPages, AuditPages, LocalRawObjects, LocalTenants,
    LocalProjects, LocalModels, LocalResults, LocalSearch, LocalScoped,
    LocalObjectPages, LocalVersionPages, LocalEventPages, LocalMembers,
    LocalWritebackEvents, LocalAuditPages, RevisionPages,
    LocalRevisionPages, AssetsByName} \cup ModelQueries

VARIABLES listing,   \* which of them this client reads, and
          limit,     \* how many rows at a time
          rows,      \* the table: what each row is sorted by
          cursor,    \* what the client holds: where its last page ended
          listed,    \* the rows it was given, in order
          steady,    \* rows there since it began and not changed since
          changes

vars == <<listing, limit, rows, cursor, listed, steady, changes>>

At(place) == [at |-> place, key |-> Null, id |-> 0]

\* Only the sort of a model query meets rows without the value.
Keys(l) == IF l.order = "id" THEN {0}
           ELSE IF l.order = "newest" THEN Key ELSE Key \cup {Null}

\* A row as it is read: its id and what it is sorted by.
Items == {[id |-> r, key |-> rows[r]] : r \in DOMAIN rows}

Tables == UNION {[S -> Keys(listing)] : S \in {T \in SUBSET Id : IsFiniteSet(T)}}

TypeOK ==
    /\ listing \in Listing /\ limit \in Limit
    /\ rows \in Tables
    /\ cursor \in [at : {"start", "row", "counted", "end"}, key : Nat \cup {Null}, id : Nat]
    /\ listed \in Seq([id : Id, key : Keys(listing)])
    /\ steady \subseteq DOMAIN rows
    /\ changes \in 0..MaxChanges

Init ==
    /\ listing \in Listing /\ limit \in Limit
    /\ rows \in Tables
    /\ cursor = At("start")
    /\ listed = <<>> /\ steady = DOMAIN rows /\ changes = 0

\* toISOString of the Date the driver makes of a timestamptz.
Carried(key) == IF key = Null THEN Null ELSE key - (key % listing.grain)

CursorOf(x) == [at |-> "row", key |-> Carried(x.key), id |-> x.id]

\* ORDER BY
Precedes(x, y) ==
    \/ listing.order = "id" /\ x.id < y.id
    \/ listing.order = "newest" /\ (x.key > y.key \/ (x.key = y.key /\ x.id > y.id))
    \/ /\ listing.order \in {"ascending", "descending"}
       /\ \/ x.key # Null /\ y.key = Null
          \/ x.key = y.key /\ x.id < y.id
          \/ /\ x.key # Null /\ y.key # Null
             /\ IF listing.order = "ascending" THEN x.key < y.key ELSE x.key > y.key

\* The WHERE clause the cursor adds.
Beyond(x) ==
    LET k == cursor.key
    IN \/ cursor.at = "start"
       \/ listing.order = "id" /\ x.id > cursor.id
       \/ listing.order = "newest" /\ (x.key < k \/ (x.key = k /\ x.id < cursor.id))
       \/ /\ listing.order \in {"ascending", "descending"}
          /\ \/ x.key = Null /\ k # Null
             \/ x.key = k /\ x.id > cursor.id
             \/ /\ x.key # Null /\ k # Null
                /\ IF listing.order = "ascending" THEN x.key > k ELSE x.key < k

\* Variant: one row after the page is not fetched, so a full page is the last.
HasMoreNever(batch) == Len(batch) > limit + 1

\* The statement asks for one row more than the page to know if there is more.
HasMore(batch) == Len(batch) > limit

\* The answers of a statement, in order.
InOrder(S) == {s \in [1..Cardinality(S) -> S] : \A i, j \in DOMAIN s : i < j => Precedes(s[i], s[j])}

\* LIMIT and OFFSET
Slice(seq, offset, n) ==
    [i \in {k \in 1..n : offset + k <= Len(seq)} |-> seq[offset + i]]

Upto(page, end) == /\ listed' = listed \o page
                   /\ cursor' = end

\* One page of a keyset listing: the rows beyond the cursor, in order.
FetchPage ==
    /\ listing.by = "cursor" /\ cursor.at # "end"
    /\ \E ahead \in InOrder({x \in Items : Beyond(x)}) :
          LET batch == Slice(ahead, 0, limit + 1)
              page == Slice(batch, 0, limit)
          IN /\ Len(listed) + Len(page) <= MaxListed
             /\ Upto(page, IF HasMore(batch) THEN CursorOf(page[Len(page)]) ELSE At("end"))
    /\ UNCHANGED <<listing, limit, rows, steady, changes>>

Row(r) == [id |-> r, key |-> rows[r]]

Given(r) == \E i \in DOMAIN listed : listed[i].id = r

\* How many rows are sorted before a row.
Rank(r) == Cardinality({s \in DOMAIN rows : Precedes(Row(s), Row(r))})

\* LIMIT and OFFSET: the client skips as many rows as it has.
Window == {r \in DOMAIN rows : Rank(r) >= Len(listed) /\ Rank(r) < Len(listed) + limit}

\* PostgreSQL counts revisions and audit entries in a statement of its own,
\* and others may commit before the statement that reads the page.
CountRows ==
    /\ listing.by = "counted" /\ cursor.at \in {"start", "row"}
    /\ cursor' = [At("counted") EXCEPT !.id = Cardinality(DOMAIN rows)]
    /\ UNCHANGED <<listing, limit, rows, listed, steady, changes>>

Total == IF listing.by = "counted" THEN cursor.id ELSE Cardinality(DOMAIN rows)

\* Variant: the client keeps the rows of a page that it has already.
FreshAll(S) == S

Fresh(S) == {r \in S : ~ Given(r)}

\* One page by number: the client drops the rows it has, and asks for more
\* while it has fewer than the answer says there are.
FetchOffset ==
    /\ \/ listing.by = "offset" /\ cursor.at \in {"start", "row"}
       \/ cursor.at = "counted"
    /\ \E page \in InOrder({Row(r) : r \in Fresh(Window)}) :
          Upto(page, At(IF Len(listed) + Len(page) < Total THEN "row" ELSE "end"))
    /\ UNCHANGED <<listing, limit, rows, steady, changes>>

Change(kind, newRows, r) ==
    /\ kind \in listing.changes
    /\ cursor.at \in {"row", "counted"} /\ changes < MaxChanges
    /\ rows' = newRows /\ steady' = steady \ {r}
    /\ changes' = changes + 1
    /\ UNCHANGED <<listing, limit, cursor, listed>>

\* Other clients: a row is created (its time is that of the start of its
\* transaction, which others may have overtaken), changed or removed.
Add(r, key) == /\ r \notin DOMAIN rows
               /\ Change("add", [s \in DOMAIN rows \cup {r} |-> IF s = r THEN key ELSE rows[s]], r)

Move(r, key) == /\ r \in DOMAIN rows /\ key # rows[r]
                /\ Change("move", [rows EXCEPT ![r] = key], r)

Delete(r) == /\ r \in DOMAIN rows
             /\ Change("remove", [s \in DOMAIN rows \ {r} |-> rows[s]], r)

Next == \/ FetchPage \/ CountRows \/ FetchOffset
        \/ \E r \in Id : \/ \E key \in Keys(listing) : Add(r, key) \/ Move(r, key)
                         \/ Delete(r)

Spec == Init /\ [][Next]_vars

-----------------------------------------------------------------------------
\* The rows that cursors were made of end the pages.
PageEnds == {i \in DOMAIN listed : i % limit = 0}

\* What a cursor kept of a time does not tell this row from a page's last.
AtBoundary(r) ==
    /\ listing.grain > 1 /\ rows[r] # Null
    /\ \E i \in PageEnds : Carried(listed[i].key) = Carried(rows[r])

Repeated(r) ==
    \E i, j \in DOMAIN listed : i # j /\ listed[i].id = r /\ listed[j].id = r

\* Rows before the next offset that the client was not given.
Passed == {r \in DOMAIN rows : Rank(r) < Len(listed) /\ ~ Given(r)}

(***************************************************************************)
(* Whatever others add, change or remove between two of its pages, a       *)
(* client that follows the cursors to the end is given every row that was  *)
(* there all the time, and given it once, but for the rows that share the  *)
(* millisecond of a page's last row where rows have microseconds: of these *)
(* it may miss some, read upwards it is given some again.  It never misses *)
(* a row read upwards, and is given none twice read otherwise.             *)
(***************************************************************************)
CursorsStrayAtCutsOnly ==
    listing.by = "cursor" =>
        \A r \in steady :
            /\ cursor.at = "end" /\ ~ Given(r) => AtBoundary(r) /\ listing.order # "ascending"
            /\ Repeated(r) => AtBoundary(r) /\ listing.order = "ascending"

(***************************************************************************)
(* A client that reads by number and drops the rows it has is never past   *)
(* more rows it was not given than were changed since it began (so it      *)
(* takes as many changes as a page has rows for a page to bring nothing    *)
(* new), and when it stops it has every row that was there all the time:   *)
(* where the rows are counted apart, all but as many as were changed.      *)
(***************************************************************************)
OffsetsStrayByChanges ==
    listing.by # "cursor" =>
        /\ Cardinality(Passed) <= changes
        /\ cursor.at = "end" =>
              Cardinality({r \in steady : ~ Given(r)}) <= IF listing.by = "offset" THEN 0 ELSE changes

-----------------------------------------------------------------------------
(* Why that is so.  What was given stays as it was given while its row     *)
(* does.  Of the rows given, only some of the cursor's millisecond are     *)
(* beyond the cursor, read upwards; what is not given yet is beyond it, or *)
(* shares the millisecond of a cut.                                        *)
GivenAsTheyAre ==
    \A i \in DOMAIN listed :
        listed[i].id \in steady => listed[i].key = rows[listed[i].id]

\* Given already, and beyond the cursor that was cut below it.
Again(x) == /\ listing.order = "ascending" /\ listing.grain > 1
            /\ x.key # Null /\ Carried(x.key) = cursor.key

ByCursor ==
    listing.by = "cursor" =>
        /\ cursor.at # "counted"
        /\ cursor.at = "start" => listed = <<>>
        /\ cursor.at = "row" =>
              /\ listed # <<>> /\ Len(listed) % limit = 0
              /\ cursor = CursorOf(listed[Len(listed)])
              /\ \A i \in DOMAIN listed : Beyond(listed[i]) => Again(listed[i])
        /\ \A r \in steady :
              \/ Given(r)
              \/ AtBoundary(r) /\ listing.order # "ascending"
              \/ cursor.at # "end" /\ Beyond(Row(r))
        /\ CursorsStrayAtCutsOnly

(* By number: no row is kept twice, and none of those kept goes.           *)
ByOffset ==
    listing.by # "cursor" =>
        /\ \A i, j \in DOMAIN listed : listed[i].id = listed[j].id => i = j
        /\ \A i \in DOMAIN listed : listed[i].id \in DOMAIN rows
        /\ Cardinality(DOMAIN rows \ steady) <= changes
        /\ cursor.at = "counted" => /\ listing.by = "counted"
                                    /\ Cardinality(steady) <= cursor.id
        /\ OffsetsStrayByChanges

PagingInv == TypeOK /\ GivenAsTheyAre /\ ByCursor /\ ByOffset

-----------------------------------------------------------------------------
(***************************************************************************)
(* What "stable keyset paging" says of a model query: every row that stays *)
(* is given, and given once.                                               *)
(***************************************************************************)
KeysetPagesAreStable ==
    listing.by = "cursor" =>
        \A r \in steady : (cursor.at = "end" => Given(r)) /\ ~ Repeated(r)
=============================================================================
