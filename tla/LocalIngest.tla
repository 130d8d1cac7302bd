---------------------------- MODULE LocalIngest ----------------------------
(***************************************************************************)
(* Bundle ingest, relation review and replay on the embedded SQLite plane: *)
(* one Node process serves every request, so a run of synchronous SQLite   *)
(* statements is one step and requests interleave only while one of them   *)
(* waits for the file system.  The process may be killed between any two   *)
(* commits; the database and the files survive it.                         *)
(*                                                                         *)
(* A bundle is a record [key, parent, value, rel]: its run id, the parents *)
(* it gives to assets (each states one), its telemetry points, and per     *)
(* relation the [id, status] it asserts.  A point travels with its time    *)
(* series, so that its asset is what must exist.  Bundles have at most one *)
(* relation: with several, the first that fails would choose the error.    *)
(* One project and one day: the archive's path is a date and a hash.       *)
(***************************************************************************)
EXTENDS Naturals, FiniteSets

CONSTANTS
    Client,     \* requests the process serves at a time
    Bundle, Key, Asset, Point, Relation,
    ReplayKey,  \* run ids made for replays
    NoBundle, NoKey, NoValue, Absent, Root, Undefined,
    AssetOf,    \* per point: the asset of its time series
    EndsOf,     \* per relation: the assets it links
    MaxSends,   \* bound: requests in all
    MaxFaults   \* bound: process kills and failing writes

AnyKey == Key \cup ReplayKey
Asserted == UNION {{b.rel[r] : r \in DOMAIN b.rel} : b \in Bundle}

(* What a replay ingests: the archived bundle under a run id of its own. *)
Replay(b, r) == [b EXCEPT !.key = r]
Replays == {Replay(b, r) : b \in Bundle, r \in ReplayKey}

\* Run ids of replays are new; a bundle names assets, points and relations.
LocalIngestAssumption ==
    /\ Key \cap ReplayKey = {} /\ NoKey \notin ReplayKey /\ NoBundle \notin Bundle \cup Replays
    /\ Absent \notin Asset \cup {Root}
    /\ \A b \in Bundle :
          /\ b = [key |-> b.key, parent |-> b.parent, value |-> b.value, rel |-> b.rel]
          /\ b.key \in Key
          /\ DOMAIN b.parent \subseteq Asset /\ \A a \in DOMAIN b.parent : b.parent[a] \in Asset \cup {Root}
          /\ DOMAIN b.value \subseteq Point /\ DOMAIN b.rel \subseteq Relation
    /\ \A a \in Asserted : /\ a = [id |-> a.id, status |-> a.status]
                            /\ a.status \in {"proposed", "accepted", "rejected"}
    /\ IsFiniteSet(Asset) /\ MaxSends \in Nat /\ MaxFaults \in Nat

VARIABLES
    phase, job, \* per client: what its request waits for, and its bundle
    file,       \* per bundle: its archive file, none, torn or whole
    row,        \* per key: platform_raw_ingest_objects, the bundle archived
    state,      \* per key: the state column of that row
    replayed,   \* per key: last_replay_run_id
    run,        \* per key: industrial_ingestion_runs.status
    payload,    \* per key: industrial_ingestion_runs.payload_hash
    value, parent, relation,
    indexed,    \* the assets the search catalog finds
    sends, faults

request == <<phase, job>>
archive == <<file, row, state, replayed>>
facts   == <<value, parent, relation>>
plant   == <<run, payload, facts, indexed>>
bounds  == <<sends, faults>>
vars    == <<request, archive, plant, bounds>>

TypeOK ==
    /\ phase \in [Client -> {"idle", "open", "write", "compare", "land", "reread"}]
    /\ job \in [Client -> Bundle \cup {NoBundle}]
    /\ \A c \in Client : phase[c] # "idle" => job[c] \in Bundle
    /\ file \in [Bundle -> {"none", "torn", "whole"}]
    /\ row \in [Key -> Bundle \cup {NoBundle}]
    /\ state \in [Key -> {"none", "received", "accepted", "failed"}]
    /\ replayed \in [Key -> ReplayKey \cup {NoKey}]
    /\ run \in [AnyKey -> {"none", "failed", "completed"}]
    /\ payload \in [AnyKey -> Bundle \cup Replays \cup {NoBundle}]
    /\ value \in [Point -> {NoValue} \cup UNION {{b.value[p] : p \in DOMAIN b.value} : b \in Bundle}]
    /\ parent \in [Asset -> Asset \cup {Root, Absent}]
    /\ relation \in [Relation -> {Undefined} \cup [id : {a.id : a \in Asserted},
                                                   status : {"proposed", "accepted", "rejected"}]]
    /\ indexed \subseteq Asset
    /\ sends \in 0..MaxSends
    /\ faults \in 0..MaxFaults

Init ==
    /\ phase = [c \in Client |-> "idle"]
    /\ job = [c \in Client |-> NoBundle]
    /\ file = [b \in Bundle |-> "none"]
    /\ row = [k \in Key |-> NoBundle]
    /\ state = [k \in Key |-> "none"]
    /\ replayed = [k \in Key |-> NoKey]
    /\ run = [k \in AnyKey |-> "none"]
    /\ payload = [k \in AnyKey |-> NoBundle]
    /\ value = [p \in Point |-> NoValue]
    /\ parent = [a \in Asset |-> Absent]
    /\ relation = [r \in Relation |-> Undefined]
    /\ indexed = {}
    /\ sends = 0
    /\ faults = 0

-----------------------------------------------------------------------------
(* The ingest transaction of bundle b.                                     *)

Upserted(b) == [a \in Asset |-> IF a \in DOMAIN b.parent THEN b.parent[a] ELSE parent[a]]

(* Is a its own ancestor?  Chains are no longer than the assets there are. *)
OwnAncestor(tree, a) ==
    LET up[n \in 0..Cardinality(Asset)] ==
            IF n = 0 THEN {tree[a]} ELSE up[n - 1] \cup {tree[x] : x \in up[n - 1] \cap Asset}
    IN  a \in up[Cardinality(Asset)]

Cyclic(tree) == \E a \in Asset : OwnAncestor(tree, a)

(* DataIntegrityError: what the bundle refers to is not there. *)
AssetsRefused(b) ==
    LET tree == Upserted(b) IN
    \/ \E a \in DOMAIN b.parent : b.parent[a] # Root /\ tree[b.parent[a]] = Absent
    \/ Cyclic(tree)
    \/ \E p \in DOMAIN b.value : tree[AssetOf[p]] = Absent

(* ConflictError: the telemetry point exists with another value. *)
PointConflict(b) == \E p \in DOMAIN b.value : value[p] \notin {NoValue, b.value[p]}

RelationRefused(b) == \E r \in DOMAIN b.rel : \E a \in EndsOf[r] : Upserted(b)[a] = Absent

(* Variant: a decided relation is only compared by identity. *)
RelationConflictOfId(b) ==
    \E r \in DOMAIN b.rel : relation[r] # Undefined /\ relation[r].id # b.rel[r].id

(* ConflictError: the same link exists under another id, or is decided. *)
RelationConflict(b) ==
    \E r \in DOMAIN b.rel :
        relation[r] # Undefined /\ (relation[r].id # b.rel[r].id \/ relation[r].status # "proposed")

(* The primary key of another link: the INSERT itself fails. *)
IdTaken(b) ==
    \E r \in DOMAIN b.rel : \E s \in Relation \ {r} :
        relation[s] # Undefined /\ relation[s].id = b.rel[r].id

Outcome(b) ==
    IF payload[b.key] \notin {NoBundle, b} THEN "conflict"
    ELSE IF run[b.key] = "completed" THEN "completed"
    ELSE IF AssetsRefused(b) THEN "failed"
    ELSE IF PointConflict(b) THEN "conflict"
    ELSE IF RelationRefused(b) THEN "failed"
    ELSE IF RelationConflict(b) THEN "conflict"
    ELSE IF IdTaken(b) THEN "failed"
    ELSE "completed"

(* A conflict rolls back and leaves no run; any other error is recorded in *)
(* a transaction of its own.  A run completed before is not applied again. *)
Ingest(b) ==
    LET outcome == Outcome(b) IN
    /\ run' = IF outcome = "conflict" THEN run ELSE [run EXCEPT ![b.key] = outcome]
    /\ payload' = IF outcome = "conflict" THEN payload ELSE [payload EXCEPT ![b.key] = b]
    /\ IF outcome = "completed" /\ run[b.key] # "completed"
       THEN /\ parent' = Upserted(b)
            /\ value' = [p \in Point |-> IF p \in DOMAIN b.value THEN b.value[p] ELSE value[p]]
            /\ relation' = [r \in Relation |-> IF r \in DOMAIN b.rel THEN b.rel[r] ELSE relation[r]]
       ELSE UNCHANGED facts

(* indexSqliteAssets(), for every ingest that did not throw. *)
Indexed(b) == IF Outcome(b) = "completed" THEN DOMAIN b.parent ELSE {}

(* complete(): unconditional, whatever the row said before. *)
Complete(b) ==
    state' = [state EXCEPT ![b.key] = IF Outcome(b) = "completed" THEN "accepted" ELSE "failed"]

-----------------------------------------------------------------------------
Goto(c, next) == phase' = [phase EXCEPT ![c] = next]
End(c) == Goto(c, "idle") /\ job' = [job EXCEPT ![c] = NoBundle]
Spend == sends < MaxSends /\ sends' = sends + 1 /\ UNCHANGED faults
Fault == faults < MaxFaults /\ faults' = faults + 1 /\ UNCHANGED sends

(* A bundle that was never archived: archive() goes to the file system. *)
Send(c) ==
    /\ phase[c] = "idle"
    /\ Spend
    /\ \E b \in Bundle :
          /\ row[b.key] = NoBundle
          /\ job' = [job EXCEPT ![c] = b]
    /\ Goto(c, "open")
    /\ UNCHANGED <<archive, plant>>

(* A bundle archived before is ingested and its row completed at once. *)
SendAgain ==
    /\ Spend
    /\ \E b \in Bundle :
          /\ row[b.key] = b
          /\ Ingest(b)
          /\ indexed' = indexed \cup Indexed(b)
          /\ Complete(b)
    /\ UNCHANGED <<request, file, row, replayed>>

(* writeFile(wx) creates the file, and fills it afterwards. *)
Open(c) ==
    /\ phase[c] = "open"
    /\ file[job[c]] = "none"
    /\ file' = [file EXCEPT ![job[c]] = "torn"]
    /\ Goto(c, "write")
    /\ UNCHANGED <<job, row, state, replayed, plant, bounds>>

OpenExists(c) ==
    /\ phase[c] = "open"
    /\ file[job[c]] # "none"
    /\ Goto(c, "compare")
    /\ UNCHANGED <<job, archive, plant, bounds>>

Write(c) ==
    /\ phase[c] = "write"
    /\ file' = [file EXCEPT ![job[c]] = "whole"]
    /\ Goto(c, "land")
    /\ UNCHANGED <<job, row, state, replayed, plant, bounds>>

(* A write that fails leaves what it wrote behind. *)
WriteFails(c) ==
    /\ phase[c] = "write"
    /\ Fault
    /\ End(c)
    /\ UNCHANGED <<archive, plant>>

(* EEXIST: the bytes found are hashed; a torn file is an integrity error. *)
Compare(c) ==
    /\ phase[c] = "compare"
    /\ IF file[job[c]] = "whole" THEN Goto(c, "land") /\ UNCHANGED job ELSE End(c)
    /\ UNCHANGED <<archive, plant, bounds>>

(* The row this request inserts, or the one it finds in its place. *)
Landed(b) == row[b.key] \in {NoBundle, b}

(* The row, the ingest, the index and the completion follow without a wait. *)
Land(c) ==
    /\ phase[c] = "land"
    /\ IF Landed(job[c])
       THEN /\ row' = [row EXCEPT ![job[c].key] = job[c]]
            /\ Ingest(job[c])
            /\ indexed' = indexed \cup Indexed(job[c])
            /\ Complete(job[c])
       ELSE UNCHANGED <<row, state, plant>>
    /\ End(c)
    /\ UNCHANGED <<file, replayed, bounds>>

(* rebuildSqliteAssetSearchIndex(), when the process starts again. *)
Rebuild == indexed' = {a \in Asset : parent'[a] # Absent}

Kill ==
    /\ Fault
    /\ phase' = [c \in Client |-> "idle"]
    /\ job' = [c \in Client |-> NoBundle]
    /\ Rebuild

(* The process dies while requests wait, or between their commits: with *)
(* the row received, or ingested and not yet indexed or completed.      *)
KillWaiting ==
    /\ \E c \in Client : phase[c] # "idle"
    /\ UNCHANGED <<archive, run, payload, facts>>
    /\ Kill

KillLanding ==
    /\ \E c \in Client :
          /\ phase[c] = "land"
          /\ Landed(job[c])
          /\ row' = [row EXCEPT ![job[c].key] = job[c]]
          /\ state' = [state EXCEPT ![job[c].key] =
                           IF row[job[c].key] = NoBundle THEN "received" ELSE state[job[c].key]]
          /\ Ingest(job[c]) \/ UNCHANGED <<run, payload, facts>>
    /\ UNCHANGED <<file, replayed>>
    /\ Kill

(* POST .../raw/:rawId/replay reads the archived file. *)
AskReplay(c) ==
    /\ phase[c] = "idle"
    /\ Spend
    /\ \E k \in Key : row[k] # NoBundle /\ job' = [job EXCEPT ![c] = row[k]]
    /\ Goto(c, "reread")
    /\ UNCHANGED <<archive, plant>>

(* The run id is made of the time and the row's id: not used before, or   *)
(* used for the same row in the same millisecond.  markReplayed() runs    *)
(* only when ingest did not throw; the process may die in between.        *)
Reread(c) ==
    /\ phase[c] = "reread"
    /\ file[job[c]] = "whole"
    /\ \E r \in ReplayKey :
          LET b == Replay(job[c], r) IN
          /\ payload[r] \in {NoBundle, b}
          /\ Ingest(b)
          /\ indexed' = indexed \cup Indexed(b)
          /\ replayed' = IF Outcome(b) = "completed" THEN [replayed EXCEPT ![job[c].key] = r] ELSE replayed
    /\ End(c)
    /\ UNCHANGED <<file, row, state, bounds>>

KillReplaying ==
    /\ \E c \in Client, r \in ReplayKey :
          /\ phase[c] = "reread"
          /\ file[job[c]] = "whole"
          /\ payload[r] \in {NoBundle, Replay(job[c], r)}
          /\ Ingest(Replay(job[c], r))
    /\ UNCHANGED archive
    /\ Kill

(* reviewRelation(): one decision, on a proposed relation only. *)
Review ==
    /\ Spend
    /\ \E r \in Relation, decision \in {"accepted", "rejected"} :
          /\ relation[r] # Undefined
          /\ relation[r].status = "proposed"
          /\ relation' = [relation EXCEPT ![r].status = decision]
    /\ UNCHANGED <<request, archive, run, payload, value, parent, indexed>>

Next ==
    \/ SendAgain \/ KillWaiting \/ KillLanding \/ KillReplaying \/ Review
    \/ \E c \in Client :
          \/ Send(c) \/ Open(c) \/ OpenExists(c) \/ Write(c) \/ WriteFails(c)
          \/ Compare(c) \/ Land(c) \/ AskReplay(c) \/ Reread(c)

-----------------------------------------------------------------------------
(* Whatever order bundles move assets in, together or one by one, no asset *)
(* becomes its own ancestor (assertNoAssetCycles runs in each ingest).     *)
HierarchyIsForest == \A a \in Asset : ~OwnAncestor(parent, a)

(* Nothing is claimed that is not there: a landing row has its bytes whole *)
(* on disk, an accepted one a completed run of the same payload, a replay  *)
(* noted on a row is a completed run of that row's bytes, and every stored *)
(* asset is in the search catalog, across races for one run id, torn files,*)
(* kills and retries.                                                      *)
AcceptedIsBacked ==
    \A k \in Key :
        /\ row[k] # NoBundle => file[row[k]] = "whole"
        /\ state[k] = "accepted" => run[k] = "completed" /\ payload[k] = row[k]
        /\ replayed[k] # NoKey =>
              run[replayed[k]] = "completed" /\ payload[replayed[k]] = Replay(row[k], replayed[k])
        /\ indexed = {a \in Asset : parent[a] # Absent}

(* A reviewer's decision on a relation is final: no ingest, retry, replay  *)
(* or later review changes it, or moves it to another id.                  *)
KeepsDecisions ==
    \A r \in Relation :
        relation[r] # Undefined /\ relation[r].status # "proposed" => relation'[r] = relation[r]

DecisionsStand == [][KeepsDecisions]_vars

-----------------------------------------------------------------------------
(* Why that is so: what a completed run has named is there, whatever order *)
(* rows, runs and the search index were written in when the process died;  *)
(* a row keeps the bundle it was made for; a request lands a file it has   *)
(* seen whole, and replays what a row names.                               *)
RunsAreWhole ==
    /\ \A k \in AnyKey : run[k] # "none" => payload[k] # NoBundle
    /\ \A k \in AnyKey : run[k] = "completed" => \A a \in DOMAIN payload[k].parent : parent[a] # Absent

RowsAreWhole ==
    /\ \A k \in Key : row[k] # NoBundle => row[k].key = k /\ file[row[k]] = "whole"
    /\ \A c \in Client : phase[c] = "land" => file[job[c]] = "whole"
    /\ \A c \in Client : phase[c] = "reread" => row[job[c].key] = job[c]
    /\ \A k \in Key : replayed[k] # NoKey => row[k] # NoBundle
    /\ indexed = {a \in Asset : parent[a] # Absent}

IngestInv == TypeOK /\ HierarchyIsForest /\ RunsAreWhole /\ RowsAreWhole /\ AcceptedIsBacked

Ledger == INSTANCE IngestLedger WITH
    Bundle <- Bundle \cup Replays,
    Key    <- AnyKey,
    ledger <- [k \in AnyKey |-> IF run[k] = "completed" THEN payload[k] ELSE NoBundle]

(* The embedded plane keeps the promise the PostgreSQL plane makes: each   *)
(* run id, a replay's included, is entered once, whole or not at all, and  *)
(* no telemetry point entered ever changes.                                *)
ImplementsIngestLedger == Ledger!Spec
=============================================================================
