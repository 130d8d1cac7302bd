------------------------------- MODULE Ingest -------------------------------
(***************************************************************************)
(* Bundle ingest into one source of one project on the PostgreSQL plane:   *)
(* concurrent requests, retried with the same run id, that archive the raw *)
(* bundle, apply it in one READ COMMITTED transaction and close the        *)
(* landing record.                                                         *)
(*                                                                         *)
(* A bundle is a record [key, parent, value]: its run id, the parents it   *)
(* gives to assets (each states one) and the telemetry points it carries;  *)
(* two bundles with one key are one run id used with two payloads.  Time   *)
(* series, documents, relations and provenance rows are upserts of the     *)
(* same transaction and add no control.  What a transaction writes shows   *)
(* when it commits; until then it holds the rows, and whoever else writes  *)
(* one of them waits.                                                      *)
(***************************************************************************)
EXTENDS Naturals, FiniteSets

CONSTANTS
    Client,     \* requests in flight, each with its own connection
    Bundle, Key, Asset, Point, Value,
    NoBundle, NoValue,
    Absent,     \* the asset has no row
    Root,       \* parent_asset_id is NULL
    MaxSends,   \* bound: requests sent in all
    MaxFaults   \* bound: lost replies, failing statements, crashes

ASSUME IngestAssumption ==
    /\ NoBundle \notin Bundle
    /\ NoValue \notin Value
    /\ Absent # Root
    /\ Absent \notin Asset
    /\ Root \notin Asset
    /\ Asset \cap Point = {}
    /\ Key \cap (Asset \cup Point) = {}
    /\ MaxSends \in Nat
    /\ MaxFaults \in Nat
    /\ \A b \in Bundle :
          /\ b.key \in Key
          /\ DOMAIN b.parent \subseteq Asset
          /\ \A a \in DOMAIN b.parent : b.parent[a] \in Asset \cup {Root}
          /\ DOMAIN b.value \subseteq Point
          /\ \A p \in DOMAIN b.value : b.value[p] \in Value

VARIABLES
    phase,      \* per client: what its request does next
    job,        \* per client: the bundle it carries
    held,       \* per client: the locks of its ingest transaction
    landed,     \* per key: raw_landing_objects, the bundle archived
    lifecycle,  \* per key: event_type of the newest raw_landing_events row
    run,        \* per key: ingestion_runs.state
    payload,    \* per key: ingestion_runs.checkpoint_before.payloadHash
    value,      \* odf.time_series_points
    parent,     \* odf.assets.parent_asset_id
    answered,   \* bundles whose sender received 200 or 201
    sends, faults

request == <<phase, job, held>>
landing == <<landed, lifecycle>>
runs    == <<run, payload>>
facts   == <<value, parent>>
bounds  == <<sends, faults>>
vars    == <<request, landing, runs, facts, answered, bounds>>

Phase == {"idle", "find", "land", "begin", "assets", "points", "record", "accept", "reject"}

TypeOK ==
    /\ phase \in [Client -> Phase]
    /\ job \in [Client -> Bundle \cup {NoBundle}]
    /\ held \in [Client -> SUBSET (Key \cup Asset \cup Point)]
    /\ landed \in [Key -> Bundle \cup {NoBundle}]
    /\ lifecycle \in [Key -> {"none", "received", "accepted", "failed"}]
    /\ run \in [Key -> {"none", "failed", "succeeded"}]
    /\ payload \in [Key -> Bundle \cup {NoBundle}]
    /\ value \in [Point -> Value \cup {NoValue}]
    /\ parent \in [Asset -> Asset \cup {Root, Absent}]
    /\ answered \subseteq Bundle
    /\ sends \in 0..MaxSends
    /\ faults \in 0..MaxFaults
    \* two transactions never hold one lock, and only an open one holds any
    /\ \A c, d \in Client : c # d => held[c] \cap held[d] = {}
    /\ \A c \in Client : phase[c] \notin {"assets", "points"} => held[c] = {}
    /\ \A c \in Client : phase[c] # "idle" => job[c] \in Bundle

Init ==
    /\ phase = [c \in Client |-> "idle"]
    /\ job = [c \in Client |-> NoBundle]
    /\ held = [c \in Client |-> {}]
    /\ landed = [k \in Key |-> NoBundle]
    /\ lifecycle = [k \in Key |-> "none"]
    /\ run = [k \in Key |-> "none"]
    /\ payload = [k \in Key |-> NoBundle]
    /\ value = [p \in Point |-> NoValue]
    /\ parent = [a \in Asset |-> Absent]
    /\ answered = {}
    /\ sends = 0
    /\ faults = 0

-----------------------------------------------------------------------------
Goto(c, next) == phase' = [phase EXCEPT ![c] = next]

(* The request is over; a connection it held goes back to the pool. *)
End(c) == Goto(c, "idle") /\ job' = [job EXCEPT ![c] = NoBundle]

(* COMMIT and ROLLBACK free every lock of the transaction. *)
Release(c) == held' = [held EXCEPT ![c] = {}]

Fault == faults < MaxFaults /\ faults' = faults + 1 /\ UNCHANGED sends

Free(c, lock) == \A d \in Client \ {c} : lock \notin held[d]

(* POST /api/v1/ingest/bundle with an authorised, well-formed bundle.  *)
(* Nothing stops a client from sending one that is still being served. *)
Send(c) ==
    /\ phase[c] = "idle"
    /\ sends < MaxSends
    /\ sends' = sends + 1
    /\ \E b \in Bundle : job' = [job EXCEPT ![c] = b]
    /\ Goto(c, "find")
    /\ UNCHANGED <<held, landing, runs, facts, answered, faults>>

(* archive(): is the run landed already, and with the same bytes? *)
Find(c) ==
    /\ phase[c] = "find"
    /\ \/ /\ landed[job[c].key] \in {NoBundle, job[c]}
          /\ Goto(c, IF landed[job[c].key] = NoBundle THEN "land" ELSE "begin")
          /\ UNCHANGED job
       \/ landed[job[c].key] \notin {NoBundle, job[c]} /\ End(c)
    /\ UNCHANGED <<held, landing, runs, facts, answered, bounds>>

(* archive() after the upload: one transaction under the advisory lock of *)
(* the run, which looks again before it inserts.                          *)
Land(c) ==
    /\ phase[c] = "land"
    /\ \/ /\ landed[job[c].key] = NoBundle
          /\ landed' = [landed EXCEPT ![job[c].key] = job[c]]
          /\ lifecycle' = [lifecycle EXCEPT ![job[c].key] = "received"]
          /\ Goto(c, "begin") /\ UNCHANGED job
       \/ /\ landed[job[c].key] = job[c]
          /\ Goto(c, "begin") /\ UNCHANGED <<job, landing>>
       \/ /\ landed[job[c].key] \notin {NoBundle, job[c]}
          /\ End(c) /\ UNCHANGED landing
    /\ UNCHANGED <<held, runs, facts, answered, bounds>>

(* A database or object-store call of archive() fails, verifyBlob after *)
(* the insert included: the handler throws before its try block.        *)
ArchiveFails(c) ==
    /\ phase[c] \in {"find", "land", "begin"}
    /\ Fault
    /\ End(c)
    /\ UNCHANGED <<held, landing, runs, facts, answered>>

(* ingest() is refused before it opens its transaction. *)
Denied(c) ==
    /\ phase[c] = "begin"
    /\ Fault
    /\ Goto(c, "reject")
    /\ UNCHANGED <<job, held, landing, runs, facts, answered>>

-----------------------------------------------------------------------------
(* Variant: the transaction does not serialise on the run id. *)
BeginUnlocked(c) ==
    LET k == job[c].key
    IN  /\ phase[c] = "begin"
        /\ IF payload[k] \notin {NoBundle, job[c]} THEN Goto(c, "reject")
           ELSE IF run[k] = "succeeded" THEN Goto(c, "accept")
           ELSE Goto(c, "assets")
        /\ UNCHANGED <<job, held, landing, runs, facts, answered, bounds>>

(* BEGIN, the advisory lock of the run and the row it finds. *)
Begin(c) ==
    LET k == job[c].key
    IN  /\ phase[c] = "begin"
        /\ Free(c, k)
        /\ IF payload[k] \notin {NoBundle, job[c]} THEN Goto(c, "reject") /\ UNCHANGED held
           ELSE IF run[k] = "succeeded" THEN Goto(c, "accept") /\ UNCHANGED held
           ELSE Goto(c, "assets") /\ held' = [held EXCEPT ![c] = {k}]
        /\ UNCHANGED <<job, landing, runs, facts, answered, bounds>>

(* The rows the next statement still has to lock.  A point that is stored *)
(* already is skipped: ON CONFLICT DO NOTHING.                            *)
Wanted(c) ==
    CASE phase[c] = "begin"  -> {job[c].key}
      [] phase[c] = "assets" -> DOMAIN job[c].parent \ held[c]
      [] phase[c] = "points" -> {p \in DOMAIN job[c].value : value[p] = NoValue} \ held[c]
      [] OTHER -> {}

(* The upserts reach the next row, in the order the bundle has them: any. *)
Take(c) ==
    /\ phase[c] \in {"assets", "points"}
    /\ \E row \in Wanted(c) :
          Free(c, row) /\ held' = [held EXCEPT ![c] = @ \cup {row}]
    /\ UNCHANGED <<phase, job, landing, runs, facts, answered, bounds>>

(* What the transaction sees: the committed parents under its own. *)
Hierarchy(c) ==
    [a \in Asset |-> IF a \in DOMAIN job[c].parent THEN job[c].parent[a] ELSE parent[a]]

(* A walk along parents comes back to where it was. *)
Cyclic(f) == \E S \in SUBSET Asset : S # {} /\ \A a \in S : f[a] \in S

ParentsExist(f) == \A a \in Asset : f[a] \in Asset => f[f[a]] # Absent

(* The transaction is rolled back and the error caught by ingest(). *)
RollBack(c) == Goto(c, "record") /\ Release(c) /\ UNCHANGED job

(* The UPDATE of the parents with its foreign key, and the recursive query. *)
CheckTree(c) ==
    /\ phase[c] = "assets"
    /\ Wanted(c) = {}
    /\ LET sound == ParentsExist(Hierarchy(c)) /\ ~Cyclic(Hierarchy(c))
       IN  \/ sound /\ Goto(c, "points") /\ UNCHANGED <<job, held>>
           \/ ~sound /\ RollBack(c)
    /\ UNCHANGED <<landing, runs, facts, answered, bounds>>

(* The second statement of upsertPoints compares what is stored now. *)
Agrees(c) == \A p \in DOMAIN job[c].value : value[p] \in {NoValue, job[c].value[p]}

(* What COMMIT makes visible. *)
Apply(c) ==
    /\ value' = [p \in Point |->
          IF p \in DOMAIN job[c].value THEN job[c].value[p] ELSE value[p]]
    /\ parent' = Hierarchy(c)
    /\ run' = [run EXCEPT ![job[c].key] = "succeeded"]
    /\ payload' = [payload EXCEPT ![job[c].key] = job[c]]

Complete(c) == phase[c] = "points" /\ Wanted(c) = {}

Commit(c) ==
    /\ Complete(c) /\ Agrees(c)
    /\ Apply(c)
    /\ Goto(c, "accept") /\ Release(c)
    /\ UNCHANGED <<job, landing, answered, bounds>>

(* The transaction committed, but its connection broke before the reply. *)
CommitUnheard(c) ==
    /\ Complete(c) /\ Agrees(c)
    /\ Fault
    /\ Apply(c)
    /\ RollBack(c)
    /\ UNCHANGED <<landing, answered>>

(* "An immutable telemetry point already exists with a different value" *)
Mismatch(c) ==
    /\ Complete(c) /\ ~Agrees(c)
    /\ RollBack(c)
    /\ UNCHANGED <<landing, runs, facts, answered, bounds>>

(* Any other statement of the transaction fails. *)
Fails(c) ==
    /\ phase[c] \in {"begin", "assets", "points"}
    /\ Fault
    /\ RollBack(c)
    /\ UNCHANGED <<landing, runs, facts, answered>>

(* Variant: nobody resolves a deadlock of two open transactions. *)
GiveUpAtStart(c) ==
    /\ phase[c] = "begin"
    /\ ~Free(c, job[c].key)
    /\ RollBack(c)
    /\ UNCHANGED <<landing, runs, facts, answered, bounds>>

(* lock_timeout, or the deadlock detector picks this transaction. *)
GiveUp(c) ==
    /\ \E row \in Wanted(c) : ~Free(c, row)
    /\ RollBack(c)
    /\ UNCHANGED <<landing, runs, facts, answered, bounds>>

-----------------------------------------------------------------------------
(* Variant: the upsert has no WHERE state <> 'succeeded'. *)
RecordAlways(c) ==
    LET k == job[c].key
    IN  /\ phase[c] = "record"
        /\ Free(c, k)
        /\ run' = [run EXCEPT ![k] = "failed"]
        /\ payload' = [payload EXCEPT ![k] = IF @ = NoBundle THEN job[c] ELSE @]
        /\ Goto(c, "reject")
        /\ UNCHANGED <<job, held, landing, facts, answered, bounds>>

(* recordFailedRun: a transaction of its own, whose upsert waits for the *)
(* run's row and leaves a run that succeeded, or its payload, alone.     *)
Record(c) ==
    LET k == job[c].key
    IN  /\ phase[c] = "record"
        /\ Free(c, k)
        /\ run' = [run EXCEPT ![k] = IF @ = "succeeded" THEN @ ELSE "failed"]
        /\ payload' = [payload EXCEPT ![k] = IF run[k] = "none" THEN job[c] ELSE @]
        /\ Goto(c, "reject")
        /\ UNCHANGED <<job, held, landing, facts, answered, bounds>>

(* Its own failure is swallowed: by a fault, or by a lock_timeout. *)
RecordFails(c) ==
    /\ phase[c] = "record"
    /\ Fault \/ (~Free(c, job[c].key) /\ UNCHANGED bounds)
    /\ Goto(c, "reject")
    /\ UNCHANGED <<job, held, landing, runs, facts, answered>>

(* complete(accepted), then the 200 or 201. *)
Accept(c) ==
    /\ phase[c] = "accept"
    /\ lifecycle' = [lifecycle EXCEPT ![job[c].key] = "accepted"]
    /\ answered' = answered \cup {job[c]}
    /\ End(c)
    /\ UNCHANGED <<held, landed, runs, facts, bounds>>

(* complete(accepted) throws inside the try block. *)
AcceptFails(c) ==
    /\ phase[c] = "accept"
    /\ Fault
    /\ Goto(c, "reject")
    /\ UNCHANGED <<job, held, landing, runs, facts, answered>>

(* complete(failed), then the error goes to the sender. *)
Reject(c) ==
    /\ phase[c] = "reject"
    /\ lifecycle' = [lifecycle EXCEPT ![job[c].key] = "failed"]
    /\ End(c)
    /\ UNCHANGED <<held, landed, runs, facts, answered, bounds>>

RejectFails(c) ==
    /\ phase[c] = "reject"
    /\ Fault
    /\ End(c)
    /\ UNCHANGED <<held, landing, runs, facts, answered>>

(* The API instance dies; PostgreSQL rolls its open transaction back. *)
Crash(c) ==
    /\ phase[c] # "idle"
    /\ Fault
    /\ End(c) /\ Release(c)
    /\ UNCHANGED <<landing, runs, facts, answered>>

-----------------------------------------------------------------------------
(* What the handler does unless something breaks. *)
Step(c) ==
    \/ Find(c) \/ Land(c) \/ Begin(c)
    \/ Take(c) \/ CheckTree(c) \/ Commit(c) \/ Mismatch(c) \/ GiveUp(c)
    \/ Record(c) \/ Accept(c) \/ Reject(c)

Trouble(c) ==
    \/ ArchiveFails(c) \/ Denied(c) \/ CommitUnheard(c) \/ Fails(c)
    \/ RecordFails(c) \/ AcceptFails(c) \/ RejectFails(c) \/ Crash(c)

Next == \E c \in Client : Send(c) \/ Step(c) \/ Trouble(c)

Spec == Init /\ [][Next]_vars

(* A request that can go on does: the event loop runs it, and locks that *)
(* are not freed end in a timeout.                                       *)
FairSpec == Spec /\ \A c \in Client : WF_vars(Step(c))

-----------------------------------------------------------------------------
(* An ingestion run, failed or succeeded, is one of the bundle that was    *)
(* archived under its id before: the evidence of a run is never missing    *)
(* and never another payload's.                                            *)
RunsWereArchived ==
    \A k \in Key : run[k] # "none" => payload[k] # NoBundle /\ payload[k] = landed[k]

(* A sender that was told 200 or 201 finds its run succeeded, with its own *)
(* payload and every point of it stored, however late other attempts of    *)
(* the same run fail.                                                      *)
AnsweredIsStored ==
    \A b \in answered :
       /\ run[b.key] = "succeeded"
       /\ payload[b.key] = b
       /\ \A p \in DOMAIN b.value : value[p] = b.value[p]

(* A landing is only called accepted after its run has succeeded.  (The     *)
(* reverse is no promise: a late failure calls it failed all the same.)     *)
AcceptedMeansSucceeded ==
    \A k \in Key : lifecycle[k] = "accepted" => run[k] = "succeeded"

(* Every stored point came with a run that succeeded: a bundle that is     *)
(* refused or rolled back leaves none of its points behind.                *)
PointsHaveOrigin ==
    \A p \in Point : value[p] # NoValue =>
       \E k \in Key :
          /\ run[k] = "succeeded"
          /\ p \in DOMAIN payload[k].value
          /\ payload[k].value[p] = value[p]

(* Retries, lost replies and overlapping requests of one run make one      *)
(* entry of the ledger, and nothing else changes what is stored.           *)
Ledger == INSTANCE IngestLedger WITH
    ledger <- [k \in Key |-> IF run[k] = "succeeded" THEN payload[k] ELSE NoBundle]

ImplementsIngestLedger == Ledger!Spec

(* The check of upsertAssets, "Asset hierarchy contains a cycle": no       *)
(* sequence of accepted bundles makes an asset its own ancestor.           *)
NoCycle == ~Cyclic(parent)

(* Every request is answered, whatever locks it runs into: transactions    *)
(* that wait for each other's rows do not wait for ever.                   *)
EveryRequestEnds == \A c \in Client : phase[c] # "idle" ~> phase[c] = "idle"
=============================================================================
