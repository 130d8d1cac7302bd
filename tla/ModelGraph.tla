----------------------------- MODULE ModelGraph -----------------------------
(***************************************************************************)
(* One data model on the PostgreSQL plane: its versions and their views,   *)
(* and the instance graph that batches upsert.  A request is one READ      *)
(* COMMITTED transaction; an action is a statement, or a run of statements *)
(* whose reads no other transaction can change in between.                 *)
(*                                                                         *)
(* A batch is a record [key, version, items]: its idempotency key with its *)
(* model version, and per instance the view it is bound to and, for edges, *)
(* its ends.  The instance's kind is what its view is used for.  Instance  *)
(* properties, and the direct references among them, are left out.         *)
(***************************************************************************)
EXTENDS Naturals, FiniteSets

CONSTANTS
    Client,         \* connections that serve requests
    Version, View, Instance,
    Batch,          \* what clients upsert
    Anchored,       \* instances outside any model, made by other components
    UsedFor,        \* per view: "node" or "edge"
    NoBatch, Absent, Outside, NoEnd,
    MaxRequests,    \* bound: requests in all
    MaxFaults       \* bound: statements that fail, COMMITs not answered

Item == [version : Version, view : View, source : Instance \cup {NoEnd}, target : Instance \cup {NoEnd}]

\* A batch is of one version; what is no item of a model is told from items.
ModelGraphAssumption ==
    /\ Anchored \subseteq Instance /\ NoBatch \notin Batch
    /\ Absent \notin Item /\ Outside \notin Item /\ Absent # Outside
    /\ \A b \in Batch :
          /\ b.version \in Version /\ DOMAIN b.items \subseteq Instance
          /\ \A i \in DOMAIN b.items : b.items[i] \in Item /\ b.items[i].version = b.version
    /\ MaxRequests \in Nat /\ MaxFaults \in Nat

VARIABLES
    state,          \* per version: none, draft or published
    views,          \* per version: its model_views
    graph,          \* per instance: graph_instances, committed
    batches,        \* per idempotency key: model_graph_batch_keys
    phase, job,     \* per client: its transaction and what it is about
    requests, faults

tables == <<state, views, graph, batches>>
vars   == <<tables, phase, job, requests, faults>>

BatchKey == {b.key : b \in Batch}
Idle == [step |-> "idle"]

TypeOK ==
    /\ state \in [Version -> {"none", "draft", "published"}]
    /\ views \in [Version -> SUBSET View]
    /\ graph \in [Instance -> Item \cup {Absent, Outside}]
    /\ batches \in [BatchKey -> Batch \cup {NoBatch}]
    /\ phase \in [Client -> {"idle", "adding", "publishing", "opened", "checked", "written"}]
    /\ job = [c \in Client |-> job[c]]
    /\ \A c \in Client :
          /\ phase[c] \in {"opened", "checked", "written"} => job[c] \in Batch
          /\ phase[c] = "adding" => job[c] \in Version \X View
          /\ phase[c] = "publishing" => job[c] \in Version
    /\ requests \in 0..MaxRequests
    /\ faults \in 0..MaxFaults

Init ==
    /\ state = [v \in Version |-> "none"]
    /\ views = [v \in Version |-> {}]
    /\ graph = [i \in Instance |-> IF i \in Anchored THEN Outside ELSE Absent]
    /\ batches = [k \in BatchKey |-> NoBatch]
    /\ phase = [c \in Client |-> "idle"]
    /\ job = [c \in Client |-> NoBatch]
    /\ requests = 0
    /\ faults = 0

Spend == requests < MaxRequests /\ requests' = requests + 1 /\ UNCHANGED faults
Start(c, next, what) ==
    /\ phase[c] = "idle"
    /\ phase' = [phase EXCEPT ![c] = next]
    /\ job' = [job EXCEPT ![c] = what]
Goto(c, next) == phase' = [phase EXCEPT ![c] = next] /\ UNCHANGED job
End(c) == phase' = [phase EXCEPT ![c] = "idle"] /\ job' = [job EXCEPT ![c] = NoBatch]

-----------------------------------------------------------------------------
(* Versions and views.                                                     *)

(* createModelVersion(): the next number under an advisory lock, its views *)
(* and, if asked for, its publication, which needs a view.                 *)
CreateVersion ==
    /\ Spend
    /\ \E v \in Version, chosen \in SUBSET View, status \in {"draft", "published"} :
          /\ state[v] = "none"
          /\ \A w \in Version : w < v => state[w] # "none"
          /\ status = "published" => chosen # {}
          /\ state' = [state EXCEPT ![v] = status]
          /\ views' = [views EXCEPT ![v] = chosen]
    /\ UNCHANGED <<graph, batches, phase, job>>

(* createModelView() reads that the version is a draft, *)
AskView(c) ==
    /\ Spend
    /\ \E v \in Version, w \in View : state[v] = "draft" /\ Start(c, "adding", <<v, w>>)
    /\ UNCHANGED tables

(* and inserts the view, or finds it there and conflicts. *)
InsertView(c) ==
    /\ phase[c] = "adding"
    /\ views' = [views EXCEPT ![job[c][1]] = @ \cup {job[c][2]}]
    /\ End(c)
    /\ UNCHANGED <<state, graph, batches, requests, faults>>

AskPublish(c) ==
    /\ Spend
    /\ \E v \in Version : state[v] = "draft" /\ views[v] # {} /\ Start(c, "publishing", v)
    /\ UNCHANGED tables

(* The UPDATE still wants a draft; the trigger looks for a view again. *)
Publish(c) ==
    /\ phase[c] = "publishing"
    /\ state' = [state EXCEPT ![job[c]] = "published"]
    /\ End(c)
    /\ UNCHANGED <<views, graph, batches, requests, faults>>

-----------------------------------------------------------------------------
(* upsertModelInstances() *)

Kind(item) == IF item \in Item THEN UsedFor[item.view] ELSE "node"
Ends(item) == {item.source, item.target} \ {NoEnd}
References(b) == UNION {Ends(b.items[i]) : i \in DOMAIN b.items}

(* The version is published and its views, read now, are those used. *)
Usable(b) == state[b.version] = "published" /\ \A i \in DOMAIN b.items : b.items[i].view \in views[b.version]

Ask(c) ==
    /\ Spend
    /\ \E b \in Batch : Usable(b) /\ Start(c, "opened", b)
    /\ UNCHANGED tables

(* pg_advisory_xact_lock on the idempotency key, held until the end. *)
LockFree(c) == \A d \in Client \ {c} : phase[d] \in {"checked", "written"} => job[d].key # job[c].key

(* The key is bound: the same request is answered from its summary, *)
(* another one conflicts.                                           *)
Seen(b) == batches[b.key] # NoBatch

Answer(c) ==
    /\ phase[c] = "opened"
    /\ LockFree(c)
    /\ Seen(job[c])
    /\ End(c)
    /\ UNCHANGED <<tables, requests, faults>>

(* The rows found for the batch's keys and references. *)
Acceptable(b) ==
    /\ \A i \in DOMAIN b.items : graph[i] # Absent => graph[i] # Outside /\ graph[i].version = b.version
    /\ \A i \in References(b) :
          IF i \in DOMAIN b.items THEN Kind(b.items[i]) = "node"
          ELSE graph[i] # Absent /\ Kind(graph[i]) = "node"

Check(c) ==
    /\ phase[c] = "opened"
    /\ LockFree(c)
    /\ ~Seen(job[c])
    /\ IF Acceptable(job[c]) THEN Goto(c, "checked") ELSE End(c)
    /\ UNCHANGED <<tables, requests, faults>>

(* A row written by an open transaction makes the next writer wait. *)
RowsFree(c) ==
    \A d \in Client \ {c} : phase[d] = "written" => DOMAIN job[d].items \cap DOMAIN job[c].items = {}

(* Variant: ON CONFLICT DO UPDATE without the WHERE on the model. *)
SameModelNot(b) == TRUE

(* ON CONFLICT DO UPDATE ... WHERE the row is of the same model version. *)
SameModel(b) ==
    \A i \in DOMAIN b.items : graph[i] # Absent => graph[i] # Outside /\ graph[i].version = b.version

(* The trigger of migration 015: an edge's ends are nodes as it is written. *)
TriggerAllows(b) ==
    \A i \in DOMAIN b.items : \A e \in Ends(b.items[i]) :
        IF e \in DOMAIN b.items THEN Kind(b.items[e]) = "node" ELSE Kind(graph[e]) = "node"

Write(c) ==
    /\ phase[c] = "checked"
    /\ RowsFree(c)
    /\ IF SameModel(job[c]) /\ TriggerAllows(job[c]) THEN Goto(c, "written") ELSE End(c)
    /\ UNCHANGED <<tables, requests, faults>>

Apply(b) ==
    /\ graph' = [i \in Instance |-> IF i \in DOMAIN b.items THEN b.items[i] ELSE graph[i]]
    /\ batches' = [batches EXCEPT ![b.key] = b]
    /\ UNCHANGED <<state, views>>

(* The key is inserted (it is UNIQUE), the audit entry too, COMMIT. *)
Commit(c) ==
    /\ phase[c] = "written"
    /\ Apply(job[c])
    /\ End(c)
    /\ UNCHANGED <<requests, faults>>

(* A statement fails, times out or is a deadlock's victim; or COMMIT takes *)
(* effect and its reply is lost.                                           *)
Fail(c) ==
    /\ phase[c] # "idle"
    /\ faults < MaxFaults
    /\ faults' = faults + 1
    /\ End(c)
    /\ UNCHANGED tables \/ (phase[c] = "written" /\ Apply(job[c]))
    /\ UNCHANGED requests

Next ==
    \/ CreateVersion
    \/ \E c \in Client :
          \/ AskView(c) \/ InsertView(c) \/ AskPublish(c) \/ Publish(c)
          \/ Ask(c) \/ Answer(c) \/ Check(c) \/ Write(c) \/ Commit(c) \/ Fail(c)

-----------------------------------------------------------------------------
(* Every bound instance belongs to a published version that has the view   *)
(* it is bound to, and an instance outside the model is left alone.        *)
InstancesAreBound ==
    /\ \A i \in Anchored : graph[i] = Outside
    /\ \A i \in Instance : graph[i] \in Item =>
          state[graph[i].version] = "published" /\ graph[i].view \in views[graph[i].version]

(* Two batches of different versions that race for one instance cannot     *)
(* both have it: once bound, an instance stays with its model version      *)
(* (the WHERE of the upsert, after a check that may be stale).             *)
KeepsModels ==
    \A i \in Instance :
        graph[i] \in Item => graph'[i] \in Item /\ graph'[i].version = graph[i].version

InstancesKeepTheirModel == [][KeepsModels]_vars

(* Why that is so: what a version had when a batch looked it still has,    *)
(* and between the lock on its key and COMMIT nobody else enters the key,  *)
(* nor, from the upsert on, touches the rows it has found or written.      *)
Holding(c) == phase[c] \in {"checked", "written"}

OpenBatches ==
    /\ \A c \in Client : phase[c] = "opened" \/ Holding(c) => Usable(job[c])
    /\ \A c \in Client : Holding(c) => ~Seen(job[c])
    /\ \A c, d \in Client : c # d /\ Holding(c) /\ Holding(d) => job[c].key # job[d].key
    /\ \A c \in Client : phase[c] = "written" => SameModel(job[c])
    /\ \A c, d \in Client : c # d /\ phase[c] = "written" /\ phase[d] = "written" =>
          DOMAIN job[c].items \cap DOMAIN job[d].items = {}

GraphInv == TypeOK /\ InstancesAreBound /\ OpenBatches

Ledger == INSTANCE IngestLedger WITH
    Bundle   <- {[key |-> b.key, parent |-> b.items, value |-> [p \in {} |-> p]] : b \in Batch},
    Key      <- BatchKey,
    Asset    <- Instance \ Anchored,
    Point    <- {},
    NoBundle <- NoBatch,
    NoValue  <- NoBatch,
    ledger   <- [k \in BatchKey |-> IF batches[k] = NoBatch THEN NoBatch ELSE
                    [key |-> k, parent |-> batches[k].items, value |-> [p \in {} |-> p]]],
    value    <- [p \in {} |-> p],
    parent   <- [i \in Instance \ Anchored |-> graph[i]]

(* A batch is entered once under its idempotency key, whole or not at all, *)
(* however its retries and its rivals interleave.                          *)
ImplementsLedger == Ledger!Spec
=============================================================================
