------------------------- MODULE WorkspaceDocument -------------------------
(***************************************************************************)
(* The document of one workspace on the PostgreSQL plane: clients load it, *)
(* edit it, and send back a whole snapshot (PUT), a batch of operations or *)
(* a rollback, each with the version they expect.                          *)
(*                                                                         *)
(* A snapshot is abstracted to the set of edits it contains.  Every read   *)
(* of the server is a transaction of its own; the write is one READ        *)
(* COMMITTED transaction whose UPDATE repeats the version test after it    *)
(* has waited for the row, but the role test only as of its start.         *)
(*                                                                         *)
(* Memberships change under the feet of the requests: WorkspaceMembers     *)
(* models how.  Here a user's access simply changes.                       *)
(***************************************************************************)
EXTENDS Integers, Sequences

CONSTANTS
    User,
    Client,         \* browser sessions, each with one request at a time
    NoClient,       \* nobody holds the row lock
    Edit,           \* the changes users may make
    MaxVersion      \* bound on the versions of one behaviour

ASSUME DocumentAssumption ==
    /\ User # {}
    /\ Edit # {}
    /\ NoClient \notin Client
    /\ MaxVersion \in Nat \ {0}

VARIABLES
    version,        \* odf.workspaces.version, committed
    snapshot,       \* odf.workspaces.snapshot, committed
    revisions,      \* odf.workspace_revisions by version, committed
    events,         \* workspace.updated rows of odf.outbox_events, in commit order
    access,         \* per user: "edit" (owner, editor), "read" or "none"
    rowLock,        \* the transaction that has updated the workspace row
    phase,          \* per client: what its request does next
    req             \* per client: the request and what was read for it

row  == <<version, snapshot, revisions, events>>
vars == <<row, access, rowLock, phase, req>>

Kind    == {"save", "operations", "rollback"}
Phase   == {"idle", "loaded", "sent", "checked", "read", "ready", "began", "update", "updated"}
Request == [actor : User, kind : Kind, base : 1 .. MaxVersion, edit : Edit,
            target : 1 .. MaxVersion, content : SUBSET Edit, began : 1 .. MaxVersion,
            allowed : BOOLEAN]
Revision == [snapshot : SUBSET Edit, kind : Kind \cup {"created"}, edit : Edit,
             target : 1 .. MaxVersion]

NoRequest == [actor |-> CHOOSE u \in User : TRUE, kind |-> "save", base |-> 1,
              edit |-> CHOOSE e \in Edit : TRUE, target |-> 1, content |-> {},
              began |-> 1, allowed |-> FALSE]

TypeOK ==
    /\ version \in 1 .. MaxVersion
    /\ snapshot \subseteq Edit
    /\ revisions \in [1 .. version -> Revision]
    /\ events \in Seq([version : 1 .. MaxVersion, began : 1 .. MaxVersion])
    /\ access \in [User -> {"edit", "read", "none"}]
    /\ rowLock \in Client \cup {NoClient}
    /\ phase \in [Client -> Phase]
    /\ req \in [Client -> Request]
    \* exactly the transaction between its UPDATE and its COMMIT has the row
    /\ \A c \in Client : phase[c] = "updated" <=> rowLock = c

(* odf.create_project_workspace: version 1, the empty canvas. *)
Init ==
    /\ version = 1
    /\ snapshot = {}
    /\ revisions = [v \in 1 .. 1 |-> [snapshot |-> {}, kind |-> "created",
                                      edit |-> NoRequest.edit, target |-> 1]]
    /\ events = <<>>
    /\ access \in [User -> {"edit", "read", "none"}]
    /\ rowLock = NoClient
    /\ phase = [c \in Client |-> "idle"]
    /\ req = [c \in Client |-> NoRequest]

-----------------------------------------------------------------------------
(* A membership request commits. *)
ChangeAccess(u) ==
    /\ \E a \in {"edit", "read", "none"} : access' = [access EXCEPT ![u] = a]
    /\ UNCHANGED <<row, rowLock, phase, req>>

Goto(c, p) == phase' = [phase EXCEPT ![c] = p]

(* The request is answered with an error, or the connection is lost. *)
Refuse(c) ==
    /\ Goto(c, "idle")
    /\ req' = [req EXCEPT ![c] = NoRequest]
    /\ rowLock' = IF rowLock = c THEN NoClient ELSE rowLock
    /\ UNCHANGED <<row, access>>

(* GET /api/v1/workspaces/:id *)
Load(c) ==
    /\ phase[c] = "idle"
    /\ \E u \in User :
          /\ access[u] # "none"
          /\ req' = [req EXCEPT ![c] =
                [NoRequest EXCEPT !.actor = u, !.base = version, !.content = snapshot]]
    /\ Goto(c, "loaded")
    /\ UNCHANGED <<row, access, rowLock>>

(* The user edits what was loaded, or picks a revision, and sends it with  *)
(* the loaded version; requireWorkspaceEditor lets the request through.    *)
Send(c) ==
    /\ phase[c] = "loaded"
    /\ req[c].base < MaxVersion
    /\ access[req[c].actor] = "edit"
    /\ \E k \in Kind, e \in Edit, t \in 1 .. req[c].base :
          /\ req' = [req EXCEPT ![c] = [req[c] EXCEPT !.kind = k, !.edit = e, !.target = t,
                !.content = IF k = "save" THEN @ \cup {e} ELSE {}]]
          /\ Goto(c, IF k = "save" THEN "ready" ELSE "sent")
    /\ UNCHANGED <<row, access, rowLock>>

(* getWorkspaceMember of applyWorkspaceOperations and rollbackWorkspace.   *)
(* It runs beside getWorkspace; which of the two ends first makes no       *)
(* difference, because both only refuse and the UPDATE tests again.        *)
CheckMember(c) ==
    /\ phase[c] = "sent"
    /\ \/ /\ access[req[c].actor] = "edit"
          /\ Goto(c, "checked")
          /\ UNCHANGED <<row, access, rowLock, req>>
       \/ access[req[c].actor] # "edit" /\ Refuse(c)

(* getWorkspace: a base version that is no longer current is refused; the  *)
(* operations are applied to the snapshot just read.                       *)
ReadCurrent(c) ==
    /\ phase[c] = "checked"
    /\ \/ /\ version = req[c].base
          /\ access[req[c].actor] # "none"
          /\ req' = [req EXCEPT ![c].content =
                IF req[c].kind = "operations" THEN snapshot \cup {req[c].edit} ELSE {}]
          /\ Goto(c, IF req[c].kind = "operations" THEN "ready" ELSE "read")
          /\ UNCHANGED <<row, access, rowLock>>
       \/ /\ version # req[c].base \/ access[req[c].actor] = "none"
          /\ Refuse(c)

(* getWorkspaceRevision of the rollback target. *)
ReadTarget(c) ==
    /\ phase[c] = "read"
    /\ \/ /\ access[req[c].actor] # "none"
          /\ req' = [req EXCEPT ![c].content = revisions[req[c].target].snapshot]
          /\ Goto(c, "ready")
          /\ UNCHANGED <<row, access, rowLock>>
       \/ access[req[c].actor] = "none" /\ Refuse(c)

(* BEGIN of mutateWorkspace: occurred_at of its outbox row is this moment. *)
Begin(c) ==
    /\ phase[c] = "ready"
    /\ req' = [req EXCEPT ![c].began = version]
    /\ Goto(c, "began")
    /\ UNCHANGED <<row, access, rowLock>>

(* The UPDATE takes its snapshot, in which it looks up the actor's role. *)
StartUpdate(c) ==
    /\ phase[c] = "began"
    /\ req' = [req EXCEPT ![c].allowed = (access[req[c].actor] = "edit")]
    /\ Goto(c, "update")
    /\ UNCHANGED <<row, access, rowLock>>

(* Variant: the version predicate is missing. *)
LockAnyVersion(c) ==
    /\ phase[c] = "update"
    /\ rowLock = NoClient
    /\ req[c].allowed
    /\ rowLock' = c
    /\ Goto(c, "updated")
    /\ UNCHANGED <<row, access, req>>

(* Variant: a second UPDATE goes ahead beside an uncommitted one. *)
LockRowTwice(c) ==
    /\ phase[c] = "update"
    /\ req[c].base = version
    /\ req[c].allowed
    /\ rowLock' = c
    /\ Goto(c, "updated")
    /\ UNCHANGED <<row, access, req>>

(* ... and gets the row, if the newest row version still has the expected  *)
(* version number.                                                         *)
LockRow(c) ==
    /\ phase[c] = "update"
    /\ rowLock = NoClient
    /\ req[c].base = version
    /\ req[c].allowed
    /\ rowLock' = c
    /\ Goto(c, "updated")
    /\ UNCHANGED <<row, access, req>>

(* No row was updated: Conflict or Forbidden. *)
NoRow(c) ==
    /\ phase[c] = "update"
    /\ \/ ~req[c].allowed
       \/ rowLock = NoClient /\ req[c].base # version
    /\ Refuse(c)

Next1 == version + 1

(* INSERT INTO odf.workspace_revisions, under the version just returned. *)
SaveRevision(c, rec) ==
    revisions' = [v \in 1 .. Next1 |-> IF v = Next1 THEN rec ELSE revisions[v]]

(* insertOutbox with the key workspace:<id>:v<version>. *)
Announce(c) ==
    events' = IF \E i \in DOMAIN events : events[i].version = Next1
              THEN events
              ELSE Append(events, [version |-> Next1, began |-> req[c].began])

(* COMMIT: the new row, its revision and its event become visible. *)
Commit(c) ==
    /\ phase[c] = "updated"
    /\ version' = Next1
    /\ snapshot' = req[c].content
    /\ SaveRevision(c, [snapshot |-> req[c].content, kind |-> req[c].kind,
                        edit |-> req[c].edit, target |-> req[c].target])
    /\ Announce(c)
    /\ rowLock' = NoClient
    /\ Goto(c, "idle")
    /\ req' = [req EXCEPT ![c] = NoRequest]
    /\ UNCHANGED access

(* The client goes away, or a statement fails: ROLLBACK. *)
Abort(c) == phase[c] # "idle" /\ Refuse(c)

Next ==
    \/ \E u \in User : ChangeAccess(u)
    \/ \E c \in Client :
          \/ Load(c) \/ Send(c) \/ CheckMember(c) \/ ReadCurrent(c) \/ ReadTarget(c)
          \/ Begin(c) \/ StartUpdate(c) \/ LockRow(c) \/ NoRow(c) \/ Commit(c) \/ Abort(c)

Spec == Init /\ [][Next]_vars

-----------------------------------------------------------------------------
(* The current row is the last revision, although the two are read apart.  *)
CurrentIsLastRevision == snapshot = revisions[version].snapshot

(* Nobody's edit disappears: a save or a batch of operations yields its    *)
(* predecessor plus its own edit, whoever committed in between, and a      *)
(* rollback yields exactly the revision it names.                          *)
NoLostUpdate ==
    \A v \in 2 .. version :
        LET r == revisions[v] IN
        IF r.kind = "rollback"
        THEN r.target < v /\ r.snapshot = revisions[r.target].snapshot
        ELSE r.snapshot = revisions[v - 1].snapshot \cup {r.edit}

(* Every committed version has one event, in version order.                *)
OneEventPerVersion ==
    /\ Len(events) = version - 1
    /\ \A i \in DOMAIN events : events[i].version = i + 1

(* A transaction starts after the version it replaces was committed, so    *)
(* that occurred_at orders the workspace.updated events of a workspace as  *)
(* their versions do; the claim of the outbox relies on that order.        *)
StartsAfterPredecessor ==
    \A i \in DOMAIN events : events[i].began = events[i].version - 1

(* Rollback appends; no step changes or removes a committed revision.      *)
RevisionsAppendOnly ==
    [][\A v \in DOMAIN revisions : v \in DOMAIN revisions' /\ revisions'[v] = revisions[v]]_vars

(* The inductive invariant behind them: a request in flight carries what   *)
(* the revision of its base version determines.                            *)
Carried(p, r) ==
    /\ p # "idle" => r.base <= version
    /\ p = "loaded" => r.content = revisions[r.base].snapshot
    /\ p \notin {"idle", "loaded"} => r.target <= r.base /\ r.base < MaxVersion
    /\ p \in {"ready", "began", "update", "updated"} =>
          r.content = IF r.kind = "rollback" THEN revisions[r.target].snapshot
                      ELSE revisions[r.base].snapshot \cup {r.edit}
    /\ p \in {"sent", "checked"} => r.kind # "save"
    /\ p = "read" => r.kind = "rollback"
    /\ p \in {"began", "update", "updated"} => r.base <= r.began /\ r.began <= version
    /\ p = "updated" => r.base = version

DocumentInv ==
    /\ TypeOK
    /\ CurrentIsLastRevision
    /\ NoLostUpdate
    /\ OneEventPerVersion
    /\ StartsAfterPredecessor
    /\ \A c \in Client : Carried(phase[c], req[c])

-----------------------------------------------------------------------------
History == [v \in 1 .. version |-> revisions[v].snapshot]

Document == INSTANCE VersionedDocument WITH hist <- History

(* The workspace implements the versioned document. *)
ImplementsVersionedDocument == Document!Spec
=============================================================================
