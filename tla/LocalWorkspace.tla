--------------------------- MODULE LocalWorkspace ---------------------------
(***************************************************************************)
(* One workspace of the embedded SQLite plane: its members, its document,  *)
(* its audit ledger and the event streams that follow it.  The process is  *)
(* single-threaded and SQLite is called synchronously, so a handler is     *)
(* interrupted only where it awaits: after the authorisation.              *)
(*                                                                         *)
(* A snapshot maps the nodes and edges on the canvas to how they look.     *)
(* Saves carry a snapshot the server does not validate; batches of         *)
(* operations are applied whole or refused.                                *)
(***************************************************************************)
EXTENDS Naturals, Sequences, Functions, TLC

CONSTANTS
    User, Founder,
    Client, UserOf, \* browser sessions, and who may be signed in to each
    MemberChange,   \* the changes of [user, becomes] that are asked for
    Follower,       \* the users whose event streams are followed
    Edge, EndsOf,   \* the edges, and the nodes an edge connects
    Batch,          \* sequences of [op, id, look]
    NoSnapshot,     \* the result of a batch that does not apply
    MaxChanges      \* bound: entries of the ledger

Roles == {"owner", "editor", "viewer"}

LocalWorkspaceAssumption ==
    /\ Founder \in User
    /\ UserOf \in [Client -> SUBSET User]
    /\ MemberChange \subseteq [user : User, becomes : Roles \cup {"none"}]
    /\ MaxChanges \in Nat

VARIABLES
    role,           \* workspace_members
    version, snapshot, revisions,
    audit,          \* audit_log and its mirror in industrial_audit
    request,        \* per client: the request it is at
    stream          \* per user: the event stream, what waits in it, what it sent

document == <<version, snapshot, revisions>>
vars     == <<role, document, audit, request, stream>>

NoRequest == [step |-> "idle"]
NoStream  == [step |-> "none"]

(* createWorkspace(): an empty canvas, whose creator owns it. *)
Init ==
    /\ role = [u \in User |-> IF u = Founder THEN "owner" ELSE "none"]
    /\ version = 1
    /\ snapshot = <<>>
    /\ revisions = <<snapshot>>
    /\ audit = <<>>
    /\ request = [c \in Client |-> NoRequest]
    /\ stream = [u \in Follower |-> NoStream]

-----------------------------------------------------------------------------
(* applyCanvasOperations(): what is added must be new, what is updated or  *)
(* removed must be there, and in the end every edge connects two nodes.    *)
Applies(s, o) == (o.op = "add") = (o.id \notin DOMAIN s)

Applied(s, o) == IF o.op = "remove" THEN Restrict(s, DOMAIN s \ {o.id})
                                    ELSE (o.id :> o.look) @@ s

Unchecked(s, batch) ==
    LET after[n \in 0..Len(batch)] ==
          IF n = 0 THEN s
          ELSE IF after[n - 1] # NoSnapshot /\ Applies(after[n - 1], batch[n])
               THEN Applied(after[n - 1], batch[n]) ELSE NoSnapshot
    IN  after[Len(batch)]

Attached(s) == \A e \in DOMAIN s \cap Edge : EndsOf[e] \subseteq DOMAIN s

Edited(s, batch) ==
    LET t == Unchecked(s, batch) IN IF t # NoSnapshot /\ Attached(t) THEN t ELSE NoSnapshot

-----------------------------------------------------------------------------
(* An entry of the ledger, and the frame of a stream that tells it. *)
LedgerEntry ==
         [action : {"saved"}, actor : User, version : Nat]
    \cup [action : {"operations"}, actor : User, version : Nat, batch : Batch]
    \cup [action : {"rolled_back"}, actor : User, version : Nat, from : Nat \ {0}]
    \cup [action : {"member"}, actor : User, user : User,
          was : Roles \cup {"none"}, becomes : Roles \cup {"none"}]

OfDocument(e) == e.action # "member"

(* What a client that has loaded revision `base', which it has `seen', may *)
(* ask for: a batch, the whole snapshot after one, an earlier revision, or *)
(* the change of a membership.                                             *)
Nothing == [kind |-> "nothing"]

Asks(base, seen) ==
         [kind : {"operations"}, batch : Batch]
    \cup {[kind |-> "save", content |-> s] : s \in {Unchecked(seen, b) : b \in Batch} \ {NoSnapshot}}
    \cup [kind : {"rollback"}, target : 1..base]
    \cup [kind : {"member"}, change : MemberChange]

IsRequest(r) ==
    \/ r = NoRequest
    \/ /\ r = [step |-> r.step, actor |-> r.actor, base |-> r.base, seen |-> revisions[r.base],
                asks |-> r.asks]
       /\ r.step \in {"loaded", "sent", "allowed"} /\ r.actor \in User /\ r.base \in 1..version
       /\ r.asks \in IF r.step = "loaded" THEN {Nothing} ELSE Asks(r.base, revisions[r.base])

Stream == {NoStream, [step |-> "admitted"]}
    \cup [step : {"open"}, since : 0..Len(audit), queue : Seq(LedgerEntry), sent : Seq(LedgerEntry)]

TypeOK ==
    /\ role \in [User -> Roles \cup {"none"}]
    /\ version \in 1..(Len(audit) + 1)
    /\ revisions \in [1..version -> Range(revisions)]
    /\ audit \in Seq(LedgerEntry) /\ Len(audit) <= MaxChanges
    /\ request \in [Client -> Range(request)] /\ \A c \in Client : IsRequest(request[c])
    /\ stream \in [Follower -> Stream]

-----------------------------------------------------------------------------
Becomes(c, r) == request' = [request EXCEPT ![c] = r]

(* GET /workspaces/:id *)
Load(c) ==
    /\ request[c] = NoRequest
    /\ \E u \in UserOf[c] : role[u] # "none" /\ Becomes(c,
           [step |-> "loaded", actor |-> u, base |-> version, seen |-> snapshot, asks |-> Nothing])
    /\ UNCHANGED <<role, document, audit, stream>>

Send(c) ==
    /\ request[c].step = "loaded"
    /\ \E q \in Asks(request[c].base, request[c].seen) :
          Becomes(c, [step |-> "sent", actor |-> request[c].actor, base |-> request[c].base,
                      seen |-> request[c].seen, asks |-> q])
    /\ UNCHANGED <<role, document, audit, stream>>

MayEdit(u) == role[u] \in {"owner", "editor"}
Manages(u) == role[u] = "owner"

(* requireWorkspaceEditor(), requireWorkspaceOwner(), awaited.  They also  *)
(* ask for access to the project, which is not modelled: it may be denied. *)
Authorise(c) ==
    /\ request[c].step = "sent"
    /\ IF request[c].asks.kind = "member" THEN Manages(request[c].actor) ELSE MayEdit(request[c].actor)
    /\ Becomes(c, [request[c] EXCEPT !.step = "allowed"])
    /\ UNCHANGED <<role, document, audit, stream>>

Refuse(c) ==
    /\ request[c].step = "sent"
    /\ Becomes(c, NoRequest)
    /\ UNCHANGED <<role, document, audit, stream>>

-----------------------------------------------------------------------------
(* eventHub.publish*(): every open stream gets the frame in its queue, in  *)
(* the turn of the event loop that committed it.                           *)
Publish(entry) ==
    stream' = [u \in Follower |-> IF stream[u].step = "open"
                                  THEN [stream[u] EXCEPT !.queue = Append(@, entry)]
                                  ELSE stream[u]]

(* One transaction: the change, its audit entry; then the event. *)
Commit(c, entry) ==
    /\ Len(audit) < MaxChanges
    /\ audit' = Append(audit, entry)
    /\ Publish(entry)
    /\ Becomes(c, NoRequest)

(* Variant: the version is not compared with the one the client loaded. *)
NotAsked(c) == TRUE

IsCurrent(c) == version = request[c].base

(* The document is replaced and becomes a revision. *)
Write(c, s, entry) ==
    /\ version' = version + 1
    /\ snapshot' = s
    /\ revisions' = Append(revisions, s)
    /\ Commit(c, entry)
    /\ UNCHANGED role

Allowed(c, kind) == request[c].step = "allowed" /\ request[c].asks.kind = kind

(* updateWorkspace(): nothing is asked about the member again. *)
Save(c) ==
    /\ Allowed(c, "save")
    /\ IsCurrent(c)
    /\ Write(c, request[c].asks.content,
             [action |-> "saved", actor |-> request[c].actor, version |-> version + 1])

(* rollbackWorkspace() *)
Rollback(c) ==
    /\ Allowed(c, "rollback")
    /\ IsCurrent(c)
    /\ LET v == request[c].asks.target IN
          /\ v \in DOMAIN revisions
          /\ Write(c, revisions[v], [action |-> "rolled_back", actor |-> request[c].actor,
                                     version |-> version + 1, from |-> v])

(* applyWorkspaceOperations(): the member is read again. *)
Operate(c) ==
    /\ Allowed(c, "operations")
    /\ MayEdit(request[c].actor)
    /\ IsCurrent(c)
    /\ LET b == request[c].asks.batch IN
          /\ Edited(snapshot, b) # NoSnapshot
          /\ Write(c, Edited(snapshot, b), [action |-> "operations", actor |-> request[c].actor,
                                            version |-> version + 1, batch |-> b])

KeepsOwner(u, r) == role[u] = "owner" /\ r # "owner" => \E o \in User \ {u} : role[o] = "owner"

(* upsertWorkspaceMember(), removeWorkspaceMember() *)
ChangeMember(c) ==
    /\ Allowed(c, "member")
    /\ Manages(request[c].actor)
    /\ LET m == request[c].asks.change IN
          /\ m.becomes = "none" => role[m.user] # "none"
          /\ KeepsOwner(m.user, m.becomes)
          /\ role' = [role EXCEPT ![m.user] = m.becomes]
          /\ Commit(c, [action |-> "member", actor |-> request[c].actor, user |-> m.user,
                        was |-> role[m.user], becomes |-> m.becomes])
    /\ UNCHANGED document

(* A refusal of the second look, with nothing written. *)
Conflict(c) ==
    LET q == request[c] IN
    /\ \/ /\ Allowed(c, "member")
          /\ LET m == q.asks.change IN
                \/ ~Manages(q.actor) \/ ~KeepsOwner(m.user, m.becomes)
                \/ m.becomes = "none" /\ role[m.user] = "none"
       \/ /\ Allowed(c, "operations")
          /\ \/ ~MayEdit(q.actor) \/ ~IsCurrent(c)
             \/ Edited(snapshot, q.asks.batch) = NoSnapshot
       \/ (Allowed(c, "save") \/ Allowed(c, "rollback")) /\ ~IsCurrent(c)
    /\ Becomes(c, NoRequest)
    /\ UNCHANGED <<role, document, audit, stream>>

-----------------------------------------------------------------------------
OnStream(u, s) == stream' = [stream EXCEPT ![u] = s] /\ UNCHANGED <<role, document, audit, request>>

(* GET /workspaces/:id/events: the member is looked up, and later the      *)
(* stream subscribes.                                                      *)
Admit(u) ==
    /\ stream[u] = NoStream
    /\ role[u] # "none"
    /\ OnStream(u, [step |-> "admitted"])

Subscribe(u) ==
    /\ stream[u].step = "admitted"
    /\ OnStream(u, [step |-> "open", since |-> Len(audit), queue |-> <<>>, sent |-> <<>>])

(* The next frame: a member's own removal is sent and ends the stream, any *)
(* other frame is sent if the member is still one.                         *)
Deliver(u) ==
    /\ stream[u].step = "open" /\ stream[u].queue # <<>>
    /\ LET frame == Head(stream[u].queue) IN
          /\ ~(frame.action = "member" /\ frame.user = u /\ frame.becomes = "none")
          /\ role[u] # "none"
          /\ OnStream(u, [step |-> "open", since |-> stream[u].since,
                          queue |-> Tail(stream[u].queue), sent |-> Append(stream[u].sent, frame)])

End(u) ==
    /\ stream[u].step = "open" /\ stream[u].queue # <<>>
    /\ LET frame == Head(stream[u].queue) IN
          \/ frame.action = "member" /\ frame.user = u /\ frame.becomes = "none"
          \/ role[u] = "none"
    /\ OnStream(u, NoStream)

Next ==
    \/ \E c \in Client :
          \/ Load(c) \/ Send(c) \/ Authorise(c) \/ Refuse(c) \/ Conflict(c)
          \/ Save(c) \/ Rollback(c) \/ Operate(c) \/ ChangeMember(c)
    \/ \E u \in Follower : Admit(u) \/ Subscribe(u) \/ Deliver(u) \/ End(u)

-----------------------------------------------------------------------------
(* The entries about the memberships of a user, each of which starts from  *)
(* what the one before it left.                                            *)
About(u) == {i \in DOMAIN audit : ~OfDocument(audit[i]) /\ audit[i].user = u}

Leaves(start, at, r) ==
    \/ at = {} /\ r = start
    \/ \E i \in at : audit[i].becomes = r /\ \A j \in at : j <= i

RoleTold(u) ==
    LET start == IF u = Founder THEN "owner" ELSE "none"
    IN  /\ Leaves(start, About(u), role[u])
        /\ \A i \in About(u) : Leaves(start, {j \in About(u) : j < i}, audit[i].was)

(* What an entry says of the version that it made. *)
Tells(e) ==
    /\ e.action = "operations" => revisions[e.version] = Edited(revisions[e.version - 1], e.batch)
    /\ e.action = "rolled_back" => e.from < e.version /\ revisions[e.version] = revisions[e.from]

(* The audit ledger alone tells what happened to the workspace: entry by   *)
(* entry it gives every version, in order, how the batches and the         *)
(* rollbacks made it from earlier ones, and every membership; and there is *)
(* always an owner, whatever two owners do to one another at once.         *)
LedgerTellsWorkspace ==
    LET told == {i \in DOMAIN audit : OfDocument(audit[i])}
    IN  /\ snapshot = revisions[version]
        /\ \A v \in 2..version : \E i \in told : audit[i].version = v
        /\ \A i \in told : audit[i].version \in 2..version /\ Tells(audit[i])
        /\ \A i, j \in told : i < j => audit[i].version < audit[j].version
        /\ \A u \in User : RoleTold(u)
        /\ \E u \in User : Manages(u)

(* Nothing one editor saved is silently overwritten by another: a new      *)
(* version is the one just before it after a single client's batch, or a   *)
(* copy of a revision, even when the client's snapshot is taken as it is.  *)
KeepsEdits ==
    version' # version =>
        \/ \E b \in Batch : snapshot' = Unchecked(snapshot, b)
        \/ \E v \in DOMAIN revisions : snapshot' = revisions[v]

NothingIsLost == [][KeepsEdits]_vars

(* A stream that is open has sent, or will send, exactly what the ledger   *)
(* has recorded since it was opened, in the ledger's order.                *)
StreamsFollowLedger ==
    \A u \in Follower : stream[u].step = "open" =>
        stream[u].sent \o stream[u].queue = SubSeq(audit, stream[u].since + 1, Len(audit))

(* The inductive invariant behind them. *)
LocalWorkspaceInv == TypeOK /\ LedgerTellsWorkspace /\ StreamsFollowLedger
=============================================================================
