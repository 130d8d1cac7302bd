-------------------------- MODULE WorkspaceMembers --------------------------
(***************************************************************************)
(* Membership of one workspace on the PostgreSQL plane: concurrent         *)
(* requests that add, change or remove members.                            *)
(*                                                                         *)
(* Every request is one READ COMMITTED transaction, so each statement sees *)
(* what is committed when it starts, and an action is one statement.  A    *)
(* statement that has to wait for a lock is modelled at the moment it gets *)
(* the lock: whatever it read before waiting is read again by PostgreSQL   *)
(* from the newest row version.                                            *)
(*                                                                         *)
(* "member" stands for the roles editor, reviewer and viewer, "none" for   *)
(* the absence of the row; a request whose new role is "none" is a DELETE, *)
(* any other request is an upsert.                                         *)
(***************************************************************************)
EXTENDS Integers, Sequences, FiniteSets

CONSTANTS
    User,
    Founder,            \* created_by: the owner the bootstrap inserts
    Client,             \* connections that serve requests
    NoClient,           \* nobody holds the lock
    Correlation,        \* values of x-correlation-id
    ReuseCorrelation    \* may a client send the same x-correlation-id twice?

ASSUME MembersAssumption ==
    /\ IsFiniteSet(User)
    /\ Founder \in User
    /\ Correlation # {}
    /\ NoClient \notin Client
    /\ ReuseCorrelation \in BOOLEAN

Role == {"owner", "member", "none"}

VARIABLES
    role,           \* odf.workspace_members, committed
    rowLock,        \* per user: the transaction that locks the member's row
    ownerLock,      \* holder of the advisory lock of the owner trigger
    phase,          \* per client: the statement its transaction runs next
    req,            \* per client: the request it serves
    unused,         \* correlation ids not sent yet
    audit,          \* audit_log entries of committed membership changes
    events          \* outbox_events rows of members.updated

locks   == <<rowLock, ownerLock>>
history == <<audit, events>>
vars    == <<role, locks, phase, req, unused, history>>

(* was: did the preliminary SELECT of the transaction find the member? *)
Request == [actor : User, target : User, new : Role, corr : Correlation, was : BOOLEAN]
Phase   == {"idle", "authorized", "checked", "read", "guard", "count", "written"}
Change  == {"added", "updated", "removed"}

NoRequest == [actor |-> Founder, target |-> Founder, new |-> "none",
              corr |-> CHOOSE k \in Correlation : TRUE, was |-> FALSE]

TypeOK ==
    /\ role \in [User -> Role]
    /\ rowLock \in [User -> Client \cup {NoClient}]
    /\ ownerLock \in Client \cup {NoClient}
    /\ phase \in [Client -> Phase]
    /\ req \in [Client -> Request]
    /\ unused \subseteq Correlation
    /\ audit \in Seq([actor : User, user : User, change : Change, role : Role])
    /\ events \in Seq([user : User, change : Change, role : Role, corr : Correlation])
    \* an idle connection holds no lock
    /\ \A c \in Client : phase[c] = "idle" =>
          ownerLock # c /\ \A u \in User : rowLock[u] # c

(* odf.create_project_workspace: the creator becomes the first owner. *)
Init ==
    /\ role = [u \in User |-> IF u = Founder THEN "owner" ELSE "none"]
    /\ rowLock = [u \in User |-> NoClient]
    /\ ownerLock = NoClient
    /\ phase = [c \in Client |-> "idle"]
    /\ req = [c \in Client |-> NoRequest]
    /\ unused = Correlation
    /\ audit = <<>>
    /\ events = <<>>

-----------------------------------------------------------------------------
Owners == {u \in User : role[u] = "owner"}

Removal(c) == req[c].new = "none"

(* The row the transaction is about to write takes an owner away. *)
EndsOwnership(c) == role[req[c].target] = "owner" /\ req[c].new # "owner"

(* Variant: the advisory lock is a session lock that outlives the COMMIT. *)
ReleaseRowOnly(c) ==
    /\ rowLock' = [u \in User |-> IF rowLock[u] = c THEN NoClient ELSE rowLock[u]]
    /\ phase' = [phase EXCEPT ![c] = "idle"]
    /\ req' = [req EXCEPT ![c] = NoRequest]
    /\ UNCHANGED ownerLock

(* COMMIT and ROLLBACK free the row lock and the advisory lock. *)
Release(c) ==
    /\ rowLock' = [u \in User |-> IF rowLock[u] = c THEN NoClient ELSE rowLock[u]]
    /\ ownerLock' = IF ownerLock = c THEN NoClient ELSE ownerLock
    /\ phase' = [phase EXCEPT ![c] = "idle"]
    /\ req' = [req EXCEPT ![c] = NoRequest]

Refuse(c) == Release(c) /\ UNCHANGED <<role, unused, history>>

(* requireWorkspaceOwner and authorizeProject, before the transaction. *)
Authorize(c) ==
    /\ phase[c] = "idle"
    /\ \E a \in Owners, t \in User, r \in Role, k \in unused :
          /\ req' = [req EXCEPT ![c] =
                [actor |-> a, target |-> t, new |-> r, corr |-> k, was |-> FALSE]]
          /\ unused' = IF ReuseCorrelation THEN unused ELSE unused \ {k}
    /\ phase' = [phase EXCEPT ![c] = "authorized"]
    /\ UNCHANGED <<role, locks, history>>

(* assertWorkspaceOwner, the first statement of the transaction. *)
CheckOwner(c) ==
    /\ phase[c] = "authorized"
    /\ \/ /\ role[req[c].actor] = "owner"
          /\ phase' = [phase EXCEPT ![c] = IF Removal(c) THEN "read" ELSE "checked"]
          /\ UNCHANGED <<role, locks, req, unused, history>>
       \/ role[req[c].actor] # "owner" /\ Refuse(c)

(* The SELECT named before: it locks nothing. *)
ReadBefore(c) ==
    /\ phase[c] = "checked"
    /\ req' = [req EXCEPT ![c].was = (role[req[c].target] # "none")]
    /\ phase' = [phase EXCEPT ![c] = "read"]
    /\ UNCHANGED <<role, locks, unused, history>>

(* DELETE, or INSERT ... ON CONFLICT DO UPDATE: wait for the row, then fire *)
(* the trigger, which has work to do only when an owner is taken away.      *)
LockRow(c) ==
    /\ phase[c] = "read"
    /\ rowLock[req[c].target] = NoClient
    /\ \/ /\ Removal(c) => role[req[c].target] # "none"
          /\ rowLock' = [rowLock EXCEPT ![req[c].target] = c]
          /\ phase' = [phase EXCEPT ![c] = IF EndsOwnership(c) THEN "guard" ELSE "written"]
          /\ UNCHANGED <<role, ownerLock, req, unused, history>>
       \/ Removal(c) /\ role[req[c].target] = "none" /\ Refuse(c)

(* Variant: the trigger counts without the advisory lock. *)
LockOwnersNot(c) ==
    /\ phase[c] = "guard"
    /\ phase' = [phase EXCEPT ![c] = "count"]
    /\ UNCHANGED <<role, locks, req, unused, history>>

(* protect_last_workspace_owner: pg_advisory_xact_lock. *)
LockOwners(c) ==
    /\ phase[c] = "guard"
    /\ ownerLock = NoClient
    /\ ownerLock' = c
    /\ phase' = [phase EXCEPT ![c] = "count"]
    /\ UNCHANGED <<role, rowLock, req, unused, history>>

(* The count is a statement of its own, so it sees what was committed      *)
(* while the trigger waited for the lock.                                  *)
CountOwners(c) ==
    /\ phase[c] = "count"
    /\ \/ /\ Cardinality(Owners) > 1
          /\ phase' = [phase EXCEPT ![c] = "written"]
          /\ UNCHANGED <<role, locks, req, unused, history>>
       \/ Cardinality(Owners) <= 1 /\ Refuse(c)

ChangeOf(c) ==
    IF Removal(c) THEN "removed" ELSE IF req[c].was THEN "updated" ELSE "added"

(* Variant: the key is only the target. *)
AnnouncedForTarget(c) == \E i \in DOMAIN events : events[i].user = req[c].target

(* ON CONFLICT DO NOTHING of insertOutbox: the key is the target and the   *)
(* correlation id, and removals have a prefix of their own.                *)
AlreadyAnnounced(c) ==
    \E i \in DOMAIN events :
        /\ events[i].user = req[c].target
        /\ events[i].corr = req[c].corr
        /\ (events[i].change = "removed") = Removal(c)

(* insertAudit and insertOutbox. *)
Record(c) ==
    /\ audit' = Append(audit, [actor |-> req[c].actor, user |-> req[c].target,
                               change |-> ChangeOf(c), role |-> req[c].new])
    /\ events' = IF AlreadyAnnounced(c) THEN events
                 ELSE Append(events, [user |-> req[c].target, change |-> ChangeOf(c),
                                      role |-> req[c].new, corr |-> req[c].corr])

(* The audit and outbox rows and the member's row become visible together. *)
Commit(c) ==
    /\ phase[c] = "written"
    /\ role' = [role EXCEPT ![req[c].target] = req[c].new]
    /\ Record(c)
    /\ Release(c)
    /\ UNCHANGED unused

(* A lost connection, a lock timeout or a failing statement: ROLLBACK. *)
Abort(c) == phase[c] # "idle" /\ Refuse(c)

Step(c) == CheckOwner(c) \/ ReadBefore(c) \/ LockRow(c) \/ LockOwners(c)
           \/ CountOwners(c) \/ Commit(c)

Next == \E c \in Client : Authorize(c) \/ Step(c) \/ Abort(c)

Spec == Init /\ [][Next]_vars

(* PostgreSQL grants a free lock to somebody who waits for it, in order of *)
(* arrival, and runs the statements of an open transaction.                *)
Fairness == \A c \in Client : SF_vars(Step(c))

FairSpec == Spec /\ Fairness

-----------------------------------------------------------------------------
(* Whatever interleaving of demotions and removals, also of owners by each *)
(* other, the workspace keeps an owner (trigger of migration 002).         *)
AtLeastOneOwner == Owners # {}

(* The audit log tells the membership: the last committed entry about a    *)
(* user names the user's role, and a user without entry is unchanged.      *)
LastAbout(log, u, i) == log[i].user = u /\ \A j \in DOMAIN log : j > i => log[j].user # u

Tells(log) ==
    \A u \in User :
        \/ \E i \in DOMAIN log : LastAbout(log, u, i) /\ log[i].role = role[u]
        \/ /\ \A i \in DOMAIN log : log[i].user # u
           /\ role[u] = IF u = Founder THEN "owner" ELSE "none"

AuditTellsMembership == Tells(audit)

(* The same for the members.updated events: a consumer that applies them   *)
(* in commit order knows who may still see the workspace.                  *)
EventsTellMembership == Tells(events)

(* Every request is answered: no order of row locks and the advisory lock  *)
(* lets two transactions wait for each other for ever.                     *)
EveryRequestEnds == \A c \in Client : phase[c] # "idle" ~> phase[c] = "idle"

(* The inductive invariant behind AtLeastOneOwner: a transaction whose     *)
(* write takes an owner away holds the advisory lock, and while it does    *)
(* another owner stays.                                                    *)
RowsLocked ==
    \A c \in Client : phase[c] \in {"guard", "count", "written"} => rowLock[req[c].target] = c

Guarded ==
    \A c \in Client :
        /\ phase[c] = "count" => ownerLock = c
        /\ phase[c] = "written" /\ EndsOwnership(c) =>
              ownerLock = c /\ \E u \in Owners : u # req[c].target

OwnerInv == TypeOK /\ RowsLocked /\ Guarded /\ AtLeastOneOwner

(* The inductive invariant behind EventsTellMembership where a correlation *)
(* id is sent once: a request in flight has an id of its own, and no event *)
(* bears it or an id that nobody has sent.                                 *)
FreshCorrelations ==
    /\ \A c \in Client : phase[c] # "idle" =>
          /\ req[c].corr \notin unused
          /\ \A d \in Client \ {c} : phase[d] # "idle" => req[d].corr # req[c].corr
          /\ \A i \in DOMAIN events : events[i].corr # req[c].corr
    /\ \A i \in DOMAIN events : events[i].corr \notin unused

(* A constraint for TLC where correlation ids may be sent again: an audit *)
(* ledger of a few entries.                                               *)
FewChanges == Len(audit) <= 3
=============================================================================
