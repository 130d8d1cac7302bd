----------------------- MODULE WorkspaceMembersProofs -----------------------
(***************************************************************************)
(* Proofs about WorkspaceMembers for every set of users, connections and   *)
(* correlation ids.                                                        *)
(***************************************************************************)
EXTENDS WorkspaceMembers, Governance, FiniteSetTheorems, SequenceTheorems, TLAPS

LEMMA NoRequestType == NoRequest \in Request
  BY MembersAssumption DEF NoRequest, Request, Role

(* Ending a transaction keeps the types of the lock table. *)
LEMMA ReleaseType ==
    ASSUME TypeOK, NEW c \in Client, Release(c)
    PROVE  /\ rowLock' \in [User -> Client \cup {NoClient}]
           /\ ownerLock' \in Client \cup {NoClient}
           /\ phase' \in [Client -> Phase]
           /\ req' \in [Client -> Request]
           /\ \A d \in Client : phase'[d] = "idle" =>
                 ownerLock' # d /\ \A u \in User : rowLock'[u] # d
<1> USE NoRequestType, MembersAssumption DEF TypeOK, Phase
<1>1. ownerLock' \in Client \cup {NoClient} /\ ownerLock' # c
  BY DEF Release
<1>2. rowLock' \in [User -> Client \cup {NoClient}] /\ \A u \in User : rowLock'[u] # c
  BY DEF Release
<1>3. phase' \in [Client -> Phase] /\ req' \in [Client -> Request]
  BY DEF Release
<1>4. ASSUME NEW d \in Client, phase'[d] = "idle", d # c
      PROVE  ownerLock' # d /\ \A u \in User : rowLock'[u] # d
  BY <1>4 DEF Release
<1>5. QED
  BY <1>1, <1>2, <1>3, <1>4

LEMMA RefuseType ==
    ASSUME TypeOK, NEW c \in Client, Refuse(c)
    PROVE  TypeOK'
BY ReleaseType DEF Refuse, TypeOK, history

(* The tables, locks and requests keep their types, and a connection that  *)
(* serves no request holds no lock.                                        *)
THEOREM TypeCorrect == Spec => []TypeOK
<1>1. Init => TypeOK
  BY NoRequestType, MembersAssumption DEF Init, TypeOK, Role, Phase
<1>2. TypeOK /\ [Next]_vars => TypeOK'
  <2> SUFFICES ASSUME TypeOK, [Next]_vars PROVE TypeOK'
    OBVIOUS
  <2> USE MembersAssumption DEF locks, history
  <2>1. ASSUME NEW c \in Client, Authorize(c) PROVE TypeOK'
    <3>1. PICK a \in Owners, t \in User, r \in Role, k \in unused :
              /\ req' = [req EXCEPT ![c] =
                    [actor |-> a, target |-> t, new |-> r, corr |-> k, was |-> FALSE]]
              /\ unused' = IF ReuseCorrelation THEN unused ELSE unused \ {k}
      BY <2>1 DEF Authorize
    <3>2. [actor |-> a, target |-> t, new |-> r, corr |-> k, was |-> FALSE] \in Request
      BY DEF Request, Owners, TypeOK
    <3>3. req' \in [Client -> Request] /\ unused' \subseteq Correlation
      BY <3>1, <3>2 DEF TypeOK
    <3>4. QED
      BY <2>1, <3>3 DEF Authorize, TypeOK, Phase
  <2>2. ASSUME NEW c \in Client, CheckOwner(c) PROVE TypeOK'
    <3>1. CASE Refuse(c)
      BY <3>1, RefuseType
    <3>2. CASE /\ phase' = [phase EXCEPT ![c] = IF Removal(c) THEN "read" ELSE "checked"]
               /\ UNCHANGED <<role, locks, req, unused, history>>
      BY <3>2 DEF TypeOK, Phase
    <3>3. QED
      BY <2>2, <3>1, <3>2 DEF CheckOwner
  <2>3. ASSUME NEW c \in Client, ReadBefore(c) PROVE TypeOK'
    <3> DEFINE found == role[req[c].target] # "none"
    <3>1. req' \in [Client -> Request]
      <4>1. req \in [Client -> Request] /\ req[c] \in Request
        BY DEF TypeOK
      <4>2. req' = [req EXCEPT ![c] = [req[c] EXCEPT !.was = found]]
        BY <2>3, <4>1 DEF ReadBefore, Request
      <4>3. found \in BOOLEAN
        OBVIOUS
      <4> HIDE DEF found
      <4>4. [req[c] EXCEPT !.was = found] \in Request
        BY <4>1, <4>3 DEF Request
      <4>5. QED
        BY <4>1, <4>2, <4>4
    <3>2. QED
      BY <2>3, <3>1 DEF ReadBefore, TypeOK, Phase
  <2>4. ASSUME NEW c \in Client, LockRow(c) PROVE TypeOK'
    <3>1. CASE Refuse(c)
      BY <3>1, RefuseType
    <3>2. CASE /\ rowLock' = [rowLock EXCEPT ![req[c].target] = c]
               /\ phase' = [phase EXCEPT ![c] = IF EndsOwnership(c) THEN "guard" ELSE "written"]
               /\ UNCHANGED <<role, ownerLock, req, unused, history>>
      BY <3>2 DEF TypeOK, Phase
    <3>3. QED
      BY <2>4, <3>1, <3>2 DEF LockRow
  <2>5. ASSUME NEW c \in Client, LockOwners(c) PROVE TypeOK'
    BY <2>5 DEF LockOwners, TypeOK, Phase
  <2>6. ASSUME NEW c \in Client, CountOwners(c) PROVE TypeOK'
    <3>1. CASE Refuse(c)
      BY <3>1, RefuseType
    <3>2. CASE phase' = [phase EXCEPT ![c] = "written"]
               /\ UNCHANGED <<role, locks, req, unused, history>>
      BY <3>2 DEF TypeOK, Phase
    <3>3. QED
      BY <2>6, <3>1, <3>2 DEF CountOwners
  <2>7. ASSUME NEW c \in Client, Commit(c) PROVE TypeOK'
    <3>1. req[c] \in Request /\ ChangeOf(c) \in Change
      BY DEF TypeOK, ChangeOf, Change
    <3>2. role' \in [User -> Role]
      BY <2>7, <3>1 DEF Commit, TypeOK, Request
    <3>3. audit' \in Seq([actor : User, user : User, change : Change, role : Role])
      BY <2>7, <3>1 DEF Commit, Record, TypeOK, Request
    <3>4. events' \in Seq([user : User, change : Change, role : Role, corr : Correlation])
      <4>1. CASE events' = events
        BY <4>1 DEF TypeOK
      <4>2. CASE events' = Append(events, [user |-> req[c].target, change |-> ChangeOf(c),
                                            role |-> req[c].new, corr |-> req[c].corr])
        BY <3>1, <4>2 DEF TypeOK, Request
      <4>3. QED
        BY <2>7, <4>1, <4>2 DEF Commit, Record
    <3>5. QED
      BY <2>7, <3>2, <3>3, <3>4, ReleaseType DEF Commit, TypeOK
  <2>8. ASSUME NEW c \in Client, Abort(c) PROVE TypeOK'
    BY <2>8, RefuseType DEF Abort
  <2>9. CASE UNCHANGED vars
    BY <2>9 DEF vars, TypeOK
  <2>10. QED
    BY <2>1, <2>2, <2>3, <2>4, <2>5, <2>6, <2>7, <2>8, <2>9 DEF Next, Step
<1>3. QED
  BY <1>1, <1>2, PTL DEF Spec
-----------------------------------------------------------------------------
(* A set with more than one member has a member besides any given one. *)
LEMMA AnotherMember ==
    ASSUME NEW S, Cardinality(S) > 1, IsFiniteSet(S), NEW x
    PROVE  \E y \in S : y # x
<1> SUFFICES ASSUME \A y \in S : y = x PROVE FALSE
  OBVIOUS
<1>1. S \in SUBSET {x}
  OBVIOUS
<1>2. IsFiniteSet({x}) /\ Cardinality({x}) = 1
  BY FS_Singleton
<1>3. Cardinality(S) <= 1 /\ Cardinality(S) \in Nat
  BY <1>1, <1>2, FS_Subset, FS_CardinalityType
<1>4. QED
  BY <1>3

(* A rollback frees locks and changes no membership. *)
LEMMA RefuseInv ==
    ASSUME OwnerInv, NEW c \in Client, Refuse(c)
    PROVE  RowsLocked' /\ Guarded' /\ AtLeastOneOwner'
<1> USE DEF OwnerInv, TypeOK, Refuse, Release
<1>1. AtLeastOneOwner'
  BY DEF AtLeastOneOwner, Owners
<1>2. RowsLocked'
  <2> SUFFICES ASSUME NEW d \in Client, phase'[d] \in {"guard", "count", "written"}
               PROVE  rowLock'[req'[d].target] = d
    BY DEF RowsLocked
  <2>1. d # c /\ phase'[d] = phase[d] /\ req'[d] = req[d]
    OBVIOUS
  <2>2. rowLock[req[d].target] = d /\ req[d].target \in User
    BY <2>1 DEF RowsLocked, Request
  <2>3. QED
    BY <2>1, <2>2
<1>3. Guarded'
  <2> SUFFICES ASSUME NEW d \in Client
               PROVE  /\ phase'[d] = "count" => ownerLock' = d
                      /\ phase'[d] = "written" /\ EndsOwnership(d)' =>
                            ownerLock' = d /\ \E u \in Owners' : u # req'[d].target
    BY DEF Guarded
  <2>1. CASE d = c
    BY <2>1
  <2>2. CASE d # c
    <3>1. phase'[d] = phase[d] /\ req'[d] = req[d] /\ Owners' = Owners
      BY <2>2 DEF Owners
    <3>2. EndsOwnership(d)' <=> EndsOwnership(d)
      BY <3>1 DEF EndsOwnership
    <3>3. ownerLock = d => ownerLock' = d
      BY <2>2
    <3>4. QED
      BY <3>1, <3>2, <3>3 DEF Guarded
  <2>3. QED
    BY <2>1, <2>2
<1>4. QED
  BY <1>1, <1>2, <1>3

(* A step of c that leaves the memberships alone and every lock somebody   *)
(* holds in place disturbs at most what the invariant says of c itself.    *)
LEMMA OthersUndisturbed ==
    ASSUME OwnerInv, NEW c \in Client, role' = role,
           \A d \in Client \ {c} : phase'[d] = phase[d] /\ req'[d] = req[d],
           \A u \in User : rowLock[u] # NoClient => rowLock'[u] = rowLock[u],
           ownerLock # NoClient => ownerLock' = ownerLock,
           phase'[c] \in {"guard", "count", "written"} => rowLock'[req'[c].target] = c,
           phase'[c] = "count" => ownerLock' = c,
           phase'[c] = "written" /\ EndsOwnership(c)' =>
              ownerLock' = c /\ \E u \in Owners : u # req'[c].target
    PROVE  RowsLocked' /\ Guarded' /\ AtLeastOneOwner'
<1>1. Owners' = Owners
  BY DEF Owners
<1>2. AtLeastOneOwner'
  BY <1>1 DEF OwnerInv, AtLeastOneOwner
<1>3. ASSUME NEW d \in Client, d # c
      PROVE  /\ phase'[d] \in {"guard", "count", "written"} => rowLock'[req'[d].target] = d
             /\ phase'[d] = "count" => ownerLock' = d
             /\ phase'[d] = "written" /\ EndsOwnership(d)' =>
                   ownerLock' = d /\ \E u \in Owners' : u # req'[d].target
  <2>1. phase'[d] = phase[d] /\ req'[d] = req[d] /\ req[d].target \in User /\ d # NoClient
    BY <1>3, MembersAssumption DEF OwnerInv, TypeOK, Request
  <2>2. EndsOwnership(d)' <=> EndsOwnership(d)
    BY <2>1 DEF EndsOwnership
  <2>3. phase'[d] \in {"guard", "count", "written"} => rowLock'[req'[d].target] = d
    BY <2>1 DEF OwnerInv, RowsLocked
  <2>4. phase'[d] = "count" => ownerLock' = d
    BY <2>1 DEF OwnerInv, Guarded
  <2>5. phase'[d] = "written" /\ EndsOwnership(d)' =>
           ownerLock' = d /\ \E u \in Owners' : u # req'[d].target
    BY <1>1, <2>1, <2>2 DEF OwnerInv, Guarded
  <2>6. QED
    BY <2>3, <2>4, <2>5
<1>4. RowsLocked' /\ Guarded'
  BY <1>1, <1>3 DEF RowsLocked, Guarded
<1>5. QED
  BY <1>2, <1>4

(* A commit writes the row its transaction has locked.  If it takes an     *)
(* owner away, the trigger has seen another one, and nobody else can be    *)
(* about to do the same without the advisory lock.                         *)
LEMMA CommitInv ==
    ASSUME OwnerInv, NEW c \in Client, Commit(c)
    PROVE  RowsLocked' /\ Guarded' /\ AtLeastOneOwner'
<1> DEFINE t == req[c].target
<1>1. /\ t \in User /\ req[c].new \in Role /\ phase[c] = "written"
      /\ rowLock[t] = c
      /\ role' = [role EXCEPT ![t] = req[c].new]
  BY DEF Commit, OwnerInv, TypeOK, RowsLocked, Request
<1>2. \A d \in Client \ {c} : phase'[d] = phase[d] /\ req'[d] = req[d] /\ req[d].target \in User
  BY DEF Commit, Release, OwnerInv, TypeOK, Request
<1>3. phase'[c] = "idle" /\ role \in [User -> Role]
  BY DEF Commit, Release, OwnerInv, TypeOK
<1>4. RowsLocked'
  <2> SUFFICES ASSUME NEW d \in Client, phase'[d] \in {"guard", "count", "written"}
               PROVE  rowLock'[req'[d].target] = d
    BY DEF RowsLocked
  <2>1. d # c
    BY <1>3
  <2>2. rowLock[req[d].target] = d
    BY <1>2, <2>1 DEF OwnerInv, RowsLocked
  <2>3. QED
    BY <1>2, <2>1, <2>2 DEF Commit, Release, OwnerInv, TypeOK
<1>5. AtLeastOneOwner'
  <2>1. CASE EndsOwnership(c)
    <3>1. PICK u \in Owners : u # t
      BY <1>1, <2>1 DEF OwnerInv, Guarded
    <3>2. u \in Owners'
      BY <1>1, <1>3, <3>1 DEF Owners
    <3>3. QED
      BY <3>2 DEF AtLeastOneOwner
  <2>2. CASE ~EndsOwnership(c)
    <3>1. PICK u \in User : role[u] = "owner"
      BY DEF OwnerInv, AtLeastOneOwner, Owners
    <3>2. role'[u] = "owner"
      BY <1>1, <1>3, <2>2, <3>1 DEF EndsOwnership
    <3>3. QED
      BY <3>2 DEF AtLeastOneOwner, Owners
  <2>3. QED
    BY <2>1, <2>2
<1>6. Guarded'
  <2> SUFFICES ASSUME NEW d \in Client
               PROVE  /\ phase'[d] = "count" => ownerLock' = d
                      /\ phase'[d] = "written" /\ EndsOwnership(d)' =>
                            ownerLock' = d /\ \E u \in Owners' : u # req'[d].target
    BY DEF Guarded
  <2>1. CASE d = c
    BY <1>3, <2>1
  <2>2. CASE d # c
    <3>1. phase'[d] = phase[d] /\ req'[d] = req[d] /\ req[d].target \in User
      BY <1>2, <2>2
    <3>2. ownerLock = d => ownerLock' = d
      BY <2>2 DEF Commit, Release
    <3>3. phase'[d] = "count" => ownerLock' = d
      BY <3>1, <3>2 DEF OwnerInv, Guarded
    <3>4. ASSUME phase'[d] = "written", EndsOwnership(d)'
          PROVE  ownerLock' = d /\ \E u \in Owners' : u # req'[d].target
      <4>1. rowLock[req[d].target] = d
        BY <3>1, <3>4 DEF OwnerInv, RowsLocked
      <4>2. req[d].target # t
        BY <1>1, <2>2, <4>1
      <4>3. role'[req[d].target] = role[req[d].target]
        BY <1>1, <1>3, <3>1, <4>2
      <4>4. EndsOwnership(d)
        BY <3>1, <3>4, <4>3 DEF EndsOwnership
      <4>5. ownerLock = d
        BY <3>1, <3>4, <4>4 DEF OwnerInv, Guarded
      <4>6. PICK u \in Owners : u # req[d].target
        BY <3>1, <3>4, <4>4 DEF OwnerInv, Guarded
      <4>7. ~EndsOwnership(c)
        BY <1>1, <2>2, <4>5 DEF OwnerInv, Guarded
      <4>8. u \in Owners'
        BY <1>1, <1>3, <4>6, <4>7 DEF Owners, EndsOwnership
      <4>9. QED
        BY <3>1, <3>2, <4>5, <4>6, <4>8
    <3>5. QED
      BY <3>3, <3>4
  <2>3. QED
    BY <2>1, <2>2
<1>7. QED
  BY <1>4, <1>5, <1>6

(* The workspace always has an owner: concurrent demotions and removals    *)
(* of several owners, by whomever, leave one (migration 002).              *)
THEOREM OwnerKept == Spec => []AtLeastOneOwner
<1>1. Init => RowsLocked /\ Guarded /\ AtLeastOneOwner
  BY MembersAssumption DEF Init, RowsLocked, Guarded, AtLeastOneOwner, Owners
<1>2. OwnerInv /\ [Next]_vars => RowsLocked' /\ Guarded' /\ AtLeastOneOwner'
  <2> SUFFICES ASSUME OwnerInv, [Next]_vars PROVE RowsLocked' /\ Guarded' /\ AtLeastOneOwner'
    OBVIOUS
  <2> USE MembersAssumption DEF locks, history
  <2>1. ASSUME NEW c \in Client, Authorize(c) PROVE RowsLocked' /\ Guarded' /\ AtLeastOneOwner'
    <3>1. /\ role' = role /\ rowLock' = rowLock /\ ownerLock' = ownerLock
          /\ phase' = [phase EXCEPT ![c] = "authorized"]
      BY <2>1 DEF Authorize
    <3>2. \A d \in Client \ {c} : req'[d] = req[d]
      BY <2>1 DEF Authorize, OwnerInv, TypeOK
    <3>3. QED
      BY <3>1, <3>2, OthersUndisturbed DEF OwnerInv, TypeOK
  <2>2. ASSUME NEW c \in Client, CheckOwner(c) PROVE RowsLocked' /\ Guarded' /\ AtLeastOneOwner'
    <3>1. CASE Refuse(c)
      BY <3>1, RefuseInv
    <3>2. CASE /\ phase' = [phase EXCEPT ![c] = IF Removal(c) THEN "read" ELSE "checked"]
               /\ UNCHANGED <<role, locks, req, unused, history>>
      BY <3>2, OthersUndisturbed DEF OwnerInv, TypeOK
    <3>3. QED
      BY <2>2, <3>1, <3>2 DEF CheckOwner
  <2>3. ASSUME NEW c \in Client, ReadBefore(c) PROVE RowsLocked' /\ Guarded' /\ AtLeastOneOwner'
    <3>1. \A d \in Client \ {c} : phase'[d] = phase[d] /\ req'[d] = req[d]
      BY <2>3 DEF ReadBefore, OwnerInv, TypeOK
    <3>2. phase'[c] = "read" /\ role' = role /\ rowLock' = rowLock /\ ownerLock' = ownerLock
      BY <2>3 DEF ReadBefore, OwnerInv, TypeOK
    <3>3. QED
      BY <3>1, <3>2, OthersUndisturbed
  <2>4. ASSUME NEW c \in Client, LockRow(c) PROVE RowsLocked' /\ Guarded' /\ AtLeastOneOwner'
    <3>1. CASE Refuse(c)
      BY <3>1, RefuseInv
    <3>2. CASE /\ rowLock' = [rowLock EXCEPT ![req[c].target] = c]
               /\ phase' = [phase EXCEPT ![c] = IF EndsOwnership(c) THEN "guard" ELSE "written"]
               /\ UNCHANGED <<role, ownerLock, req, unused, history>>
      <4>1. rowLock[req[c].target] = NoClient /\ req[c].target \in User
        BY <2>4 DEF LockRow, OwnerInv, TypeOK, Request
      <4>2. phase'[c] = "written" => ~EndsOwnership(c)'
        BY <3>2 DEF EndsOwnership, OwnerInv, TypeOK
      <4>3. phase'[c] # "count" /\ rowLock'[req'[c].target] = c
        BY <3>2, <4>1 DEF OwnerInv, TypeOK
      <4>4. /\ \A d \in Client \ {c} : phase'[d] = phase[d] /\ req'[d] = req[d]
            /\ \A u \in User : rowLock[u] # NoClient => rowLock'[u] = rowLock[u]
        BY <3>2, <4>1 DEF OwnerInv, TypeOK
      <4>5. role' = role /\ ownerLock' = ownerLock
        BY <3>2
      <4>6. QED
        BY <4>2, <4>3, <4>4, <4>5, OthersUndisturbed
    <3>3. QED
      BY <2>4, <3>1, <3>2 DEF LockRow
  <2>5. ASSUME NEW c \in Client, LockOwners(c) PROVE RowsLocked' /\ Guarded' /\ AtLeastOneOwner'
    <3>1. rowLock[req[c].target] = c
      BY <2>5 DEF LockOwners, OwnerInv, RowsLocked
    <3>2. QED
      BY <2>5, <3>1, OthersUndisturbed DEF LockOwners, OwnerInv, TypeOK
  <2>6. ASSUME NEW c \in Client, CountOwners(c) PROVE RowsLocked' /\ Guarded' /\ AtLeastOneOwner'
    <3>1. CASE Refuse(c)
      BY <3>1, RefuseInv
    <3>2. CASE /\ Cardinality(Owners) > 1
               /\ phase' = [phase EXCEPT ![c] = "written"]
               /\ UNCHANGED <<role, locks, req, unused, history>>
      <4>1. IsFiniteSet(Owners)
        BY FS_Subset DEF Owners
      <4>2. \E u \in Owners : u # req[c].target
        BY <3>2, <4>1, AnotherMember
      <4>3. rowLock[req[c].target] = c /\ ownerLock = c
        BY <2>6 DEF CountOwners, OwnerInv, RowsLocked, Guarded
      <4>4. QED
        BY <3>2, <4>2, <4>3, OthersUndisturbed DEF OwnerInv, TypeOK
    <3>3. QED
      BY <2>6, <3>1, <3>2 DEF CountOwners
  <2>7. ASSUME NEW c \in Client, Commit(c) PROVE RowsLocked' /\ Guarded' /\ AtLeastOneOwner'
    BY <2>7, CommitInv
  <2>8. ASSUME NEW c \in Client, Abort(c) PROVE RowsLocked' /\ Guarded' /\ AtLeastOneOwner'
    BY <2>8, RefuseInv DEF Abort
  <2>9. CASE UNCHANGED vars
    BY <2>9 DEF vars, OwnerInv, RowsLocked, Guarded, AtLeastOneOwner, Owners, EndsOwnership
  <2>10. QED
    BY <2>1, <2>2, <2>3, <2>4, <2>5, <2>6, <2>7, <2>8, <2>9 DEF Next, Step
<1>3. QED
  BY <1>1, <1>2, TypeCorrect, PTL DEF Spec, OwnerInv
(* Appending an entry makes it the last one about its user and keeps what  *)
(* the log says last about everybody else.                                 *)
LEMMA LastAfterAppend ==
    ASSUME NEW R, NEW log \in Seq(R), NEW e \in R, NEW u
    PROVE  /\ e.user = u => LastAbout(Append(log, e), u, Len(log) + 1)
           /\ e.user # u => \A i \in DOMAIN log :
                 LastAbout(log, u, i) => LastAbout(Append(log, e), u, i)
<1> DEFINE new == Append(log, e)
<1>1. /\ DOMAIN new = 1 .. Len(log) + 1 /\ DOMAIN log = 1 .. Len(log) /\ Len(log) \in Nat
      /\ new[Len(log) + 1] = e
      /\ \A i \in DOMAIN log : new[i] = log[i]
  OBVIOUS
<1>2. e.user = u => LastAbout(new, u, Len(log) + 1)
  BY <1>1 DEF LastAbout
<1>3. ASSUME e.user # u, NEW i \in DOMAIN log, LastAbout(log, u, i)
      PROVE  LastAbout(new, u, i)
  <2>1. new[i].user = u
    BY <1>1, <1>3 DEF LastAbout
  <2>2. ASSUME NEW j \in DOMAIN new, j > i PROVE new[j].user # u
    <3>1. CASE j \in DOMAIN log
      BY <1>1, <1>3, <2>2, <3>1 DEF LastAbout
    <3>2. CASE j = Len(log) + 1
      BY <1>1, <1>3, <3>2
    <3>3. QED
      BY <1>1, <3>1, <3>2
  <2>3. QED
    BY <2>1, <2>2 DEF LastAbout
<1>4. QED
  BY <1>2, <1>3

(* A log of the entry that is written with the row keeps telling the rows. *)
LEMMA TellsAfterAppend ==
    ASSUME NEW R, NEW log \in Seq(R), NEW e \in R, Tells(log),
           role \in [User -> Role], role' = [role EXCEPT ![e.user] = e.role]
    PROVE  Tells(Append(log, e))'
<1> DEFINE new == Append(log, e)
<1>1. /\ DOMAIN new = 1 .. Len(log) + 1 /\ DOMAIN log = 1 .. Len(log)
      /\ Len(log) \in Nat /\ new[Len(log) + 1] = e
      /\ \A i \in DOMAIN log : new[i] = log[i]
  OBVIOUS
<1> SUFFICES ASSUME NEW u \in User
             PROVE  \/ \E i \in DOMAIN new : LastAbout(new, u, i) /\ new[i].role = role'[u]
                    \/ /\ \A i \in DOMAIN new : new[i].user # u
                       /\ role'[u] = IF u = Founder THEN "owner" ELSE "none"
  BY DEF Tells, LastAbout
<1>2. CASE u = e.user
  <2>1. LastAbout(new, u, Len(log) + 1)
    BY <1>2, LastAfterAppend
  <2>2. new[Len(log) + 1].role = role'[u] /\ Len(log) + 1 \in DOMAIN new
    BY <1>1, <1>2
  <2> QED BY <2>1, <2>2
<1>3. CASE u # e.user
  <2>1. role'[u] = role[u]
    BY <1>3
  <2>2. CASE \E i \in DOMAIN log : LastAbout(log, u, i) /\ log[i].role = role[u]
    <3>1. PICK i \in DOMAIN log : LastAbout(log, u, i) /\ log[i].role = role[u]
      BY <2>2
    <3>2. LastAbout(new, u, i)
      BY <1>3, <3>1, LastAfterAppend
    <3>3. i \in DOMAIN new /\ new[i].role = role'[u]
      BY <1>1, <2>1, <3>1
    <3> QED BY <3>2, <3>3
  <2>3. CASE /\ \A i \in DOMAIN log : log[i].user # u
             /\ role[u] = IF u = Founder THEN "owner" ELSE "none"
    BY <1>1, <1>3, <2>1, <2>3
  <2> QED BY <2>2, <2>3 DEF Tells
<1> QED BY <1>2, <1>3

LEMMA RoleAfterCommit ==
    ASSUME TypeOK, NEW c \in Client, Commit(c)
    PROVE  /\ req[c] \in Request /\ ChangeOf(c) \in Change
           /\ role \in [User -> Role] /\ role' = [role EXCEPT ![req[c].target] = req[c].new]
  BY DEF Commit, TypeOK, ChangeOf, Change

LEMMA OthersLeaveHistory ==
    ASSUME NEW c \in Client, Authorize(c) \/ CheckOwner(c) \/ ReadBefore(c) \/ LockRow(c)
                             \/ LockOwners(c) \/ CountOwners(c) \/ Abort(c)
    PROVE  role' = role /\ audit' = audit /\ events' = events
  BY DEF Authorize, CheckOwner, ReadBefore, LockRow, LockOwners, CountOwners, Abort,
         Refuse, history

(* The audit log tells the membership, because the audit row is written in *)
(* the transaction that writes the member and under the lock of its row.   *)
THEOREM AuditComplete == Spec => []AuditTellsMembership
<1>1. Init => AuditTellsMembership
  BY DEF Init, AuditTellsMembership, Tells
<1>2. TypeOK /\ AuditTellsMembership /\ [Next]_vars => AuditTellsMembership'
  <2> SUFFICES ASSUME TypeOK, AuditTellsMembership, [Next]_vars PROVE AuditTellsMembership'
    OBVIOUS
  <2>1. CASE UNCHANGED <<role, audit>>
    BY <2>1 DEF AuditTellsMembership, Tells, LastAbout
  <2>2. ASSUME NEW c \in Client, Commit(c) PROVE AuditTellsMembership'
    <3>1. PICK R, log, e : /\ R = [actor : User, user : User, change : Change, role : Role]
                           /\ log = audit
                           /\ e = [actor |-> req[c].actor, user |-> req[c].target,
                                   change |-> ChangeOf(c), role |-> req[c].new]
      OBVIOUS
    <3>2. e \in R /\ log \in Seq(R) /\ audit' = Append(log, e)
      BY <2>2, <3>1, RoleAfterCommit DEF Commit, Record, TypeOK, Request
    <3>3. Tells(log)
      BY <3>1 DEF AuditTellsMembership, Tells, LastAbout
    <3>4. role \in [User -> Role] /\ role' = [role EXCEPT ![e.user] = e.role]
      BY <2>2, <3>1, RoleAfterCommit
    <3>5. Tells(Append(log, e))'
      BY <3>2, <3>3, <3>4, TellsAfterAppend
    <3> QED BY <3>2, <3>5 DEF AuditTellsMembership, Tells, LastAbout
  <2> QED BY <2>1, <2>2, OthersLeaveHistory DEF Next, Step, vars, history
<1>3. QED
  BY <1>1, <1>2, TypeCorrect, PTL DEF Spec

-----------------------------------------------------------------------------
(* A step of one client that neither sends an id nor writes an event.      *)
LEMMA FreshStill ==
    ASSUME TypeOK, FreshCorrelations, NEW c \in Client, unused' = unused, events' = events,
           \A d \in Client \ {c} : phase'[d] = phase[d] /\ req'[d] = req[d],
           phase[c] # "idle", phase'[c] = "idle" \/ req'[c].corr = req[c].corr
    PROVE  FreshCorrelations'
<1>1. \A d \in Client : phase'[d] # "idle" => phase[d] # "idle" /\ req'[d].corr = req[d].corr
  OBVIOUS
<1> QED BY <1>1 DEF FreshCorrelations

LEMMA ReleaseOthers ==
    ASSUME TypeOK, NEW c \in Client, Release(c)
    PROVE  /\ phase'[c] = "idle"
           /\ \A d \in Client \ {c} : phase'[d] = phase[d] /\ req'[d] = req[d]
  BY DEF TypeOK, Release

LEMMA FreshSteps ==
    ASSUME TypeOK, FreshCorrelations, NEW c \in Client,
           CheckOwner(c) \/ ReadBefore(c) \/ LockRow(c) \/ LockOwners(c) \/ CountOwners(c) \/ Abort(c)
    PROVE  FreshCorrelations'
<1>1. unused' = unused /\ events' = events /\ phase[c] # "idle"
  BY DEF CheckOwner, ReadBefore, LockRow, LockOwners, CountOwners, Abort, Refuse, history
<1>2. CASE Refuse(c)
  BY <1>1, <1>2, ReleaseOthers, FreshStill DEF Refuse
<1>3. CASE req' = req /\ \E p \in Phase : phase' = [phase EXCEPT ![c] = p]
  <2>1. \A d \in Client \ {c} : phase'[d] = phase[d] /\ req'[d] = req[d]
    BY <1>3 DEF TypeOK
  <2> QED BY <1>1, <1>3, <2>1, FreshStill
<1>4. CASE ReadBefore(c)
  <2>1. /\ \A d \in Client \ {c} : phase'[d] = phase[d] /\ req'[d] = req[d]
        /\ req'[c].corr = req[c].corr
    BY <1>4 DEF ReadBefore, TypeOK, Request
  <2> QED BY <1>1, <2>1, FreshStill
<1> QED BY <1>2, <1>3, <1>4 DEF CheckOwner, ReadBefore, LockRow, LockOwners, CountOwners, Abort,
                                Phase

(* Where a correlation id is sent once, the members.updated events tell    *)
(* the membership too: none is taken for the repetition of another.        *)
THEOREM EventsComplete ==
    ASSUME ~ReuseCorrelation
    PROVE  Spec => []EventsTellMembership
<1> DEFINE I == EventsTellMembership /\ FreshCorrelations
<1>1. Init => I
  BY DEF Init, EventsTellMembership, Tells, FreshCorrelations
<1>2. TypeOK /\ I /\ [Next]_vars => I'
  <2> SUFFICES ASSUME TypeOK, EventsTellMembership, FreshCorrelations, [Next]_vars
               PROVE  EventsTellMembership' /\ FreshCorrelations'
    OBVIOUS
  <2>1. CASE UNCHANGED vars
    BY <2>1 DEF EventsTellMembership, Tells, LastAbout, FreshCorrelations, vars, history
  <2>2. ASSUME NEW c \in Client, Commit(c) PROVE EventsTellMembership' /\ FreshCorrelations'
    <3>1. PICK R, log, e : /\ R = [user : User, change : Change, role : Role, corr : Correlation]
                           /\ log = events
                           /\ e = [user |-> req[c].target, change |-> ChangeOf(c),
                                   role |-> req[c].new, corr |-> req[c].corr]
      OBVIOUS
    <3>2. phase[c] # "idle" /\ unused' = unused
      BY <2>2 DEF Commit
    <3>3. ~AlreadyAnnounced(c)
      BY <3>2 DEF AlreadyAnnounced, FreshCorrelations
    <3>4. e \in R /\ log \in Seq(R) /\ events' = Append(log, e)
      BY <2>2, <3>1, <3>3, RoleAfterCommit DEF Commit, Record, TypeOK, Request
    <3>5. Tells(log)
      BY <3>1 DEF EventsTellMembership, Tells, LastAbout
    <3>6. role \in [User -> Role] /\ role' = [role EXCEPT ![e.user] = e.role]
      BY <2>2, <3>1, RoleAfterCommit
    <3>7. Tells(Append(log, e))'
      BY <3>4, <3>5, <3>6, TellsAfterAppend
    <3>8. EventsTellMembership'
      BY <3>4, <3>7 DEF EventsTellMembership, Tells, LastAbout
    <3>9. /\ phase'[c] = "idle"
          /\ \A d \in Client \ {c} : phase'[d] = phase[d] /\ req'[d] = req[d]
      BY <2>2, ReleaseOthers DEF Commit
    <3>10. \A i \in DOMAIN events' : \/ i \in DOMAIN events /\ events'[i] = events[i]
                                     \/ events'[i].corr = req[c].corr
      BY <3>1, <3>4
    <3>11. \A d \in Client : phase'[d] # "idle" =>
              d # c /\ phase[d] # "idle" /\ req'[d] = req[d]
      BY <3>9
    <3>12. FreshCorrelations'
      BY <3>2, <3>10, <3>11 DEF FreshCorrelations
    <3> QED BY <3>8, <3>12
  <2>3. ASSUME NEW c \in Client, Authorize(c) PROVE EventsTellMembership' /\ FreshCorrelations'
    <3>1. PICK a \in User, t \in User, r \in Role, k \in unused :
            /\ req' = [req EXCEPT ![c] =
                  [actor |-> a, target |-> t, new |-> r, corr |-> k, was |-> FALSE]]
            /\ unused' = unused \ {k}
      BY <2>3 DEF Authorize, Owners
    <3>2. /\ phase[c] = "idle" /\ phase' = [phase EXCEPT ![c] = "authorized"]
          /\ events' = events /\ role' = role
      BY <2>3 DEF Authorize, history
    <3>3. /\ req'[c].corr = k
          /\ \A d \in Client \ {c} : phase'[d] = phase[d] /\ req'[d] = req[d]
      BY <3>1, <3>2 DEF TypeOK
    <3>4. EventsTellMembership'
      BY <3>2 DEF EventsTellMembership, Tells, LastAbout
    <3>5. FreshCorrelations'
      BY <3>1, <3>2, <3>3 DEF FreshCorrelations
    <3> QED BY <3>4, <3>5
  <2>4. ASSUME role' = role, events' = events PROVE EventsTellMembership'
    BY <2>4 DEF EventsTellMembership, Tells, LastAbout
  <2> QED BY <2>1, <2>2, <2>3, <2>4, OthersLeaveHistory, FreshSteps DEF Next, Step
<1>3. I => EventsTellMembership
  OBVIOUS
<1> QED BY <1>1, <1>2, <1>3, TypeCorrect, PTL DEF Spec

-----------------------------------------------------------------------------
(* A step of a request that has a connection: the record n that becomes of  *)
(* the request, and the session m that becomes of its connection, and W and *)
(* V, what is added to the written and the unheard.                         *)
RequestSteps(r, n, m, W, V) ==
    /\ sessionReq' = [sessionReq EXCEPT ![r] = n]
    /\ poolSession' = [poolSession EXCEPT ![sessionReq[r].conn] = m]
    /\ waiting' = IF n.at = "waiting" THEN Append(waiting, r) ELSE waiting
    /\ written' = written \cup W /\ unheard' = unheard \cup V
    /\ UNCHANGED Sessions!world
    /\ sessionFaults' \in 0..MaxSessionFaults

RequestHolds(r, n, m) ==
    /\ \/ n.at \in Sessions!Busy /\ n.conn = sessionReq[r].conn /\ m.at \in {"taken", "broken"}
       \/ n.at \in {"waiting", "answered"} /\ m.at \in {"idle", "closed"}
    /\ m.at \in {"closed", "idle", "broken"} =>
         m.pending = {} /\ m.open = FALSE /\ m.scope = Sessions!Anonymous
    /\ m.pending \subseteq {r}
    /\ r \in m.pending =>
         KindOf[r] = "work" /\ n.step = "work" /\ n.at \in {"worked", "failed"}
    /\ m.at = "taken" /\ KindOf[r] = "work" /\ n.step = "work" /\ n.at = "worked" =>
         r \in m.pending
    /\ m.at = "taken" /\ n.at = "configured" => n.step = sessionReq[r].step /\ m.scope = Sessions!ScopeOf(r)

RequestTells(r, n, m, W, V) ==
    /\ V \subseteq W /\ W \subseteq {r}
    /\ KindOf[r] # "work" => n.step = "work"
    /\ n.answer = "missing" => PartOf[r] = "graph"
    /\ n.at # "answered" => n.answer \in {"none", "missing"}
    /\ n.at = "failed" /\ r \in written \cup W => r \in unheard \cup V /\ m.at = "broken"
    /\ r \in written \cup W =>
         KindOf[r] = "work" /\ n.step = "work" /\ n.at \in {"failed", "answered"}
    /\ n.at = "answered" /\ KindOf[r] = "work" =>
         (n.answer = "ok" <=> r \in written \cup W /\ r \notin unheard \cup V)

RequestMay(r, n) ==
    /\ n.saw \subseteq entitled[r]
    /\ KindOf[r] = "work" /\ n.step = "work" => ProjectOf[r] \in n.saw

LEMMA SessionUserFacts ==
    ASSUME Sessions!SessionsInv, NEW r \in Sessions!Using
    PROVE  /\ r \in SessionRequest /\ sessionReq[r] \in Sessions!Attempt /\ sessionReq[r].at \in Sessions!Busy
           /\ sessionReq[r].conn \in Connection /\ poolSession[sessionReq[r].conn] \in Sessions!Session
           /\ poolSession[sessionReq[r].conn].at \in {"taken", "broken"}
  BY DEF Sessions!SessionsInv, Sessions!TypeOK, Sessions!PoolInv, Sessions!Using

LEMMA SessionHeldFacts ==
    ASSUME Sessions!SessionsInv, NEW r \in Sessions!Using
    PROVE  LET s == poolSession[sessionReq[r].conn] IN
           /\ s.at = "broken" => s.pending = {} /\ s.open = FALSE /\ s.scope = Sessions!Anonymous
           /\ s.pending \subseteq {r}
           /\ r \in s.pending =>
                KindOf[r] = "work" /\ sessionReq[r].step = "work" /\ sessionReq[r].at \in {"worked", "failed"}
           /\ s.at = "taken" /\ KindOf[r] = "work" /\ sessionReq[r].step = "work" /\ sessionReq[r].at = "worked" =>
                r \in s.pending
           /\ s.at = "taken" /\ sessionReq[r].at = "configured" => s.scope = Sessions!ScopeOf(r)
<1>1. sessionReq[r].conn \in Connection
  BY SessionUserFacts
<1> QED BY <1>1 DEF Sessions!SessionsInv, Sessions!SessionInv, Sessions!Wrote

LEMMA SessionOwnFacts ==
    ASSUME Sessions!SessionsInv, NEW q \in Sessions!Using
    PROVE  /\ poolSession[sessionReq[q].conn].pending \subseteq {q}
           /\ q \in poolSession[sessionReq[q].conn].pending => Sessions!Wrote(q)
           /\ poolSession[sessionReq[q].conn].at = "taken" /\ Sessions!Wrote(q) /\ sessionReq[q].at = "worked" =>
                q \in poolSession[sessionReq[q].conn].pending
           /\ poolSession[sessionReq[q].conn].at = "taken" /\ sessionReq[q].at = "configured" =>
                poolSession[sessionReq[q].conn].scope = Sessions!ScopeOf(q)
  BY DEF Sessions!SessionsInv, Sessions!SessionInv

LEMMA SessionAnswerFacts ==
    ASSUME Sessions!SessionsInv, NEW r \in Sessions!Using
    PROVE  /\ KindOf[r] # "work" => sessionReq[r].step = "work"
           /\ sessionReq[r].answer = "missing" => PartOf[r] = "graph"
           /\ sessionReq[r].answer \in {"none", "missing"}
           /\ unheard \subseteq written
           /\ r \in written => /\ r \in unheard /\ poolSession[sessionReq[r].conn].at = "broken"
                               /\ sessionReq[r].at = "failed"
                               /\ KindOf[r] = "work" /\ sessionReq[r].step = "work"
<1>1. r \in SessionRequest /\ sessionReq[r].at \in Sessions!Busy
  BY SessionUserFacts
<1> QED BY <1>1 DEF Sessions!SessionsInv, Sessions!AnswerInv, Sessions!Busy

LEMMA SessionThereFacts ==
    ASSUME Sessions!SessionsInv, NEW r \in Sessions!Using, ~Sessions!Has(PartOf[r])
    PROVE  PartOf[r] = "graph"
<1>1. serving
  BY SessionUserFacts DEF Sessions!SessionsInv, Sessions!ReadyInv, Sessions!Busy
<1>2. /\ Sessions!Has("data plane") /\ Sessions!Has("workspaces") /\ Sessions!Has("discovery") /\ Sessions!Has("administration")
      /\ Sessions!Has("advanced") /\ Sessions!Has("compatibility") /\ Sessions!Has("objects")
  BY <1>1 DEF Sessions!SessionsInv, Sessions!ReadyInv, Sessions!RuntimeReady,
     Sessions!DiscoveryReady, Sessions!AdministrationReady,
              Sessions!DataReady, Sessions!CompatibilityReady, Sessions!ObjectsReady
<1>3. PartOf[r] \in {"data plane", "discovery", "workspaces", "objects",
                     "administration", "advanced", "compatibility", "graph"}
  <2>1. PartOf[r] \in Sessions!Part
    BY SessionUserFacts, GovernanceAssumptions DEF Sessions!TransactionsAssumption
  <2>2. Len(Sessions!Migrations) = 8
    BY DEF Sessions!Migrations
  <2>3. PICK i \in 1..8 : PartOf[r] = Sessions!Migrations[i]
    BY <2>1, <2>2 DEF Sessions!Part
  <2>4. i = 1 \/ i = 2 \/ i = 3 \/ i = 4 \/ i = 5 \/ i = 6 \/ i = 7 \/ i = 8
    BY <2>3
  <2>5. /\ Sessions!Migrations[1] = "data plane" /\ Sessions!Migrations[2] = "discovery"
        /\ Sessions!Migrations[3] = "workspaces" /\ Sessions!Migrations[4] = "objects"
        /\ Sessions!Migrations[5] = "administration" /\ Sessions!Migrations[6] = "advanced"
        /\ Sessions!Migrations[7] = "compatibility" /\ Sessions!Migrations[8] = "graph"
    BY DEF Sessions!Migrations
  <2> QED BY <2>3, <2>4, <2>5
<1> QED BY <1>2, <1>3

LEMMA SessionScopeTypes ==
    /\ Sessions!Anonymous \in Sessions!Scopes
    /\ \A r \in SessionRequest : Sessions!ScopeOf(r) \in Sessions!Scopes
<1>1. \A r \in SessionRequest : TenantOf[ProjectOf[r]] \in Sessions!Tenant /\ ProjectOf[r] \in SessionProject
                         /\ RequestUser[r] \in Sessions!Caller
  BY GovernanceAssumptions DEF Sessions!TransactionsAssumption, Sessions!Tenant, Sessions!Caller
<1> QED BY <1>1 DEF Sessions!Anonymous, Sessions!ScopeOf, Sessions!Scopes

LEMMA SessionStepKeeps ==
    ASSUME Sessions!SessionsInv, NEW r \in Sessions!Using, NEW n \in Sessions!Attempt, NEW m \in Sessions!Session,
           NEW W, NEW V, RequestSteps(r, n, m, W, V),
           RequestHolds(r, n, m), RequestTells(r, n, m, W, V), RequestMay(r, n)
    PROVE  Sessions!SessionsInv'
<1> DEFINE c == sessionReq[r].conn
<1>1. /\ r \in SessionRequest /\ sessionReq[r] \in Sessions!Attempt /\ sessionReq[r].at \in Sessions!Busy
      /\ c \in Connection /\ poolSession[c] \in Sessions!Session /\ poolSession[c].at \in {"taken", "broken"}
  BY SessionUserFacts
<1>2. /\ sessionReq' \in [SessionRequest -> Sessions!Attempt] /\ sessionReq'[r] = n
      /\ \A q \in SessionRequest : q # r => sessionReq'[q] = sessionReq[q]
  BY <1>1 DEF RequestSteps, Sessions!SessionsInv, Sessions!TypeOK
<1>3. /\ poolSession' \in [Connection -> Sessions!Session] /\ poolSession'[c] = m
      /\ \A d \in Connection : d # c => poolSession'[d] = poolSession[d]
  BY <1>1 DEF RequestSteps, Sessions!SessionsInv, Sessions!TypeOK
<1>4. /\ waiting \in Seq(SessionRequest) /\ \A i \in DOMAIN waiting : sessionReq[waiting[i]].at = "waiting"
      /\ \A i, j \in DOMAIN waiting : waiting[i] = waiting[j] => i = j
  BY DEF Sessions!SessionsInv, Sessions!TypeOK, Sessions!PoolInv
<1>5. \A i \in DOMAIN waiting : waiting[i] \in SessionRequest /\ waiting[i] # r
  BY <1>1, <1>4 DEF Sessions!Busy
<1>6. waiting' \in Seq(SessionRequest)
  BY <1>1, <1>4 DEF RequestSteps
<1>7. Sessions!TypeOK'
  BY <1>1, <1>2, <1>3, <1>6 DEF RequestSteps, RequestTells, Sessions!SessionsInv,
     Sessions!TypeOK, Sessions!world
<1>8. \A q \in Sessions!Using : q # r => sessionReq[q].conn # c /\ sessionReq[q].conn \in Connection
  BY <1>1 DEF Sessions!SessionsInv, Sessions!PoolInv
<1>9. ASSUME NEW q \in Sessions!Using', q # r
      PROVE  q \in Sessions!Using /\ q \in SessionRequest /\ sessionReq'[q] = sessionReq[q]
  BY <1>2, <1>9 DEF Sessions!Using
<1>10. r \in Sessions!Using' => n.at \in Sessions!Busy /\ n.conn = c /\ m.at \in {"taken", "broken"}
  BY <1>1, <1>2 DEF Sessions!Using, RequestHolds, Sessions!Busy
<1>11. Sessions!PoolInv'
  <2> DEFINE Waits == /\ \A i \in DOMAIN waiting' : sessionReq'[waiting'[i]].at = "waiting"
                      /\ \A i, j \in DOMAIN waiting' : waiting'[i] = waiting'[j] => i = j
  <2>1. ASSUME n.at = "waiting" PROVE Waits
    <3>1. waiting' = Append(waiting, r)
      BY <2>1 DEF RequestSteps
    <3>2. /\ DOMAIN waiting' = 1 .. Len(waiting) + 1 /\ DOMAIN waiting = 1 .. Len(waiting)
          /\ waiting'[Len(waiting) + 1] = r /\ Len(waiting) \in Nat
          /\ \A i \in 1 .. Len(waiting) : waiting'[i] = waiting[i]
      BY <1>1, <1>4, <3>1
    <3>3. \A i \in DOMAIN waiting' : sessionReq'[waiting'[i]].at = "waiting"
      BY <1>2, <1>4, <1>5, <2>1, <3>2
    <3>4. \A i, j \in DOMAIN waiting' : waiting'[i] = waiting'[j] => i = j
      BY <1>4, <1>5, <3>2
    <3> QED BY <3>3, <3>4
  <2>2. ASSUME n.at # "waiting" PROVE Waits
    <3>1. waiting' = waiting
      BY <2>2 DEF RequestSteps
    <3>2. \A i \in DOMAIN waiting' : sessionReq'[waiting'[i]].at = "waiting"
      BY <1>2, <1>4, <1>5, <3>1
    <3>3. \A i, j \in DOMAIN waiting' : waiting'[i] = waiting'[j] => i = j
      BY <1>4, <3>1
    <3> QED BY <3>2, <3>3
  <2>3. \A q \in Sessions!Using' : sessionReq'[q].conn \in Connection /\ poolSession'[sessionReq'[q].conn].at \in {"taken", "broken"}
    <3>1. ASSUME NEW q \in Sessions!Using', q # r
          PROVE  sessionReq'[q].conn \in Connection /\ poolSession'[sessionReq'[q].conn].at \in {"taken", "broken"}
      BY <1>3, <1>8, <1>9, <3>1 DEF Sessions!SessionsInv, Sessions!PoolInv
    <3>2. r \in Sessions!Using' => sessionReq'[r].conn \in Connection /\ poolSession'[sessionReq'[r].conn].at \in {"taken", "broken"}
      BY <1>1, <1>2, <1>3, <1>10
    <3> QED BY <3>1, <3>2
  <2>4. ASSUME NEW p \in Sessions!Using', NEW q \in Sessions!Using', sessionReq'[p].conn = sessionReq'[q].conn
        PROVE  p = q
    <3>1. CASE p = r /\ q # r
      BY <1>2, <1>8, <1>9, <1>10, <2>4, <3>1
    <3>2. CASE p # r /\ q = r
      BY <1>2, <1>8, <1>9, <1>10, <2>4, <3>2
    <3>3. CASE p # r /\ q # r
      BY <1>9, <2>4, <3>3 DEF Sessions!SessionsInv, Sessions!PoolInv
    <3> QED BY <3>1, <3>2, <3>3
  <2> QED BY <2>1, <2>2, <2>3, <2>4 DEF Sessions!PoolInv
<1>12. Sessions!SessionInv'
  <2>1. \A d \in Connection : poolSession'[d].at \in {"closed", "idle", "broken"} =>
           poolSession'[d].pending = {} /\ poolSession'[d].open = FALSE /\ poolSession'[d].scope = Sessions!Anonymous
    BY <1>3 DEF RequestHolds, Sessions!SessionsInv, Sessions!SessionInv
  <2>2. ASSUME NEW q \in Sessions!Using', q # r
        PROVE  /\ sessionReq'[q] = sessionReq[q] /\ q \in Sessions!Using /\ poolSession'[sessionReq'[q].conn] = poolSession[sessionReq[q].conn]
               /\ Sessions!Wrote(q)' <=> Sessions!Wrote(q)
               /\ Sessions!ScopeOf(q)' = Sessions!ScopeOf(q)
    BY <1>2, <1>3, <1>8, <1>9, <2>2 DEF Sessions!Wrote, Sessions!ScopeOf, Sessions!Using
  <2>3. ASSUME r \in Sessions!Using'
        PROVE  /\ poolSession'[sessionReq'[r].conn] = m /\ sessionReq'[r] = n
               /\ Sessions!Wrote(r)' <=> KindOf[r] = "work" /\ n.step = "work" /\ n.at \in {"worked", "failed"}
               /\ n.step = sessionReq[r].step => Sessions!ScopeOf(r)' = Sessions!ScopeOf(r)
    BY <1>2, <1>3, <1>10, <2>3 DEF Sessions!Wrote, Sessions!ScopeOf
  <2>4. ASSUME NEW q \in Sessions!Using'
        PROVE  LET s == poolSession'[sessionReq'[q].conn] IN
               /\ s.pending \subseteq {q} /\ (q \in s.pending => Sessions!Wrote(q)')
               /\ s.at = "taken" /\ Sessions!Wrote(q)' /\ sessionReq'[q].at = "worked" => q \in s.pending
               /\ s.at = "taken" /\ sessionReq'[q].at = "configured" => s.scope = Sessions!ScopeOf(q)'
    <3>1. CASE q = r
      BY <2>3, <2>4, <3>1 DEF RequestHolds
    <3>2. CASE q # r
      BY <2>2, <2>4, <3>2 DEF Sessions!SessionsInv, Sessions!SessionInv
    <3> QED BY <3>1, <3>2
  <2> QED BY <2>1, <2>4 DEF Sessions!SessionInv
<1>13. Sessions!AnswerInv'
  <2>1. \A q \in SessionRequest : q # r => (q \in written' <=> q \in written) /\ (q \in unheard' <=> q \in unheard)
    BY DEF RequestSteps, RequestTells
  <2>2. written' = written \cup W /\ unheard' = unheard \cup V /\ unheard' \subseteq written'
    BY DEF RequestSteps, RequestTells, Sessions!SessionsInv, Sessions!AnswerInv
  <2>3. ASSUME NEW q \in SessionRequest, q # r, sessionReq[q].at = "failed"
        PROVE  poolSession'[sessionReq[q].conn] = poolSession[sessionReq[q].conn]
    BY <1>3, <1>8, <2>3 DEF Sessions!Using, Sessions!Busy
  <2>4. \A q \in SessionRequest : KindOf[q] # "work" => sessionReq'[q].step = "work"
    BY <1>2 DEF RequestTells, Sessions!SessionsInv, Sessions!AnswerInv
  <2>5. ASSUME NEW q \in SessionRequest
        PROVE  /\ sessionReq'[q].answer = "missing" => PartOf[q] = "graph"
               /\ sessionReq'[q].at # "answered" => sessionReq'[q].answer \in {"none", "missing"}
               /\ sessionReq'[q].at = "failed" /\ q \in written' =>
                    q \in unheard' /\ poolSession'[sessionReq'[q].conn].at = "broken"
               /\ q \in written' =>
                    /\ KindOf[q] = "work" /\ sessionReq'[q].step = "work"
                    /\ sessionReq'[q].at \in {"failed", "answered"}
               /\ sessionReq'[q].at = "answered" /\ KindOf[q] = "work" =>
                    (sessionReq'[q].answer = "ok" <=> q \in written' \ unheard')
    <3>1. CASE q = r
      <4>1. n.at = "failed" => poolSession'[sessionReq'[q].conn] = m
        BY <1>2, <1>3, <3>1 DEF RequestHolds, Sessions!Busy
      <4> QED BY <1>2, <2>2, <3>1, <4>1 DEF RequestTells
    <3>2. CASE q # r
      BY <1>2, <2>1, <2>3, <3>2 DEF Sessions!SessionsInv, Sessions!AnswerInv
    <3> QED BY <3>1, <3>2
  <2> QED BY <2>2, <2>4, <2>5 DEF Sessions!AnswerInv
<1>14. Sessions!ReadyInv'
  <2>1. serving /\ serving' = serving /\ schemaState' = schemaState
    BY <1>1 DEF Sessions!SessionsInv, Sessions!ReadyInv, RequestSteps, Sessions!world,
       Sessions!Busy
  <2> QED BY <2>1 DEF Sessions!SessionsInv, Sessions!ReadyInv, Sessions!RuntimeReady,
             Sessions!DiscoveryReady, Sessions!AdministrationReady,
                      Sessions!DataReady, Sessions!CompatibilityReady, Sessions!ObjectsReady, Sessions!Has
<1>15. Sessions!RoleInv'
  <2>1. UNCHANGED <<grant, live, entitled>>
    BY DEF RequestSteps, Sessions!world
  <2>2. \A q \in SessionRequest : q # r => (sessionReq'[q].at = "new" => sessionReq'[q] = Sessions!Fresh(q))
    BY <1>2 DEF Sessions!SessionsInv, Sessions!RoleInv
  <2>3. n.at # "new" /\ sessionReq[r].at \notin {"new", "answered"}
    BY <1>1 DEF RequestHolds, Sessions!Busy
  <2> QED BY <1>2, <2>1, <2>2, <2>3 DEF RequestMay, Sessions!SessionsInv, Sessions!RoleInv,
             Sessions!Selectable, Sessions!AccessibleAs, Sessions!Fresh
<1> QED BY <1>7, <1>11, <1>12, <1>13, <1>14, <1>15 DEF Sessions!SessionsInv

LEMMA SessionFaultTypes ==
    ASSUME Sessions!SessionsInv
    PROVE  /\ sessionFaults \in 0..MaxSessionFaults /\ MaxSessionFaults \in Nat
           /\ sessionReq \in [SessionRequest -> Sessions!Attempt] /\ poolSession \in [Connection -> Sessions!Session]
           /\ \A c : Sessions!Fails(c) => sessionFaults' \in 0..MaxSessionFaults
<1>1. /\ sessionFaults \in 0..MaxSessionFaults /\ MaxSessionFaults \in Nat
      /\ sessionReq \in [SessionRequest -> Sessions!Attempt] /\ poolSession \in [Connection -> Sessions!Session]
  BY GovernanceAssumptions DEF Sessions!TransactionsAssumption, Sessions!SessionsInv,
     Sessions!TypeOK
<1>2. ASSUME NEW c, Sessions!Fails(c)
      PROVE  sessionFaults' \in 0..MaxSessionFaults
  BY <1>1, <1>2 DEF Sessions!Fails
<1> QED BY <1>1, <1>2

(* What a discovery or the policy reads is what the user could select. *)
LEMMA SessionSeesSelectable ==
    ASSUME Sessions!SessionsInv, NEW r \in Sessions!Using, NEW scope, scope.user = RequestUser[r]
    PROVE  Sessions!Sees(r, scope) \subseteq entitled[r] /\ entitled[r] \subseteq Sessions!Tenant \cup SessionProject
<1>1. r \in SessionRequest /\ sessionReq[r].at \in Sessions!Busy
  BY SessionUserFacts
<1>2. Sessions!Selectable(grant, live, RequestUser[r]) \subseteq entitled[r]
  BY <1>1 DEF Sessions!SessionsInv, Sessions!RoleInv, Sessions!Busy
<1>3. entitled[r] \subseteq Sessions!Tenant \cup SessionProject
  BY <1>1 DEF Sessions!SessionsInv, Sessions!TypeOK
<1> QED BY <1>2, <1>3 DEF Sessions!Sees, Sessions!Selectable, Sessions!Accessible

LEMMA SessionBeginKeeps ==
    ASSUME Sessions!SessionsInv, NEW r \in SessionRequest, Sessions!Begin(r)
    PROVE  Sessions!SessionsInv'
<1> DEFINE c == sessionReq[r].conn
           n == [sessionReq[r] EXCEPT !.at = "begun"]
           m == [poolSession[c] EXCEPT !.open = TRUE]
<1>1. r \in Sessions!Using
  BY DEF Sessions!Begin, Sessions!Using, Sessions!Busy
<1>2. /\ sessionReq[r] \in Sessions!Attempt /\ poolSession[c] \in Sessions!Session /\ c \in Connection
      /\ poolSession[c].at \in {"taken", "broken"}
  BY <1>1, SessionUserFacts
<1>3. n \in Sessions!Attempt
  BY <1>2 DEF Sessions!Attempt
<1>4. m \in Sessions!Session
  BY <1>1, <1>2, SessionScopeTypes DEF Sessions!Session, Sessions!Ended
<1>5. RequestSteps(r, n, m, {}, {})
  BY <1>2, SessionFaultTypes DEF Sessions!Begin, RequestSteps
<1>6. RequestHolds(r, n, m)
  BY <1>1, <1>2, SessionHeldFacts DEF Sessions!Begin, RequestHolds, Sessions!Attempt,
     Sessions!Session, Sessions!Busy
<1>7. RequestTells(r, n, m, {}, {})
  BY <1>1, <1>2, SessionHeldFacts, SessionAnswerFacts DEF Sessions!Begin, RequestTells,
     Sessions!Attempt, Sessions!Session, Sessions!Busy
<1>8. RequestMay(r, n)
  BY <1>1, <1>2 DEF Sessions!Begin, RequestMay, Sessions!Attempt, Sessions!SessionsInv,
     Sessions!RoleInv
<1> QED BY <1>1, <1>3, <1>4, <1>5, <1>6, <1>7, <1>8, SessionStepKeeps

LEMMA SessionConfigureKeeps ==
    ASSUME Sessions!SessionsInv, NEW r \in SessionRequest, Sessions!Configure(r)
    PROVE  Sessions!SessionsInv'
<1> DEFINE c == sessionReq[r].conn
           n == [sessionReq[r] EXCEPT !.at = "configured"]
           m == [poolSession[c] EXCEPT !.scope = Sessions!ScopeOf(r)]
<1>1. r \in Sessions!Using
  BY DEF Sessions!Configure, Sessions!Using, Sessions!Busy
<1>2. /\ sessionReq[r] \in Sessions!Attempt /\ poolSession[c] \in Sessions!Session /\ c \in Connection
      /\ poolSession[c].at \in {"taken", "broken"}
  BY <1>1, SessionUserFacts
<1>3. n \in Sessions!Attempt
  BY <1>2 DEF Sessions!Attempt
<1>4. m \in Sessions!Session
  BY <1>1, <1>2, SessionScopeTypes DEF Sessions!Session, Sessions!Ended
<1>5. RequestSteps(r, n, m, {}, {})
  BY <1>2, SessionFaultTypes DEF Sessions!Configure, RequestSteps
<1>6. RequestHolds(r, n, m)
  BY <1>1, <1>2, SessionHeldFacts DEF Sessions!Configure, RequestHolds, Sessions!Attempt,
     Sessions!Session, Sessions!Busy
<1>7. RequestTells(r, n, m, {}, {})
  BY <1>1, <1>2, SessionHeldFacts, SessionAnswerFacts DEF Sessions!Configure, RequestTells,
     Sessions!Attempt, Sessions!Session, Sessions!Busy
<1>8. RequestMay(r, n)
  BY <1>1, <1>2 DEF Sessions!Configure, RequestMay, Sessions!Attempt, Sessions!SessionsInv,
     Sessions!RoleInv
<1> QED BY <1>1, <1>3, <1>4, <1>5, <1>6, <1>7, <1>8, SessionStepKeeps

LEMMA SessionReadKeeps ==
    ASSUME Sessions!SessionsInv, NEW r \in SessionRequest, Sessions!Read(r)
    PROVE  Sessions!SessionsInv'
<1> DEFINE c == sessionReq[r].conn
           n == [sessionReq[r] EXCEPT !.at = "worked", !.saw = Sessions!Sees(r, poolSession[c].scope)]
           m == poolSession[c]
<1>1. r \in Sessions!Using
  BY DEF Sessions!Read, Sessions!Using, Sessions!Busy
<1>2. /\ sessionReq[r] \in Sessions!Attempt /\ poolSession[c] \in Sessions!Session /\ c \in Connection
      /\ poolSession[c].at \in {"taken", "broken"}
  BY <1>1, SessionUserFacts
<1>s. Sessions!Sees(r, poolSession[c].scope) \subseteq entitled[r] /\ entitled[r] \subseteq Sessions!Tenant \cup SessionProject
  <2>1. poolSession[c].scope.user = RequestUser[r]
    <3>1. poolSession[c].scope = Sessions!ScopeOf(r)
      BY <1>1, SessionHeldFacts DEF Sessions!Read
    <3> QED BY <3>1 DEF Sessions!ScopeOf
  <2> QED BY <1>1, <2>1, SessionSeesSelectable
<1>3. n \in Sessions!Attempt /\ n.at = "worked"
  BY <1>2, <1>s DEF Sessions!Attempt
<1>4. m \in Sessions!Session
  BY <1>1, <1>2, SessionScopeTypes DEF Sessions!Session, Sessions!Ended
<1>5. RequestSteps(r, n, m, {}, {})
  BY <1>2, <1>3, SessionFaultTypes DEF Sessions!Read, RequestSteps, Sessions!world
<1>6. RequestHolds(r, n, m)
  BY <1>1, <1>2, SessionHeldFacts DEF Sessions!Read, RequestHolds, Sessions!Attempt,
     Sessions!Session, Sessions!Busy
<1>7. RequestTells(r, n, m, {}, {})
  BY <1>1, <1>2, SessionHeldFacts, SessionAnswerFacts DEF Sessions!Read, RequestTells,
     Sessions!Attempt, Sessions!Session, Sessions!Busy
<1>8. RequestMay(r, n)
  BY <1>1, <1>2, <1>s DEF Sessions!Read, RequestMay, Sessions!Attempt
<1> QED BY <1>1, <1>3, <1>4, <1>5, <1>6, <1>7, <1>8, SessionStepKeeps

LEMMA SessionStatementFailsKeeps ==
    ASSUME Sessions!SessionsInv, NEW r \in SessionRequest, Sessions!StatementFails(r)
    PROVE  Sessions!SessionsInv'
<1> DEFINE c == sessionReq[r].conn
           n == [sessionReq[r] EXCEPT !.at = "failed"]
           m == poolSession[c]
<1>1. r \in Sessions!Using
  BY DEF Sessions!StatementFails, Sessions!Using, Sessions!Busy
<1>2. /\ sessionReq[r] \in Sessions!Attempt /\ poolSession[c] \in Sessions!Session /\ c \in Connection
      /\ poolSession[c].at \in {"taken", "broken"}
  BY <1>1, SessionUserFacts
<1>3. n \in Sessions!Attempt
  BY <1>2 DEF Sessions!Attempt
<1>4. m \in Sessions!Session
  BY <1>1, <1>2, SessionScopeTypes DEF Sessions!Session, Sessions!Ended
<1>5. RequestSteps(r, n, m, {}, {})
  BY <1>2, SessionFaultTypes DEF Sessions!StatementFails, RequestSteps, Sessions!world
<1>6. RequestHolds(r, n, m)
  BY <1>1, <1>2, SessionHeldFacts DEF Sessions!StatementFails, RequestHolds, Sessions!Attempt,
     Sessions!Session, Sessions!Busy
<1>7. RequestTells(r, n, m, {}, {})
  BY <1>1, <1>2, SessionHeldFacts, SessionAnswerFacts DEF Sessions!StatementFails,
     RequestTells, Sessions!Attempt, Sessions!Session, Sessions!Busy
<1>8. RequestMay(r, n)
  BY <1>1, <1>2 DEF Sessions!StatementFails, RequestMay, Sessions!Attempt,
     Sessions!SessionsInv, Sessions!RoleInv
<1> QED BY <1>1, <1>3, <1>4, <1>5, <1>6, <1>7, <1>8, SessionStepKeeps

LEMMA SessionCommitFailsKeeps ==
    ASSUME Sessions!SessionsInv, NEW r \in SessionRequest, Sessions!CommitFails(r)
    PROVE  Sessions!SessionsInv'
<1> DEFINE c == sessionReq[r].conn
           n == [sessionReq[r] EXCEPT !.at = "failed"]
           m == poolSession[c]
<1>1. r \in Sessions!Using
  BY DEF Sessions!CommitFails, Sessions!Using, Sessions!Busy
<1>2. /\ sessionReq[r] \in Sessions!Attempt /\ poolSession[c] \in Sessions!Session /\ c \in Connection
      /\ poolSession[c].at \in {"taken", "broken"}
  BY <1>1, SessionUserFacts
<1>3. n \in Sessions!Attempt
  BY <1>2 DEF Sessions!Attempt
<1>4. m \in Sessions!Session
  BY <1>1, <1>2, SessionScopeTypes DEF Sessions!Session, Sessions!Ended
<1>5. RequestSteps(r, n, m, {}, {})
  BY <1>2, SessionFaultTypes DEF Sessions!CommitFails, RequestSteps, Sessions!world
<1>6. RequestHolds(r, n, m)
  BY <1>1, <1>2, SessionHeldFacts DEF Sessions!CommitFails, RequestHolds, Sessions!Attempt,
     Sessions!Session, Sessions!Busy
<1>7. RequestTells(r, n, m, {}, {})
  BY <1>1, <1>2, SessionHeldFacts, SessionAnswerFacts DEF Sessions!CommitFails, RequestTells,
     Sessions!Attempt, Sessions!Session, Sessions!Busy
<1>8. RequestMay(r, n)
  BY <1>1, <1>2 DEF Sessions!CommitFails, RequestMay, Sessions!Attempt, Sessions!SessionsInv,
     Sessions!RoleInv
<1> QED BY <1>1, <1>3, <1>4, <1>5, <1>6, <1>7, <1>8, SessionStepKeeps

LEMMA SessionCommitUnheardKeeps ==
    ASSUME Sessions!SessionsInv, NEW r \in SessionRequest, Sessions!CommitUnheard(r)
    PROVE  Sessions!SessionsInv'
<1> DEFINE c == sessionReq[r].conn
           n == [sessionReq[r] EXCEPT !.at = "failed"]
           m == [Sessions!Ended(poolSession[c]) EXCEPT !.at = "broken"]
<1>1. r \in Sessions!Using
  BY DEF Sessions!CommitUnheard, Sessions!Using, Sessions!Busy
<1>2. /\ sessionReq[r] \in Sessions!Attempt /\ poolSession[c] \in Sessions!Session /\ c \in Connection
      /\ poolSession[c].at \in {"taken", "broken"}
  BY <1>1, SessionUserFacts
<1>3. n \in Sessions!Attempt
  BY <1>2 DEF Sessions!Attempt
<1>4. m \in Sessions!Session
  BY <1>1, <1>2, SessionScopeTypes DEF Sessions!Session, Sessions!Ended
<1>5. RequestSteps(r, n, m, poolSession[c].pending, poolSession[c].pending)
  BY <1>2, SessionFaultTypes DEF Sessions!CommitUnheard, RequestSteps, Sessions!world
<1>6. RequestHolds(r, n, m)
  BY <1>1, <1>2, SessionHeldFacts DEF Sessions!CommitUnheard, Sessions!Ended, RequestHolds,
     Sessions!Attempt, Sessions!Session, Sessions!Busy
<1>7. RequestTells(r, n, m, poolSession[c].pending, poolSession[c].pending)
  BY <1>1, <1>2, SessionHeldFacts, SessionAnswerFacts DEF Sessions!CommitUnheard,
     Sessions!Ended, RequestTells, Sessions!Attempt, Sessions!Session, Sessions!Busy
<1>8. RequestMay(r, n)
  BY <1>1, <1>2 DEF Sessions!CommitUnheard, RequestMay, Sessions!Attempt, Sessions!SessionsInv,
     Sessions!RoleInv
<1> QED BY <1>1, <1>3, <1>4, <1>5, <1>6, <1>7, <1>8, SessionStepKeeps

LEMMA SessionWorkKeeps ==
    ASSUME Sessions!SessionsInv, NEW r \in SessionRequest, NEW refuses \in BOOLEAN, Sessions!Work(r, refuses)
    PROVE  Sessions!SessionsInv'
<1> DEFINE c == sessionReq[r].conn
           goes == Sessions!Has(PartOf[r]) /\ Sessions!Permits(poolSession[c].scope, ProjectOf[r])
           n == [sessionReq[r] EXCEPT !.at = IF goes /\ ~refuses THEN "worked" ELSE "failed",
                              !.answer = IF Sessions!Has(PartOf[r]) THEN "none" ELSE "missing"]
           m == IF goes THEN [poolSession[c] EXCEPT !.pending = @ \cup {r}] ELSE poolSession[c]
<1>1. r \in Sessions!Using
  BY DEF Sessions!Work, Sessions!Using, Sessions!Busy
<1>2. /\ sessionReq[r] \in Sessions!Attempt /\ poolSession[c] \in Sessions!Session /\ c \in Connection
      /\ poolSession[c].at \in {"taken", "broken"}
  BY <1>1, SessionUserFacts
<1>3. n \in Sessions!Attempt /\ n.at \in {"worked", "failed"}
  BY <1>2 DEF Sessions!Attempt
<1>4. m \in Sessions!Session
  BY <1>1, <1>2, SessionScopeTypes DEF Sessions!Session, Sessions!Ended
<1>5. RequestSteps(r, n, m, {}, {})
  BY <1>2, <1>3, SessionFaultTypes DEF Sessions!Work, RequestSteps, Sessions!world
<1>6. RequestHolds(r, n, m)
  BY <1>1, <1>2, SessionHeldFacts DEF Sessions!Work, RequestHolds, Sessions!Attempt,
     Sessions!Session, Sessions!Busy
<1>7. RequestTells(r, n, m, {}, {})
  BY <1>1, <1>2, SessionHeldFacts, SessionAnswerFacts, SessionThereFacts DEF Sessions!Work,
     RequestTells, Sessions!Attempt, Sessions!Session, Sessions!Busy
<1>8. RequestMay(r, n)
  BY <1>1, <1>2 DEF Sessions!Work, RequestMay, Sessions!Attempt, Sessions!SessionsInv,
     Sessions!RoleInv
<1> QED BY <1>1, <1>3, <1>4, <1>5, <1>6, <1>7, <1>8, SessionStepKeeps

(* The record of a request whose transaction ended. *)
AfterFinish(r, outcome) ==
    IF sessionReq[r].step = "policy" /\ Sessions!Decide(r, outcome)
    THEN [sessionReq[r] EXCEPT !.at = "waiting", !.step = "work", !.conn = NoSetting]
    ELSE [sessionReq[r] EXCEPT !.at = "answered", !.conn = NoSetting,
                        !.answer = IF sessionReq[r].step = "policy" THEN "refused" ELSE outcome]

LEMMA SessionAfterFacts ==
    ASSUME Sessions!SessionsInv, NEW r \in Sessions!Using, NEW outcome \in {"ok", "failed", "missing"}
    PROVE  LET n == AfterFinish(r, outcome) IN
           /\ n \in Sessions!Attempt /\ n.saw = sessionReq[r].saw
           /\ \/ /\ n.at = "waiting" /\ n.step = "work" /\ n.answer = sessionReq[r].answer
                 /\ sessionReq[r].step = "policy"
                 /\ outcome = "ok" /\ ProjectOf[r] \in sessionReq[r].saw
              \/ /\ n.at = "answered" /\ n.step = sessionReq[r].step
                 /\ n.answer = IF sessionReq[r].step = "policy" THEN "refused" ELSE outcome
                 /\ ~(sessionReq[r].step = "policy" /\ Sessions!Decide(r, outcome))
<1>1. r \in SessionRequest /\ sessionReq[r] \in Sessions!Attempt
  BY SessionUserFacts
<1>2. CASE sessionReq[r].step = "policy" /\ Sessions!Decide(r, outcome)
  BY <1>1, <1>2 DEF AfterFinish, Sessions!Decide, Sessions!Attempt
<1>3. CASE ~(sessionReq[r].step = "policy" /\ Sessions!Decide(r, outcome))
  BY <1>1, <1>3 DEF AfterFinish, Sessions!Attempt
<1> QED BY <1>2, <1>3

LEMMA SessionFinishSteps ==
    ASSUME Sessions!SessionsInv, NEW r \in Sessions!Using, NEW outcome \in {"ok", "failed", "missing"},
           Sessions!Finish(r, outcome)
    PROVE  /\ sessionReq' = [sessionReq EXCEPT ![r] = AfterFinish(r, outcome)]
           /\ waiting' = IF AfterFinish(r, outcome).at = "waiting" THEN Append(waiting, r) ELSE waiting
<1>1. sessionReq \in [SessionRequest -> Sessions!Attempt] /\ r \in SessionRequest
  BY SessionUserFacts, SessionFaultTypes
<1>2. CASE sessionReq[r].step = "policy" /\ Sessions!Decide(r, outcome)
  <2>1. AfterFinish(r, outcome).at = "waiting"
    BY <1>2, SessionAfterFacts
  <2> QED BY <1>1, <1>2, <2>1 DEF Sessions!Finish, AfterFinish
<1>3. CASE ~(sessionReq[r].step = "policy" /\ Sessions!Decide(r, outcome))
  <2>1. AfterFinish(r, outcome).at = "answered"
    BY <1>3, SessionAfterFacts DEF Sessions!Decide
  <2> QED BY <1>1, <1>3, <2>1 DEF Sessions!Finish, AfterFinish
<1> QED BY <1>2, <1>3

LEMMA SessionBeginFailsKeeps ==
    ASSUME Sessions!SessionsInv, NEW r \in SessionRequest, Sessions!BeginFails(r)
    PROVE  Sessions!SessionsInv'
<1> DEFINE c == sessionReq[r].conn
           n == AfterFinish(r, "failed")
           m == Sessions!Closed
<1>1. r \in Sessions!Using
  BY DEF Sessions!BeginFails, Sessions!Using, Sessions!Busy
<1>2. /\ sessionReq[r] \in Sessions!Attempt /\ poolSession[c] \in Sessions!Session /\ c \in Connection
      /\ poolSession[c].at \in {"taken", "broken"} /\ "failed" \in {"ok", "failed", "missing"}
  BY <1>1, SessionUserFacts
<1>3. n \in Sessions!Attempt /\ n.saw = sessionReq[r].saw
  BY <1>1, <1>2, SessionAfterFacts
<1>4. /\ m \in Sessions!Session /\ m.at \in {"idle", "closed"} /\ m.pending = {}
      /\ m.open = FALSE /\ m.scope = Sessions!Anonymous
  BY <1>2, SessionScopeTypes DEF Sessions!Session, Sessions!Closed
<1>5. RequestSteps(r, n, m, {}, {})
  <2>1. /\ sessionReq' = [sessionReq EXCEPT ![r] = n]
        /\ waiting' = IF n.at = "waiting" THEN Append(waiting, r) ELSE waiting
    BY <1>1, <1>2, SessionFinishSteps DEF Sessions!BeginFails
  <2>2. poolSession' = [poolSession EXCEPT ![c] = m]
    BY <1>2, SessionFaultTypes DEF Sessions!BeginFails, Sessions!Closed
  <2> QED BY <1>2, <2>1, <2>2, SessionFaultTypes DEF Sessions!BeginFails, RequestSteps,
             Sessions!world
<1>6. RequestHolds(r, n, m)
  BY <1>1, <1>2, <1>3, <1>4, SessionAfterFacts DEF RequestHolds
<1>7. RequestTells(r, n, m, {}, {})
  BY <1>1, <1>2, <1>3, <1>4, SessionAfterFacts, SessionHeldFacts, SessionAnswerFacts DEF
     Sessions!BeginFails, RequestTells, Sessions!Busy
<1>8. RequestMay(r, n)
  BY <1>1, <1>2, <1>3, SessionAfterFacts DEF RequestMay, Sessions!SessionsInv, Sessions!RoleInv
<1> QED BY <1>1, <1>3, <1>4, <1>5, <1>6, <1>7, <1>8, SessionStepKeeps

LEMMA SessionCommitKeeps ==
    ASSUME Sessions!SessionsInv, NEW r \in SessionRequest, Sessions!Commit(r)
    PROVE  Sessions!SessionsInv'
<1> DEFINE c == sessionReq[r].conn
           n == AfterFinish(r, "ok")
           m == [Sessions!Ended(poolSession[c]) EXCEPT !.at = "idle"]
<1>1. r \in Sessions!Using
  BY DEF Sessions!Commit, Sessions!Using, Sessions!Busy
<1>2. /\ sessionReq[r] \in Sessions!Attempt /\ poolSession[c] \in Sessions!Session /\ c \in Connection
      /\ poolSession[c].at \in {"taken", "broken"} /\ "ok" \in {"ok", "failed", "missing"}
  BY <1>1, SessionUserFacts
<1>3. n \in Sessions!Attempt /\ n.saw = sessionReq[r].saw
  BY <1>1, <1>2, SessionAfterFacts
<1>4. /\ m \in Sessions!Session /\ m.at \in {"idle", "closed"} /\ m.pending = {}
      /\ m.open = FALSE /\ m.scope = Sessions!Anonymous
  BY <1>2, SessionScopeTypes DEF Sessions!Session, Sessions!Ended
<1>5. RequestSteps(r, n, m, poolSession[c].pending, {})
  <2>1. /\ sessionReq' = [sessionReq EXCEPT ![r] = n]
        /\ waiting' = IF n.at = "waiting" THEN Append(waiting, r) ELSE waiting
    BY <1>1, <1>2, SessionFinishSteps DEF Sessions!Commit
  <2>2. poolSession' = [poolSession EXCEPT ![c] = m]
    BY <1>2, SessionFaultTypes DEF Sessions!Commit, Sessions!Ended
  <2> QED BY <1>2, <2>1, <2>2, SessionFaultTypes DEF Sessions!Commit, RequestSteps,
             Sessions!world
<1>6. RequestHolds(r, n, m)
  BY <1>1, <1>2, <1>3, <1>4, SessionAfterFacts DEF RequestHolds
<1>7. RequestTells(r, n, m, poolSession[c].pending, {})
  <2>1. /\ poolSession[c].at = "taken" /\ sessionReq[r].at = "worked" /\ r \notin written /\ r \notin unheard
        /\ poolSession[c].pending \subseteq {r} /\ sessionReq[r].answer \in {"none", "missing"}
        /\ sessionReq[r].answer = "missing" => PartOf[r] = "graph"
        /\ KindOf[r] # "work" => sessionReq[r].step = "work"
        /\ r \in poolSession[c].pending <=> KindOf[r] = "work" /\ sessionReq[r].step = "work"
    BY <1>1, SessionHeldFacts, SessionAnswerFacts DEF Sessions!Commit
  <2>2. CASE n.at = "waiting"
    BY <1>1, <2>1, <2>2, SessionAfterFacts DEF RequestTells
  <2>3. CASE n.at = "answered"
    <3>1. /\ n.step = sessionReq[r].step /\ sessionReq[r].step \in {"policy", "work"}
          /\ n.answer = IF sessionReq[r].step = "policy" THEN "refused" ELSE "ok"
      BY <1>1, <1>2, <2>3, SessionAfterFacts DEF Sessions!Attempt
    <3>2. CASE sessionReq[r].step = "policy"
      BY <2>1, <2>3, <3>1, <3>2 DEF RequestTells
    <3>3. CASE sessionReq[r].step = "work"
      BY <2>1, <2>3, <3>1, <3>3 DEF RequestTells
    <3> QED BY <3>1, <3>2, <3>3
  <2> QED BY <1>1, <2>2, <2>3, SessionAfterFacts
<1>8. RequestMay(r, n)
  BY <1>1, <1>2, <1>3, SessionAfterFacts DEF RequestMay, Sessions!SessionsInv, Sessions!RoleInv
<1> QED BY <1>1, <1>3, <1>4, <1>5, <1>6, <1>7, <1>8, SessionStepKeeps

LEMMA SessionRollbackKeeps ==
    ASSUME Sessions!SessionsInv, NEW r \in SessionRequest, Sessions!Rollback(r)
    PROVE  Sessions!SessionsInv'
<1> DEFINE c == sessionReq[r].conn
           n == AfterFinish(r, Sessions!FailedAs(r))
           m == [Sessions!Ended(poolSession[c]) EXCEPT !.at = "idle"]
<1>1. r \in Sessions!Using
  BY DEF Sessions!Rollback, Sessions!Using, Sessions!Busy
<1>2. /\ sessionReq[r] \in Sessions!Attempt /\ poolSession[c] \in Sessions!Session /\ c \in Connection
      /\ poolSession[c].at \in {"taken", "broken"} /\ Sessions!FailedAs(r) \in {"ok", "failed", "missing"}
  BY <1>1, SessionUserFacts DEF Sessions!FailedAs
<1>3. n \in Sessions!Attempt /\ n.saw = sessionReq[r].saw
  BY <1>1, <1>2, SessionAfterFacts
<1>4. /\ m \in Sessions!Session /\ m.at \in {"idle", "closed"} /\ m.pending = {}
      /\ m.open = FALSE /\ m.scope = Sessions!Anonymous
  BY <1>2, SessionScopeTypes DEF Sessions!Session, Sessions!Ended
<1>5. RequestSteps(r, n, m, {}, {})
  <2>1. /\ sessionReq' = [sessionReq EXCEPT ![r] = n]
        /\ waiting' = IF n.at = "waiting" THEN Append(waiting, r) ELSE waiting
    BY <1>1, <1>2, SessionFinishSteps DEF Sessions!Rollback
  <2>2. poolSession' = [poolSession EXCEPT ![c] = m]
    BY <1>2, SessionFaultTypes DEF Sessions!Rollback, Sessions!Ended
  <2> QED BY <1>2, <2>1, <2>2, SessionFaultTypes DEF Sessions!Rollback, RequestSteps,
             Sessions!world
<1>6. RequestHolds(r, n, m)
  BY <1>1, <1>2, <1>3, <1>4, SessionAfterFacts DEF RequestHolds
<1>7. RequestTells(r, n, m, {}, {})
  BY <1>1, <1>2, <1>3, <1>4, SessionAfterFacts, SessionHeldFacts, SessionAnswerFacts DEF
     Sessions!Rollback, RequestTells, Sessions!Busy, Sessions!FailedAs
<1>8. RequestMay(r, n)
  BY <1>1, <1>2, <1>3, SessionAfterFacts DEF RequestMay, Sessions!SessionsInv, Sessions!RoleInv
<1> QED BY <1>1, <1>3, <1>4, <1>5, <1>6, <1>7, <1>8, SessionStepKeeps

LEMMA SessionRollbackFailsKeeps ==
    ASSUME Sessions!SessionsInv, NEW r \in SessionRequest, Sessions!RollbackFails(r)
    PROVE  Sessions!SessionsInv'
<1> DEFINE c == sessionReq[r].conn
           n == AfterFinish(r, Sessions!FailedAs(r))
           m == Sessions!Closed
<1>1. r \in Sessions!Using
  BY DEF Sessions!RollbackFails, Sessions!Using, Sessions!Busy
<1>2. /\ sessionReq[r] \in Sessions!Attempt /\ poolSession[c] \in Sessions!Session /\ c \in Connection
      /\ poolSession[c].at \in {"taken", "broken"} /\ Sessions!FailedAs(r) \in {"ok", "failed", "missing"}
  BY <1>1, SessionUserFacts DEF Sessions!FailedAs
<1>3. n \in Sessions!Attempt /\ n.saw = sessionReq[r].saw
  BY <1>1, <1>2, SessionAfterFacts
<1>4. /\ m \in Sessions!Session /\ m.at \in {"idle", "closed"} /\ m.pending = {}
      /\ m.open = FALSE /\ m.scope = Sessions!Anonymous
  BY <1>2, SessionScopeTypes DEF Sessions!Session, Sessions!Discard, Sessions!Closed
<1>5. RequestSteps(r, n, m, {}, {})
  <2>1. /\ sessionReq' = [sessionReq EXCEPT ![r] = n]
        /\ waiting' = IF n.at = "waiting" THEN Append(waiting, r) ELSE waiting
    BY <1>1, <1>2, SessionFinishSteps DEF Sessions!RollbackFails
  <2>2. poolSession' = [poolSession EXCEPT ![c] = m]
    BY <1>2, SessionFaultTypes DEF Sessions!RollbackFails, Sessions!Discard, Sessions!Closed
  <2> QED BY <1>2, <2>1, <2>2, SessionFaultTypes DEF Sessions!RollbackFails, RequestSteps,
             Sessions!world
<1>6. RequestHolds(r, n, m)
  BY <1>1, <1>2, <1>3, <1>4, SessionAfterFacts DEF RequestHolds
<1>7. RequestTells(r, n, m, {}, {})
  BY <1>1, <1>2, <1>3, <1>4, SessionAfterFacts, SessionHeldFacts, SessionAnswerFacts DEF
     Sessions!RollbackFails, RequestTells, Sessions!Busy, Sessions!FailedAs
<1>8. RequestMay(r, n)
  BY <1>1, <1>2, <1>3, SessionAfterFacts DEF RequestMay, Sessions!SessionsInv, Sessions!RoleInv
<1> QED BY <1>1, <1>3, <1>4, <1>5, <1>6, <1>7, <1>8, SessionStepKeeps

LEMMA RemoveAtFacts ==
    ASSUME NEW S, NEW s \in Seq(S), NEW i \in DOMAIN s
    PROVE  /\ Sessions!RemoveAt(s, i) \in Seq(S) /\ Len(Sessions!RemoveAt(s, i)) = Len(s) - 1
           /\ \A j \in 1 .. Len(s) - 1 : Sessions!RemoveAt(s, i)[j] = s[IF j < i THEN j ELSE j + 1]
<1> DEFINE before == SubSeq(s, 1, i - 1)
           rest == SubSeq(s, i + 1, Len(s))
<1>1. Len(s) \in Nat /\ i \in 1 .. Len(s)
  OBVIOUS
<1>2. /\ before \in Seq(S) /\ Len(before) = i - 1
      /\ \A j \in 1 .. i - 1 : before[j] = s[j]
  BY <1>1, SubSeqProperties
<1>3. /\ rest \in Seq(S) /\ Len(rest) = Len(s) - i
      /\ \A j \in 1 .. Len(s) - i : rest[j] = s[i + j]
  BY <1>1, SubSeqProperties
<1>4. Sessions!RemoveAt(s, i) = before \o rest
  BY DEF Sessions!RemoveAt
<1> HIDE DEF before, rest
<1>5. /\ Sessions!RemoveAt(s, i) \in Seq(S) /\ Len(Sessions!RemoveAt(s, i)) = Len(s) - 1
      /\ \A j \in 1 .. Len(s) - 1 :
            Sessions!RemoveAt(s, i)[j] = IF j <= i - 1 THEN before[j] ELSE rest[j - (i - 1)]
  <2>1. /\ before \o rest \in Seq(S) /\ Len(before \o rest) = Len(before) + Len(rest)
        /\ \A k \in 1 .. Len(before) + Len(rest) :
              (before \o rest)[k] = IF k <= Len(before) THEN before[k] ELSE rest[k - Len(before)]
    BY <1>2, <1>3, ConcatProperties
  <2>2. Len(before) + Len(rest) = Len(s) - 1
    BY <1>1, <1>2, <1>3
  <2>3. Len(before) = i - 1
    BY <1>2
  <2> QED BY ONLY <1>4, <2>1, <2>2, <2>3
<1>6. ASSUME NEW j \in 1 .. Len(s) - 1
      PROVE  Sessions!RemoveAt(s, i)[j] = s[IF j < i THEN j ELSE j + 1]
  <2>1. CASE j < i
    BY <1>1, <1>2, <1>5, <2>1
  <2>2. CASE ~(j < i)
    <3>1. j - (i - 1) \in 1 .. Len(s) - i /\ i + (j - (i - 1)) = j + 1
      BY <1>1, <2>2
    <3>2. rest[j - (i - 1)] = s[j + 1]
      BY <1>3, <3>1
    <3> QED BY <1>1, <1>5, <2>2, <3>2
  <2> QED BY <2>1, <2>2
<1> QED BY <1>5, <1>6

InLine(line, request) ==
    /\ \A i \in DOMAIN line : request[line[i]].at = "waiting"
    /\ \A i, j \in DOMAIN line : line[i] = line[j] => i = j

(* A request that has no connection is asked, or ends. *)
LEMMA SessionQuietKeeps ==
    ASSUME Sessions!SessionsInv, NEW r \in SessionRequest, sessionReq[r].at \in {"new", "waiting"}, serving,
           NEW n \in Sessions!Attempt, sessionReq' = [sessionReq EXCEPT ![r] = n], n.at \in {"waiting", "answered"},
           n.step = sessionReq[r].step, n.saw = sessionReq[r].saw,
           \/ n.at = "answered" /\ n.answer \in {"refused", "failed"}
           \/ n.at = "waiting" /\ n.answer = sessionReq[r].answer,
           waiting' \in Seq(SessionRequest), InLine(waiting', sessionReq'),
           sessionFaults' \in 0..MaxSessionFaults, entitled' \in [SessionRequest -> SUBSET (Sessions!Tenant \cup SessionProject)],
           \A q \in SessionRequest : q # r => entitled'[q] = entitled[q],
           sessionReq[r].saw \subseteq entitled'[r],
           n.at = "waiting" => Sessions!Selectable(grant, live, RequestUser[r]) \subseteq entitled'[r],
           UNCHANGED <<schemaState, serving, grant, live, poolSession, written, unheard, sessionChanges>>
    PROVE  Sessions!SessionsInv'
<1>1. /\ sessionReq \in [SessionRequest -> Sessions!Attempt] /\ sessionReq'[r] = n
      /\ \A q \in SessionRequest : q # r => sessionReq'[q] = sessionReq[q]
  BY DEF Sessions!SessionsInv, Sessions!TypeOK
<1>2. Sessions!TypeOK'
  BY <1>1 DEF Sessions!SessionsInv, Sessions!TypeOK
<1>3. Sessions!Using' = Sessions!Using
  BY <1>1 DEF Sessions!Using, Sessions!Busy
<1>4. \A q \in Sessions!Using : q # r /\ q \in SessionRequest /\ sessionReq'[q] = sessionReq[q]
  BY <1>1 DEF Sessions!Using, Sessions!Busy
<1>5. Sessions!PoolInv'
  BY <1>3, <1>4 DEF Sessions!SessionsInv, Sessions!PoolInv, InLine
<1>6. Sessions!SessionInv'
  <2>1. ASSUME NEW q \in Sessions!Using
        PROVE  /\ sessionReq'[q] = sessionReq[q] /\ poolSession'[sessionReq'[q].conn] = poolSession[sessionReq[q].conn]
               /\ (Sessions!Wrote(q)' <=> Sessions!Wrote(q)) /\ Sessions!ScopeOf(q)' = Sessions!ScopeOf(q)
    BY <1>4 DEF Sessions!Wrote, Sessions!ScopeOf
  <2>2. ASSUME NEW q \in Sessions!Using
        PROVE  LET s == poolSession'[sessionReq'[q].conn] IN
               /\ s.pending \subseteq {q} /\ (q \in s.pending => Sessions!Wrote(q)')
               /\ s.at = "taken" /\ Sessions!Wrote(q)' /\ sessionReq'[q].at = "worked" => q \in s.pending
               /\ s.at = "taken" /\ sessionReq'[q].at = "configured" => s.scope = Sessions!ScopeOf(q)'
    <3>1. /\ sessionReq'[q] = sessionReq[q] /\ poolSession'[sessionReq'[q].conn] = poolSession[sessionReq[q].conn]
          /\ (Sessions!Wrote(q)' <=> Sessions!Wrote(q)) /\ Sessions!ScopeOf(q)' = Sessions!ScopeOf(q)
      BY <2>1
    <3>2. /\ poolSession[sessionReq[q].conn].pending \subseteq {q}
          /\ q \in poolSession[sessionReq[q].conn].pending => Sessions!Wrote(q)
          /\ poolSession[sessionReq[q].conn].at = "taken" /\ Sessions!Wrote(q) /\ sessionReq[q].at = "worked" =>
               q \in poolSession[sessionReq[q].conn].pending
          /\ poolSession[sessionReq[q].conn].at = "taken" /\ sessionReq[q].at = "configured" =>
               poolSession[sessionReq[q].conn].scope = Sessions!ScopeOf(q)
      BY SessionOwnFacts
    <3> QED BY <3>1, <3>2
  <2>3. \A d \in Connection : poolSession'[d].at \in {"closed", "idle", "broken"} =>
           poolSession'[d].pending = {} /\ poolSession'[d].open = FALSE /\ poolSession'[d].scope = Sessions!Anonymous
    BY DEF Sessions!SessionsInv, Sessions!SessionInv
  <2> QED BY <1>3, <2>2, <2>3 DEF Sessions!SessionInv
<1>7. Sessions!AnswerInv'
  <2>1. r \notin written
    BY DEF Sessions!SessionsInv, Sessions!AnswerInv
  <2>2. ASSUME NEW q \in SessionRequest
        PROVE  /\ KindOf[q] # "work" => sessionReq'[q].step = "work"
               /\ sessionReq'[q].answer = "missing" => PartOf[q] = "graph"
               /\ sessionReq'[q].at # "answered" => sessionReq'[q].answer \in {"none", "missing"}
               /\ sessionReq'[q].at = "failed" /\ q \in written =>
                    q \in unheard /\ poolSession[sessionReq'[q].conn].at = "broken"
               /\ q \in written =>
                    /\ KindOf[q] = "work" /\ sessionReq'[q].step = "work"
                    /\ sessionReq'[q].at \in {"failed", "answered"}
               /\ sessionReq'[q].at = "answered" /\ KindOf[q] = "work" =>
                    (sessionReq'[q].answer = "ok" <=> q \in written \ unheard)
    <3>1. CASE q = r
      <4>1. /\ KindOf[r] # "work" => sessionReq[r].step = "work"
            /\ sessionReq[r].answer \in {"none", "missing"}
            /\ sessionReq[r].answer = "missing" => PartOf[r] = "graph"
        BY DEF Sessions!SessionsInv, Sessions!AnswerInv
      <4>2. CASE n.at = "waiting"
        BY <1>1, <2>1, <3>1, <4>1, <4>2
      <4>3. CASE n.at = "answered" /\ n.answer \in {"refused", "failed"}
        BY <1>1, <2>1, <3>1, <4>1, <4>3
      <4> QED BY <4>2, <4>3
    <3>2. CASE q # r
      BY <1>1, <3>2 DEF Sessions!SessionsInv, Sessions!AnswerInv
    <3> QED BY <3>1, <3>2
  <2> QED BY <2>2 DEF Sessions!SessionsInv, Sessions!AnswerInv
<1>8. Sessions!ReadyInv'
  BY DEF Sessions!SessionsInv, Sessions!ReadyInv, Sessions!RuntimeReady,
     Sessions!DiscoveryReady, Sessions!AdministrationReady,
         Sessions!DataReady, Sessions!CompatibilityReady, Sessions!ObjectsReady, Sessions!Has
<1>9. Sessions!RoleInv'
  <2>1. \A q \in SessionRequest : q # r => (sessionReq'[q].at = "new" => sessionReq'[q] = Sessions!Fresh(q))
    BY <1>1 DEF Sessions!SessionsInv, Sessions!RoleInv
  <2> QED BY <1>1, <2>1 DEF Sessions!SessionsInv, Sessions!RoleInv, Sessions!Selectable,
             Sessions!AccessibleAs, Sessions!Fresh
<1> QED BY <1>2, <1>5, <1>6, <1>7, <1>8, <1>9 DEF Sessions!SessionsInv

LEMMA SessionAskKeeps ==
    ASSUME Sessions!SessionsInv, NEW r \in SessionRequest, Sessions!Ask(r)
    PROVE  Sessions!SessionsInv'
<1> DEFINE n == [sessionReq[r] EXCEPT !.at = "waiting"]
           s == Sessions!Selectable(grant, live, RequestUser[r])
<1>1. /\ sessionReq \in [SessionRequest -> Sessions!Attempt] /\ sessionReq[r] \in Sessions!Attempt /\ sessionReq[r].at = "new" /\ sessionReq[r].saw = {}
      /\ waiting \in Seq(SessionRequest) /\ entitled \in [SessionRequest -> SUBSET (Sessions!Tenant \cup SessionProject)]
      /\ InLine(waiting, sessionReq) /\ sessionFaults \in 0..MaxSessionFaults
  BY DEF Sessions!Ask, Sessions!SessionsInv, Sessions!TypeOK, Sessions!PoolInv, InLine,
     Sessions!RoleInv, Sessions!Fresh
<1>2. n \in Sessions!Attempt /\ n.at = "waiting" /\ n.step = sessionReq[r].step /\ n.saw = sessionReq[r].saw
      /\ n.answer = sessionReq[r].answer
  BY <1>1 DEF Sessions!Attempt
<1>3. s \subseteq Sessions!Tenant \cup SessionProject
  BY DEF Sessions!Selectable, Sessions!AccessibleAs, Sessions!Tenant
<1>4. /\ sessionReq' = [sessionReq EXCEPT ![r] = n] /\ waiting' = Append(waiting, r)
      /\ entitled' = [entitled EXCEPT ![r] = s]
  BY <1>1 DEF Sessions!Ask
<1>5. InLine(waiting', sessionReq')
  <2>1. /\ DOMAIN waiting' = 1 .. Len(waiting) + 1 /\ DOMAIN waiting = 1 .. Len(waiting)
        /\ waiting'[Len(waiting) + 1] = r /\ Len(waiting) \in Nat
        /\ \A i \in 1 .. Len(waiting) : waiting'[i] = waiting[i]
    BY <1>1, <1>4
  <2>2. \A i \in DOMAIN waiting : waiting[i] \in SessionRequest /\ waiting[i] # r
    BY <1>1 DEF InLine
  <2>3. \A q \in SessionRequest : q # r => sessionReq'[q] = sessionReq[q]
    BY <1>1, <1>4
  <2>4. \A i \in DOMAIN waiting' : sessionReq'[waiting'[i]].at = "waiting"
    BY <1>1, <1>2, <1>4, <2>1, <2>2, <2>3 DEF InLine
  <2>5. \A i, j \in DOMAIN waiting' : waiting'[i] = waiting'[j] => i = j
    BY <1>1, <2>1, <2>2 DEF InLine
  <2> QED BY <2>4, <2>5 DEF InLine
<1>6. /\ entitled' \in [SessionRequest -> SUBSET (Sessions!Tenant \cup SessionProject)] /\ entitled'[r] = s
      /\ \A q \in SessionRequest : q # r => entitled'[q] = entitled[q]
      /\ waiting' \in Seq(SessionRequest) /\ sessionFaults' \in 0..MaxSessionFaults /\ serving
      /\ UNCHANGED <<schemaState, serving, grant, live, poolSession, written, unheard, sessionChanges>>
  BY <1>1, <1>3, <1>4 DEF Sessions!Ask
<1> QED
  <2> HIDE DEF n, s
  <2>1. sessionReq[r].saw \subseteq entitled'[r]
    BY <1>1
  <2>2. n.at = "waiting" => Sessions!Selectable(grant, live, RequestUser[r]) \subseteq entitled'[r]
    BY <1>6 DEF s
  <2> QED BY <1>1, <1>2, <1>4, <1>5, <1>6, <2>1, <2>2, SessionQuietKeeps

LEMMA SessionWaitEndsKeeps ==
    ASSUME Sessions!SessionsInv, NEW r \in SessionRequest, Sessions!WaitEnds(r)
    PROVE  Sessions!SessionsInv'
<1> DEFINE n == [sessionReq[r] EXCEPT !.at = "answered",
                     !.answer = IF sessionReq[r].step = "policy" THEN "refused" ELSE "failed"]
<1>1. /\ sessionReq \in [SessionRequest -> Sessions!Attempt] /\ sessionReq[r] \in Sessions!Attempt /\ sessionReq[r].at = "waiting"
      /\ waiting \in Seq(SessionRequest) /\ entitled \in [SessionRequest -> SUBSET (Sessions!Tenant \cup SessionProject)]
      /\ InLine(waiting, sessionReq) /\ serving /\ sessionReq[r].saw \subseteq entitled[r]
  BY DEF Sessions!WaitEnds, Sessions!SessionsInv, Sessions!TypeOK, Sessions!PoolInv, InLine,
     Sessions!RoleInv, Sessions!ReadyInv
<1>2. n \in Sessions!Attempt /\ n.at = "answered" /\ n.step = sessionReq[r].step /\ n.saw = sessionReq[r].saw
      /\ n.answer \in {"refused", "failed"}
  BY <1>1 DEF Sessions!Attempt
<1>3. PICK i \in DOMAIN waiting : waiting[i] = r /\ waiting' = Sessions!RemoveAt(waiting, i)
  BY DEF Sessions!WaitEnds
<1>4. sessionReq' = [sessionReq EXCEPT ![r] = n]
  BY <1>1 DEF Sessions!WaitEnds
<1>5. /\ waiting' \in Seq(SessionRequest) /\ Len(waiting') = Len(waiting) - 1
      /\ \A j \in 1 .. Len(waiting) - 1 : waiting'[j] = waiting[IF j < i THEN j ELSE j + 1]
  BY <1>1, <1>3, RemoveAtFacts
<1>6. InLine(waiting', sessionReq')
  <2>1. Len(waiting) \in Nat /\ i \in 1 .. Len(waiting) /\ DOMAIN waiting = 1 .. Len(waiting)
        /\ DOMAIN waiting' = 1 .. Len(waiting) - 1
    BY <1>1, <1>5
  <2>2. ASSUME NEW j \in DOMAIN waiting'
        PROVE  /\ (IF j < i THEN j ELSE j + 1) \in DOMAIN waiting
               /\ (IF j < i THEN j ELSE j + 1) # i
               /\ waiting'[j] \in SessionRequest /\ waiting'[j] # r
    BY <1>1, <1>3, <1>5, <2>1 DEF InLine
  <2>3. \A j \in DOMAIN waiting' : sessionReq'[waiting'[j]].at = "waiting"
    BY <1>1, <1>4, <1>5, <2>1, <2>2 DEF InLine
  <2>4. ASSUME NEW j \in DOMAIN waiting', NEW k \in DOMAIN waiting', waiting'[j] = waiting'[k]
        PROVE  j = k
    <3>1. (IF j < i THEN j ELSE j + 1) = (IF k < i THEN k ELSE k + 1)
      BY <1>1, <1>5, <2>1, <2>2, <2>4 DEF InLine
    <3> QED BY <2>1, <3>1
  <2> QED BY <2>3, <2>4 DEF InLine
<1>7. /\ sessionFaults' \in 0..MaxSessionFaults /\ entitled' = entitled
      /\ UNCHANGED <<schemaState, serving, grant, live, poolSession, written, unheard, sessionChanges>>
  BY SessionFaultTypes DEF Sessions!WaitEnds, Sessions!world
<1> QED
  <2> HIDE DEF n
  <2>1. \A q \in SessionRequest : q # r => entitled'[q] = entitled[q]
    BY <1>7
  <2>2. sessionReq[r].saw \subseteq entitled'[r] /\ entitled' \in [SessionRequest -> SUBSET (Sessions!Tenant \cup SessionProject)]
    BY <1>1, <1>7
  <2>3. n.at # "waiting" /\ n.at \in {"waiting", "answered"} /\ sessionReq[r].at \in {"new", "waiting"}
    BY <1>1, <1>2
  <2>4. n.at = "waiting" => Sessions!Selectable(grant, live, RequestUser[r]) \subseteq entitled'[r]
    BY <2>3
  <2>5. \/ n.at = "answered" /\ n.answer \in {"refused", "failed"}
        \/ n.at = "waiting" /\ n.answer = sessionReq[r].answer
    BY <1>2
  <2> QED BY <1>1, <1>2, <1>4, <1>5, <1>6, <1>7, <2>1, <2>2, <2>3, <2>4, <2>5, SessionQuietKeeps

LEMMA SessionConnectKeeps ==
    ASSUME Sessions!SessionsInv, NEW r \in SessionRequest, Sessions!Connect(r)
    PROVE  Sessions!SessionsInv'
<1>1. /\ waiting \in Seq(SessionRequest) /\ waiting # <<>> /\ r = waiting[1] /\ 1 \in DOMAIN waiting
      /\ waiting' = Tail(waiting) /\ sessionReq \in [SessionRequest -> Sessions!Attempt] /\ sessionReq[r] \in Sessions!Attempt
      /\ poolSession \in [Connection -> Sessions!Session] /\ InLine(waiting, sessionReq)
  BY DEF Sessions!Connect, Sessions!SessionsInv, Sessions!TypeOK, Sessions!PoolInv, InLine
<1>2. sessionReq[r].at = "waiting"
  BY <1>1 DEF InLine
<1>3. PICK c \in Connection :
        /\ poolSession[c].at \in {"idle", "closed"}
        /\ poolSession' = [poolSession EXCEPT ![c].at = "taken"]
        /\ sessionReq' = [sessionReq EXCEPT ![r].at = "connected", ![r].conn = c]
  BY DEF Sessions!Connect
<1> DEFINE n == [sessionReq[r] EXCEPT !.at = "connected", !.conn = c]
           m == [poolSession[c] EXCEPT !.at = "taken"]
<1>4. /\ n \in Sessions!Attempt /\ n.at = "connected" /\ n.conn = c /\ n.step = sessionReq[r].step
      /\ n.saw = sessionReq[r].saw /\ n.answer = sessionReq[r].answer
  BY <1>1 DEF Sessions!Attempt
<1>5. /\ m \in Sessions!Session /\ m.at = "taken" /\ m.pending = {}
  <2>1. poolSession[c] \in Sessions!Session /\ poolSession[c].pending = {}
    BY <1>1, <1>3 DEF Sessions!SessionsInv, Sessions!SessionInv
  <2> QED BY <2>1 DEF Sessions!Session
<1>6. /\ sessionReq'[r] = n /\ \A q \in SessionRequest : q # r => sessionReq'[q] = sessionReq[q]
      /\ sessionReq' \in [SessionRequest -> Sessions!Attempt]
      /\ poolSession'[c] = m /\ \A d \in Connection : d # c => poolSession'[d] = poolSession[d]
      /\ poolSession' \in [Connection -> Sessions!Session]
  BY <1>1, <1>3, <1>4, <1>5
<1> HIDE DEF n, m
<1>7. /\ waiting' \in Seq(SessionRequest) /\ Len(waiting') = Len(waiting) - 1
      /\ \A i \in 1 .. Len(waiting') : waiting'[i] = waiting[i + 1]
  BY <1>1, HeadTailProperties
<1>8. UNCHANGED <<schemaState, serving, grant, live, entitled, sessionChanges, written, unheard, sessionFaults>>
  BY DEF Sessions!Connect, Sessions!world
<1>9. Sessions!TypeOK'
  BY <1>6, <1>7, <1>8 DEF Sessions!SessionsInv, Sessions!TypeOK
<1>10. InLine(waiting', sessionReq')
  <2>1. Len(waiting) \in Nat /\ DOMAIN waiting = 1 .. Len(waiting)
        /\ DOMAIN waiting' = 1 .. Len(waiting) - 1
    BY <1>1, <1>7
  <2>2. ASSUME NEW i \in DOMAIN waiting'
        PROVE  i + 1 \in DOMAIN waiting /\ waiting'[i] = waiting[i + 1] /\ waiting[i + 1] # r
               /\ waiting[i + 1] \in SessionRequest
    <3>1. i + 1 \in DOMAIN waiting /\ i + 1 # 1 /\ waiting'[i] = waiting[i + 1]
      BY <1>7, <2>1
    <3> QED BY <1>1, <3>1 DEF InLine
  <2>3. \A i \in DOMAIN waiting' : sessionReq'[waiting'[i]].at = "waiting"
    BY <1>1, <1>6, <2>2 DEF InLine
  <2>4. ASSUME NEW i \in DOMAIN waiting', NEW j \in DOMAIN waiting', waiting'[i] = waiting'[j]
        PROVE  i = j
    <3>1. i + 1 = j + 1
      BY <1>1, <2>2, <2>4 DEF InLine
    <3> QED BY <2>1, <3>1
  <2> QED BY <2>3, <2>4 DEF InLine
<1>11. ASSUME NEW q \in Sessions!Using
       PROVE  /\ q # r /\ q \in SessionRequest /\ sessionReq'[q] = sessionReq[q] /\ sessionReq[q].conn \in Connection
              /\ sessionReq[q].conn # c /\ poolSession'[sessionReq[q].conn] = poolSession[sessionReq[q].conn]
  <2>1. q # r /\ sessionReq[q].conn \in Connection /\ poolSession[sessionReq[q].conn].at \in {"taken", "broken"}
    BY <1>2, SessionUserFacts DEF Sessions!Busy
  <2> QED BY <1>3, <1>6, <2>1 DEF Sessions!Using
<1>12. Sessions!Using' = Sessions!Using \cup {r}
  <2>1. \A q \in SessionRequest : q # r => (sessionReq'[q].at \in Sessions!Busy <=> sessionReq[q].at \in Sessions!Busy)
    BY <1>6
  <2>2. r \in SessionRequest /\ sessionReq'[r].at \in Sessions!Busy
    BY <1>4, <1>6 DEF Sessions!Busy
  <2> QED BY <2>1, <2>2 DEF Sessions!Using
<1>13. Sessions!PoolInv'
  <2>1. ASSUME NEW q \in Sessions!Using'
        PROVE  sessionReq'[q].conn \in Connection /\ poolSession'[sessionReq'[q].conn].at \in {"taken", "broken"}
    BY <1>4, <1>5, <1>6, <1>11, <1>12, SessionUserFacts
  <2>2. ASSUME NEW p \in Sessions!Using', NEW q \in Sessions!Using', sessionReq'[p].conn = sessionReq'[q].conn
        PROVE  p = q
    <3>1. CASE p = r \/ q = r
      BY <1>4, <1>6, <1>11, <1>12, <2>2, <3>1
    <3>2. CASE p # r /\ q # r
      BY <1>11, <1>12, <2>2, <3>2 DEF Sessions!SessionsInv, Sessions!PoolInv
    <3> QED BY <3>1, <3>2
  <2> QED BY <1>10, <2>1, <2>2 DEF Sessions!PoolInv, InLine
<1>14. Sessions!SessionInv'
  <2>1. \A d \in Connection : poolSession'[d].at \in {"closed", "idle", "broken"} =>
           poolSession'[d].pending = {} /\ poolSession'[d].open = FALSE /\ poolSession'[d].scope = Sessions!Anonymous
    BY <1>5, <1>6 DEF Sessions!SessionsInv, Sessions!SessionInv
  <2>2. ASSUME NEW q \in Sessions!Using'
        PROVE  LET s == poolSession'[sessionReq'[q].conn] IN
               /\ s.pending \subseteq {q} /\ (q \in s.pending => Sessions!Wrote(q)')
               /\ s.at = "taken" /\ Sessions!Wrote(q)' /\ sessionReq'[q].at = "worked" => q \in s.pending
               /\ s.at = "taken" /\ sessionReq'[q].at = "configured" => s.scope = Sessions!ScopeOf(q)'
    <3>1. CASE q = r
      BY <1>4, <1>5, <1>6, <3>1
    <3>2. CASE q # r
      <4>1. /\ q \in Sessions!Using /\ sessionReq'[q] = sessionReq[q] /\ poolSession'[sessionReq'[q].conn] = poolSession[sessionReq[q].conn]
        BY <1>11, <1>12, <3>2
      <4>2. (Sessions!Wrote(q)' <=> Sessions!Wrote(q)) /\ Sessions!ScopeOf(q)' = Sessions!ScopeOf(q)
        BY <4>1 DEF Sessions!Wrote, Sessions!ScopeOf
      <4> QED BY <4>1, <4>2, SessionHeldFacts DEF Sessions!Wrote
    <3> QED BY <3>1, <3>2
  <2> QED BY <2>1, <2>2 DEF Sessions!SessionInv
<1>15. Sessions!AnswerInv'
  <2>1. ASSUME NEW q \in SessionRequest
        PROVE  /\ KindOf[q] # "work" => sessionReq'[q].step = "work"
               /\ sessionReq'[q].answer = "missing" => PartOf[q] = "graph"
               /\ sessionReq'[q].at # "answered" => sessionReq'[q].answer \in {"none", "missing"}
               /\ sessionReq'[q].at = "failed" /\ q \in written =>
                    q \in unheard /\ poolSession'[sessionReq'[q].conn].at = "broken"
               /\ q \in written =>
                    /\ KindOf[q] = "work" /\ sessionReq'[q].step = "work"
                    /\ sessionReq'[q].at \in {"failed", "answered"}
               /\ sessionReq'[q].at = "answered" /\ KindOf[q] = "work" =>
                    (sessionReq'[q].answer = "ok" <=> q \in written \ unheard)
    <3>1. CASE q = r
      <4>1. r \notin written
        BY <1>2 DEF Sessions!SessionsInv, Sessions!AnswerInv
      <4> QED BY <1>2, <1>4, <1>6, <3>1, <4>1 DEF Sessions!SessionsInv, Sessions!AnswerInv
    <3>2. CASE q # r
      <4>1. sessionReq[q].at = "failed" => poolSession'[sessionReq[q].conn] = poolSession[sessionReq[q].conn]
        BY <1>11 DEF Sessions!Using, Sessions!Busy
      <4> QED BY <1>6, <3>2, <4>1 DEF Sessions!SessionsInv, Sessions!AnswerInv
    <3> QED BY <3>1, <3>2
  <2> QED BY <1>8, <2>1 DEF Sessions!SessionsInv, Sessions!AnswerInv
<1>16. Sessions!ReadyInv'
  <2>1. serving
    BY <1>2 DEF Sessions!SessionsInv, Sessions!ReadyInv
  <2> QED BY <1>8, <2>1 DEF Sessions!SessionsInv, Sessions!ReadyInv, Sessions!RuntimeReady,
             Sessions!DiscoveryReady, Sessions!AdministrationReady,
                  Sessions!DataReady, Sessions!CompatibilityReady, Sessions!ObjectsReady, Sessions!Has
<1>17. Sessions!RoleInv'
  <2>1. \A q \in SessionRequest : q # r => (sessionReq'[q].at = "new" => sessionReq'[q] = Sessions!Fresh(q))
    BY <1>6 DEF Sessions!SessionsInv, Sessions!RoleInv
  <2> QED BY <1>2, <1>4, <1>6, <1>8, <2>1 DEF Sessions!SessionsInv, Sessions!RoleInv,
             Sessions!Selectable, Sessions!AccessibleAs, Sessions!Fresh
<1> QED BY <1>9, <1>13, <1>14, <1>15, <1>16, <1>17 DEF Sessions!SessionsInv

LEMMA SessionSeverKeeps ==
    ASSUME Sessions!SessionsInv, NEW c \in Connection, Sessions!Sever(c)
    PROVE  Sessions!SessionsInv'
<1> DEFINE m == [Sessions!Closed EXCEPT !.at = "broken"]
<1>1. /\ m \in Sessions!Session /\ m.at = "broken" /\ m.pending = {} /\ m.open = FALSE /\ m.scope = Sessions!Anonymous
  BY SessionScopeTypes DEF Sessions!Closed, Sessions!Session
<1>2. /\ poolSession'[c] = m /\ \A d \in Connection : d # c => poolSession'[d] = poolSession[d]
      /\ poolSession' \in [Connection -> Sessions!Session] /\ poolSession[c].at = "taken"
      /\ sessionFaults' \in 0..MaxSessionFaults
      /\ UNCHANGED <<schemaState, serving, grant, live, entitled, sessionChanges, waiting, sessionReq, written, unheard>>
  BY <1>1, SessionFaultTypes DEF Sessions!Sever, Sessions!world
<1> HIDE DEF m
<1>3. Sessions!TypeOK'
  BY <1>2 DEF Sessions!SessionsInv, Sessions!TypeOK
<1>4. Sessions!PoolInv' /\ Sessions!ReadyInv' /\ Sessions!RoleInv'
  <2>1. Sessions!Using' = Sessions!Using
    BY <1>2 DEF Sessions!Using
  <2>2. Sessions!PoolInv'
    BY <1>1, <1>2, <2>1 DEF Sessions!SessionsInv, Sessions!PoolInv
  <2>3. Sessions!ReadyInv'
    BY <1>2 DEF Sessions!SessionsInv, Sessions!ReadyInv, Sessions!RuntimeReady,
       Sessions!DiscoveryReady, Sessions!AdministrationReady,
                  Sessions!DataReady, Sessions!CompatibilityReady, Sessions!ObjectsReady, Sessions!Has
  <2>4. Sessions!RoleInv'
    BY <1>2 DEF Sessions!SessionsInv, Sessions!RoleInv, Sessions!Selectable,
       Sessions!AccessibleAs, Sessions!Fresh
  <2> QED BY <2>2, <2>3, <2>4
<1>5. Sessions!SessionInv'
  <2>1. \A d \in Connection : poolSession'[d].at \in {"closed", "idle", "broken"} =>
           poolSession'[d].pending = {} /\ poolSession'[d].open = FALSE /\ poolSession'[d].scope = Sessions!Anonymous
    BY <1>1, <1>2 DEF Sessions!SessionsInv, Sessions!SessionInv
  <2>2. ASSUME NEW q \in Sessions!Using
        PROVE  LET s == poolSession'[sessionReq'[q].conn] IN
               /\ s.pending \subseteq {q} /\ (q \in s.pending => Sessions!Wrote(q)')
               /\ s.at = "taken" /\ Sessions!Wrote(q)' /\ sessionReq'[q].at = "worked" => q \in s.pending
               /\ s.at = "taken" /\ sessionReq'[q].at = "configured" => s.scope = Sessions!ScopeOf(q)'
    <3>1. /\ sessionReq'[q] = sessionReq[q] /\ sessionReq[q].conn \in Connection
          /\ (Sessions!Wrote(q)' <=> Sessions!Wrote(q)) /\ Sessions!ScopeOf(q)' = Sessions!ScopeOf(q)
      BY <1>2, SessionUserFacts DEF Sessions!Wrote, Sessions!ScopeOf
    <3>2. CASE sessionReq[q].conn = c
      BY <1>1, <1>2, <3>1, <3>2
    <3>3. CASE sessionReq[q].conn # c
      <4>1. poolSession'[sessionReq'[q].conn] = poolSession[sessionReq[q].conn]
        BY <1>2, <3>1, <3>3
      <4>2. /\ poolSession[sessionReq[q].conn].pending \subseteq {q}
            /\ q \in poolSession[sessionReq[q].conn].pending => Sessions!Wrote(q)
            /\ poolSession[sessionReq[q].conn].at = "taken" /\ Sessions!Wrote(q) /\ sessionReq[q].at = "worked" =>
                 q \in poolSession[sessionReq[q].conn].pending
            /\ poolSession[sessionReq[q].conn].at = "taken" /\ sessionReq[q].at = "configured" =>
                 poolSession[sessionReq[q].conn].scope = Sessions!ScopeOf(q)
        BY SessionOwnFacts
      <4> QED BY <3>1, <4>1, <4>2
    <3> QED BY <3>2, <3>3
  <2>3. Sessions!Using' = Sessions!Using
    BY <1>2 DEF Sessions!Using
  <2> QED BY <2>1, <2>2, <2>3 DEF Sessions!SessionInv
<1>6. Sessions!AnswerInv'
  <2>1. ASSUME NEW q \in SessionRequest, sessionReq[q].at = "failed" /\ q \in written
        PROVE  poolSession'[sessionReq[q].conn].at = "broken"
    <3>1. q \in Sessions!Using
      BY <2>1 DEF Sessions!Using, Sessions!Busy
    <3> QED BY <1>1, <1>2, <2>1, <3>1, SessionUserFacts, SessionAnswerFacts
  <2> QED BY <1>2, <2>1 DEF Sessions!SessionsInv, Sessions!AnswerInv
<1> QED BY <1>3, <1>4, <1>5, <1>6 DEF Sessions!SessionsInv

LEMMA SessionStopKeeps ==
    ASSUME Sessions!SessionsInv, Sessions!Stop PROVE Sessions!SessionsInv'
<1>1. /\ sessionReq \in [SessionRequest -> Sessions!Attempt] /\ serving' = FALSE /\ waiting' = <<>>
      /\ poolSession' = [c \in Connection |-> Sessions!Closed] /\ sessionFaults' \in 0..MaxSessionFaults
      /\ UNCHANGED <<schemaState, grant, live, written, unheard, entitled, sessionChanges>>
  <2>1. /\ sessionFaults \in 0..MaxSessionFaults /\ MaxSessionFaults \in Nat /\ sessionReq \in [SessionRequest -> Sessions!Attempt]
    BY SessionFaultTypes
  <2>2. sessionFaults < MaxSessionFaults /\ sessionFaults' = sessionFaults + 1
    BY DEF Sessions!Stop
  <2>3. sessionFaults' \in 0..MaxSessionFaults
    BY <2>1, <2>2
  <2> QED BY <2>1, <2>3 DEF Sessions!Stop
<1>2. ASSUME NEW q \in SessionRequest
      PROVE  /\ sessionReq'[q] \in Sessions!Attempt /\ sessionReq'[q].step = sessionReq[q].step /\ sessionReq'[q].saw = sessionReq[q].saw
             /\ sessionReq'[q].answer = sessionReq[q].answer
             /\ sessionReq[q].at = "new" => sessionReq'[q] = sessionReq[q]
             /\ sessionReq[q].at # "new" => sessionReq'[q].at = "answered"
             /\ sessionReq'[q].at \in {"new", "answered"}
  <2>1. /\ sessionReq[q] \in Sessions!Attempt
        /\ sessionReq'[q] = IF sessionReq[q].at = "new" THEN sessionReq[q]
                     ELSE [sessionReq[q] EXCEPT !.at = "answered", !.conn = NoSetting]
    BY <1>1 DEF Sessions!Stop
  <2> QED BY <2>1 DEF Sessions!Attempt
<1>3. sessionReq' \in [SessionRequest -> Sessions!Attempt]
  BY <1>2 DEF Sessions!Stop
<1>4. /\ Sessions!Closed \in Sessions!Session /\ Sessions!Closed.at = "closed" /\ Sessions!Closed.pending = {} /\ Sessions!Closed.open = FALSE
      /\ Sessions!Closed.scope = Sessions!Anonymous
  BY SessionScopeTypes DEF Sessions!Closed, Sessions!Session
<1>5. Sessions!TypeOK'
  <2>1. waiting' \in Seq(SessionRequest) /\ poolSession' \in [Connection -> Sessions!Session]
    BY <1>1, <1>4
  <2>2. schemaState' \in 0..Len(Sessions!Migrations) /\ entitled' \in [SessionRequest -> SUBSET (Sessions!Tenant \cup SessionProject)]
    BY <1>1 DEF Sessions!SessionsInv, Sessions!TypeOK
  <2> QED BY <1>1, <1>3, <2>1, <2>2 DEF Sessions!SessionsInv, Sessions!TypeOK
<1>6. Sessions!Using' = {}
  BY <1>2 DEF Sessions!Using, Sessions!Busy
<1>7. Sessions!PoolInv'
  BY <1>1, <1>6 DEF Sessions!PoolInv
<1>8. Sessions!SessionInv'
  BY <1>1, <1>4, <1>6 DEF Sessions!SessionInv
<1>9. Sessions!AnswerInv'
  <2>1. ASSUME NEW q \in SessionRequest
        PROVE  /\ KindOf[q] # "work" => sessionReq'[q].step = "work"
               /\ sessionReq'[q].answer = "missing" => PartOf[q] = "graph"
               /\ sessionReq'[q].at # "answered" => sessionReq'[q].answer \in {"none", "missing"}
               /\ sessionReq'[q].at = "failed" /\ q \in written =>
                    q \in unheard /\ poolSession'[sessionReq'[q].conn].at = "broken"
               /\ q \in written =>
                    /\ KindOf[q] = "work" /\ sessionReq'[q].step = "work"
                    /\ sessionReq'[q].at \in {"failed", "answered"}
               /\ sessionReq'[q].at = "answered" /\ KindOf[q] = "work" =>
                    (sessionReq'[q].answer = "ok" <=> q \in written \ unheard)
    <3>1. CASE sessionReq[q].at \in {"new", "answered"}
      BY <1>2, <3>1 DEF Sessions!SessionsInv, Sessions!AnswerInv
    <3>2. CASE sessionReq[q].at \notin {"new", "answered"}
      <4>1. /\ sessionReq[q].answer \in {"none", "missing"} /\ (q \in written => q \in unheard)
            /\ KindOf[q] # "work" => sessionReq[q].step = "work"
            /\ sessionReq[q].answer = "missing" => PartOf[q] = "graph"
            /\ q \in written => KindOf[q] = "work" /\ sessionReq[q].step = "work"
        BY <3>2 DEF Sessions!SessionsInv, Sessions!AnswerInv
      <4> QED BY <1>2, <3>2, <4>1
    <3> QED BY <3>1, <3>2
  <2> QED BY <1>1, <2>1 DEF Sessions!SessionsInv, Sessions!AnswerInv
<1>10. Sessions!ReadyInv'
  BY <1>1, <1>2 DEF Sessions!ReadyInv
<1>11. Sessions!RoleInv'
  BY <1>1, <1>2 DEF Sessions!SessionsInv, Sessions!RoleInv, Sessions!Selectable,
     Sessions!AccessibleAs, Sessions!Fresh
<1> QED BY <1>5, <1>7, <1>8, <1>9, <1>10, <1>11 DEF Sessions!SessionsInv

(* What only changes the schema, who is served and who is entitled leaves *)
(* the requests, their connections and what is written as they are.       *)
LEMMA SessionWorldKeeps ==
    ASSUME Sessions!SessionsInv, UNCHANGED <<poolSession, waiting, sessionReq, written, unheard, sessionFaults>>,
           schemaState' \in 0..Len(Sessions!Migrations), serving' \in BOOLEAN,
           grant' \subseteq Sessions!Caller \X SessionProject, live' \subseteq Sessions!Tenant \cup SessionProject,
           entitled' \in [SessionRequest -> SUBSET (Sessions!Tenant \cup SessionProject)], sessionChanges' \in 0..MaxSessionChanges,
           \A r \in SessionRequest : entitled[r] \subseteq entitled'[r],
           \A r \in SessionRequest : sessionReq[r].at \notin {"new", "answered"} =>
               Sessions!Selectable(grant', live', RequestUser[r]) \subseteq entitled'[r],
           Sessions!ReadyInv'
    PROVE  Sessions!SessionsInv'
<1>1. Sessions!TypeOK'
  BY DEF Sessions!SessionsInv, Sessions!TypeOK
<1>2. Sessions!Using' = Sessions!Using
  BY DEF Sessions!Using
<1>3. Sessions!PoolInv'
  BY <1>2 DEF Sessions!SessionsInv, Sessions!PoolInv
<1>4. Sessions!SessionInv'
  BY <1>2 DEF Sessions!SessionsInv, Sessions!SessionInv, Sessions!Wrote, Sessions!ScopeOf
<1>5. Sessions!AnswerInv'
  BY DEF Sessions!SessionsInv, Sessions!AnswerInv
<1>6. Sessions!RoleInv'
  BY DEF Sessions!SessionsInv, Sessions!RoleInv, Sessions!Fresh
<1> QED BY <1>1, <1>3, <1>4, <1>5, <1>6 DEF Sessions!SessionsInv

LEMMA SessionHasMore ==
    ASSUME NEW s \in Nat, NEW t \in Nat, s <= t, NEW part, \E i \in 1..s : Sessions!Migrations[i] = part
    PROVE  \E i \in 1..t : Sessions!Migrations[i] = part
OBVIOUS

LEMMA SessionMigrateKeeps ==
    ASSUME Sessions!SessionsInv, Sessions!Migrate PROVE Sessions!SessionsInv'
<1>1. schemaState \in Nat /\ schemaState' = schemaState + 1 /\ schemaState' \in 0..Len(Sessions!Migrations)
  <2>1. Len(Sessions!Migrations) = 8
    BY DEF Sessions!Migrations
  <2> QED BY <2>1 DEF Sessions!Migrate, Sessions!SessionsInv, Sessions!TypeOK
<1>2. \A part : Sessions!Has(part) => Sessions!Has(part)'
  BY <1>1 DEF Sessions!Has
<1>3. Sessions!ReadyInv'
  BY <1>2 DEF Sessions!SessionsInv, Sessions!ReadyInv, Sessions!RuntimeReady,
     Sessions!DiscoveryReady, Sessions!AdministrationReady,
              Sessions!DataReady, Sessions!CompatibilityReady, Sessions!ObjectsReady, Sessions!Migrate
<1>4. /\ entitled \in [SessionRequest -> SUBSET (Sessions!Tenant \cup SessionProject)] /\ sessionChanges \in 0..MaxSessionChanges
      /\ serving \in BOOLEAN /\ grant \subseteq Sessions!Caller \X SessionProject /\ live \subseteq Sessions!Tenant \cup SessionProject
      /\ \A r \in SessionRequest : sessionReq[r].at \notin {"new", "answered"} =>
            Sessions!Selectable(grant, live, RequestUser[r]) \subseteq entitled[r]
  BY DEF Sessions!SessionsInv, Sessions!TypeOK, Sessions!RoleInv
<1>5. UNCHANGED <<serving, grant, live, poolSession, waiting, sessionReq, written, unheard, entitled, sessionFaults, sessionChanges>>
  BY DEF Sessions!Migrate
<1> QED BY <1>1, <1>3, <1>4, <1>5, SessionWorldKeeps

LEMMA SessionStartKeeps ==
    ASSUME Sessions!SessionsInv, Sessions!Start PROVE Sessions!SessionsInv'
<1>1. Sessions!ReadyInv'
  BY DEF Sessions!Start, Sessions!SessionsInv, Sessions!ReadyInv, Sessions!RuntimeReady,
     Sessions!DiscoveryReady, Sessions!AdministrationReady,
         Sessions!DataReady, Sessions!CompatibilityReady, Sessions!ObjectsReady, Sessions!Has
<1>2. /\ entitled \in [SessionRequest -> SUBSET (Sessions!Tenant \cup SessionProject)] /\ sessionChanges \in 0..MaxSessionChanges
      /\ schemaState \in 0..Len(Sessions!Migrations) /\ grant \subseteq Sessions!Caller \X SessionProject
      /\ live \subseteq Sessions!Tenant \cup SessionProject
      /\ \A r \in SessionRequest : sessionReq[r].at \notin {"new", "answered"} =>
            Sessions!Selectable(grant, live, RequestUser[r]) \subseteq entitled[r]
  BY DEF Sessions!SessionsInv, Sessions!TypeOK, Sessions!RoleInv
<1>3. /\ serving' = TRUE
      /\ UNCHANGED <<schemaState, grant, live, poolSession, waiting, sessionReq, written, unheard, entitled,
                     sessionFaults, sessionChanges>>
  BY DEF Sessions!Start
<1> QED BY <1>1, <1>2, <1>3, SessionWorldKeeps

LEMMA SessionChangeKeeps ==
    ASSUME Sessions!SessionsInv, NEW members \in SUBSET (Sessions!Caller \X SessionProject),
           NEW active \in SUBSET (Sessions!Tenant \cup SessionProject), Sessions!Change(members, active)
    PROVE  Sessions!SessionsInv'
<1>1. /\ entitled \in [SessionRequest -> SUBSET (Sessions!Tenant \cup SessionProject)]
      /\ schemaState \in 0..Len(Sessions!Migrations) /\ serving \in BOOLEAN
      /\ sessionChanges \in 0..MaxSessionChanges /\ MaxSessionChanges \in Nat
  BY GovernanceAssumptions DEF Sessions!TransactionsAssumption, Sessions!SessionsInv,
     Sessions!TypeOK
<1>2. /\ serving' = serving /\ schemaState' = schemaState /\ grant' = members /\ live' = active
      /\ sessionChanges' \in 0..MaxSessionChanges
      /\ UNCHANGED <<poolSession, waiting, sessionReq, written, unheard, sessionFaults>>
  BY <1>1 DEF Sessions!Change
<1>3. \A r \in SessionRequest : Sessions!Selectable(members, active, RequestUser[r]) \subseteq Sessions!Tenant \cup SessionProject
  BY DEF Sessions!Selectable, Sessions!AccessibleAs, Sessions!Tenant
<1>4. \A r \in SessionRequest :
          /\ entitled'[r] = IF sessionReq[r].at \in {"new", "answered"} THEN entitled[r]
                            ELSE entitled[r] \cup Sessions!Selectable(members, active, RequestUser[r])
          /\ entitled'[r] \subseteq Sessions!Tenant \cup SessionProject
  BY <1>1, <1>3 DEF Sessions!Change
<1>5. entitled' \in [SessionRequest -> SUBSET (Sessions!Tenant \cup SessionProject)]
  BY <1>1, <1>3 DEF Sessions!Change
<1>6. Sessions!ReadyInv'
  BY <1>2 DEF Sessions!SessionsInv, Sessions!ReadyInv, Sessions!RuntimeReady,
     Sessions!DiscoveryReady, Sessions!AdministrationReady,
              Sessions!DataReady, Sessions!CompatibilityReady, Sessions!ObjectsReady, Sessions!Has
<1>7. \A r \in SessionRequest : entitled[r] \subseteq entitled'[r]
  BY <1>4
<1>8. \A r \in SessionRequest : sessionReq[r].at \notin {"new", "answered"} =>
          Sessions!Selectable(grant', live', RequestUser[r]) \subseteq entitled'[r]
  BY <1>2, <1>4
<1> QED BY <1>1, <1>2, <1>5, <1>6, <1>7, <1>8, SessionWorldKeeps

LEMMA SessionsInit ==
    ASSUME Sessions!Init PROVE Sessions!SessionsInv
<1>1. \A r \in SessionRequest : /\ sessionReq[r] = Sessions!Fresh(r) /\ sessionReq[r].at = "new" /\ sessionReq[r].saw = {}
                                /\ sessionReq[r].answer = "none" /\ sessionReq[r].conn = NoSetting
                                /\ sessionReq[r].step = (IF KindOf[r] = "work" THEN "policy" ELSE "work")
  BY DEF Sessions!Init, Sessions!Fresh
<1>2. /\ Sessions!Closed \in Sessions!Session /\ Sessions!Closed.at = "closed" /\ Sessions!Closed.pending = {} /\ Sessions!Closed.open = FALSE
      /\ Sessions!Closed.scope = Sessions!Anonymous
  BY SessionScopeTypes DEF Sessions!Closed, Sessions!Session
<1>3. Sessions!Using = {}
  BY <1>1 DEF Sessions!Using, Sessions!Busy
<1>4. \A r \in SessionRequest : Sessions!Fresh(r) \in Sessions!Attempt
  BY DEF Sessions!Fresh, Sessions!Attempt
<1>5. Sessions!TypeOK
  <2>1. Len(Sessions!Migrations) = 8
    BY DEF Sessions!Migrations
  <2>2. waiting \in Seq(SessionRequest) /\ poolSession \in [Connection -> Sessions!Session]
        /\ sessionReq \in [SessionRequest -> Sessions!Attempt] /\ entitled \in [SessionRequest -> SUBSET (Sessions!Tenant \cup SessionProject)]
    BY <1>2, <1>4 DEF Sessions!Init
  <2>3. schemaState \in 0..Len(Sessions!Migrations) /\ sessionFaults \in 0..MaxSessionFaults /\ sessionChanges \in 0..MaxSessionChanges
    BY <2>1, GovernanceAssumptions DEF Sessions!Init, Sessions!TransactionsAssumption
  <2> QED BY <2>2, <2>3 DEF Sessions!Init, Sessions!TypeOK
<1>6. Sessions!PoolInv
  BY <1>3 DEF Sessions!Init, Sessions!PoolInv
<1>7. Sessions!SessionInv
  BY <1>2, <1>3 DEF Sessions!Init, Sessions!SessionInv
<1>8. Sessions!AnswerInv /\ Sessions!ReadyInv /\ Sessions!RoleInv
  BY <1>1 DEF Sessions!Init, Sessions!AnswerInv, Sessions!ReadyInv, Sessions!RoleInv
<1> QED BY <1>5, <1>6, <1>7, <1>8 DEF Sessions!SessionsInv

LEMMA SessionsStep ==
    ASSUME Sessions!SessionsInv, Sessions!Next \/ UNCHANGED Sessions!vars
    PROVE  Sessions!SessionsInv'
<1>1. CASE UNCHANGED Sessions!vars
  <2>1. Sessions!ReadyInv'
    BY <1>1 DEF Sessions!vars, Sessions!SessionsInv, Sessions!ReadyInv, Sessions!RuntimeReady,
       Sessions!DiscoveryReady, Sessions!AdministrationReady,
                Sessions!DataReady, Sessions!CompatibilityReady, Sessions!ObjectsReady, Sessions!Has
  <2>2. /\ entitled \in [SessionRequest -> SUBSET (Sessions!Tenant \cup SessionProject)] /\ sessionChanges \in 0..MaxSessionChanges
        /\ schemaState \in 0..Len(Sessions!Migrations) /\ grant \subseteq Sessions!Caller \X SessionProject
        /\ live \subseteq Sessions!Tenant \cup SessionProject /\ serving \in BOOLEAN
        /\ \A r \in SessionRequest : sessionReq[r].at \notin {"new", "answered"} =>
              Sessions!Selectable(grant, live, RequestUser[r]) \subseteq entitled[r]
    BY DEF Sessions!SessionsInv, Sessions!TypeOK, Sessions!RoleInv
  <2>3. UNCHANGED <<schemaState, serving, grant, live, poolSession, waiting, sessionReq, written, unheard,
                    entitled, sessionFaults, sessionChanges>>
    BY <1>1 DEF Sessions!vars
  <2> QED BY <2>1, <2>2, <2>3, SessionWorldKeeps
<1>2. CASE Sessions!Next
  <2>1. ASSUME NEW u \in Sessions!Caller, NEW p \in SessionProject, Sessions!ChangeMember(u, p)
        PROVE  Sessions!SessionsInv'
    <3> DEFINE members == IF <<u, p>> \in grant THEN grant \ {<<u, p>>} ELSE grant \cup {<<u, p>>}
    <3>1. members \in SUBSET (Sessions!Caller \X SessionProject) /\ live \in SUBSET (Sessions!Tenant \cup SessionProject)
      BY DEF Sessions!SessionsInv, Sessions!TypeOK
    <3>2. Sessions!Change(members, live)
      BY <2>1 DEF Sessions!ChangeMember
    <3> HIDE DEF members
    <3> QED BY <3>1, <3>2, SessionChangeKeeps
  <2>2. ASSUME NEW x \in Sessions!Tenant \cup SessionProject, Sessions!ChangeStatus(x)
        PROVE  Sessions!SessionsInv'
    BY <2>2, SessionChangeKeeps DEF Sessions!ChangeStatus, Sessions!SessionsInv, Sessions!TypeOK
  <2>3. ASSUME NEW r \in SessionRequest, NEW refuses \in BOOLEAN, Sessions!Work(r, refuses)
        PROVE  Sessions!SessionsInv'
    BY <2>3, SessionWorkKeeps
  <2> QED BY <1>2, <2>1, <2>2, <2>3, SessionStartKeeps, SessionStopKeeps, SessionMigrateKeeps,
             SessionSeverKeeps,
             SessionAskKeeps, SessionConnectKeeps, SessionWaitEndsKeeps, SessionBeginKeeps, SessionBeginFailsKeeps, SessionConfigureKeeps,
             SessionReadKeeps, SessionStatementFailsKeeps, SessionCommitKeeps, SessionCommitFailsKeeps, SessionCommitUnheardKeeps,
             SessionRollbackKeeps, SessionRollbackFailsKeeps DEF Sessions!Next
<1> QED BY <1>1, <1>2

LEMMA SessionsScoped ==
    ASSUME Sessions!SessionsInv
    PROVE  Sessions!NothingCarriesOver /\ Sessions!RoleWasHeld /\ Sessions!ServesWhatIsThere
<1>1. ASSUME NEW r \in SessionRequest, KindOf[r] = "work"
      PROVE  sessionReq[r].answer = "ok" <=> r \in written \ unheard
  <2>1. CASE sessionReq[r].at = "answered"
    BY <1>1, <2>1 DEF Sessions!SessionsInv, Sessions!AnswerInv
  <2>2. CASE sessionReq[r].at # "answered"
    BY <2>2 DEF Sessions!SessionsInv, Sessions!AnswerInv
  <2> QED BY <2>1, <2>2
<1>2. ASSUME NEW c \in Connection, poolSession[c].at = "idle"
      PROVE  poolSession[c] = Sessions!Idle
  <2>1. /\ poolSession[c] \in Sessions!Session /\ poolSession[c].pending = {} /\ poolSession[c].open = FALSE
        /\ poolSession[c].scope = Sessions!Anonymous
    BY <1>2 DEF Sessions!SessionsInv, Sessions!TypeOK, Sessions!SessionInv
  <2>2. poolSession[c] = [at |-> "idle", open |-> FALSE, scope |-> Sessions!Anonymous, pending |-> {}]
    BY <1>2, <2>1 DEF Sessions!Session
  <2>3. Sessions!Idle = [at |-> "idle", open |-> FALSE, scope |-> Sessions!Anonymous, pending |-> {}]
    <3>1. Sessions!Closed \in Sessions!Session
      BY SessionScopeTypes DEF Sessions!Closed, Sessions!Session
    <3>2. Sessions!Idle \in Sessions!Session
      BY <3>1 DEF Sessions!Idle, Sessions!Session
    <3>3. Sessions!Idle.at = "idle" /\ Sessions!Idle.open = FALSE /\ Sessions!Idle.scope = Sessions!Anonymous /\ Sessions!Idle.pending = {}
      BY DEF Sessions!Idle, Sessions!Closed
    <3> QED BY <3>2, <3>3 DEF Sessions!Session
  <2> QED BY <2>2, <2>3
<1>3. Sessions!NothingCarriesOver
  BY <1>1, <1>2 DEF Sessions!NothingCarriesOver
<1>4. Sessions!RoleWasHeld
  BY DEF Sessions!SessionsInv, Sessions!TypeOK, Sessions!AnswerInv, Sessions!RoleInv,
     Sessions!RoleWasHeld
<1>5. Sessions!ServesWhatIsThere
  BY DEF Sessions!SessionsInv, Sessions!AnswerInv, Sessions!ServesWhatIsThere
<1> QED BY <1>3, <1>4, <1>5

(***************************************************************************)
(* Whatever statements fail, answers are lost, connections break or        *)
(* processes stop, for any requests, users, projects and pool: what is     *)
(* committed was committed by the request that wrote it, which knows it    *)
(* unless its own COMMIT went unanswered; an idle connection has no        *)
(* transaction and no identity; nothing is committed or listed for a user  *)
(* without the role; and only the model graph's migration can be missing.  *)
(***************************************************************************)
THEOREM SessionsStayScoped == GovernanceSpec => []SessionsAreScoped
<1> DEFINE I == governancePart = "sessions" => Sessions!SessionsInv
<1>1. GovernanceInit => I
  BY SessionsInit DEF GovernanceInit
<1>2. I /\ [GovernanceNext]_governanceVars => I'
  <2> SUFFICES ASSUME I, [GovernanceNext]_governanceVars, governancePart' = "sessions"
               PROVE  Sessions!SessionsInv'
    OBVIOUS
  <2>1. governancePart = "sessions" /\ Sessions!SessionsInv
    BY DEF GovernanceNext, governanceVars
  <2>2. Sessions!Next \/ UNCHANGED Sessions!vars
    BY <2>1 DEF GovernanceNext, governanceVars, sessionsVars, Sessions!vars
  <2> QED BY <2>1, <2>2, SessionsStep
<1>3. I => SessionsAreScoped
  BY SessionsScoped DEF SessionsAreScoped
<1> QED BY <1>1, <1>2, <1>3, PTL DEF GovernanceSpec

-----------------------------------------------------------------------------
LEMMA ReviewSizeFacts ==
    /\ Reviews!Cardinality({}) = 0
    /\ \A S : IsFiniteSet(S) => Reviews!Cardinality(S) \in Nat
<1>1. \A S : Reviews!Cardinality(S) = Cardinality(S)
  BY DEF Reviews!Cardinality, Cardinality
<1> QED BY <1>1, FS_EmptySet, FS_CardinalityType

(* Who a trail names under a type, as it grows and up to a place of it. *)
LEMMA AppendFacts ==
    ASSUME NEW S, NEW t \in Seq(S), NEW e
    PROVE  /\ Len(Append(t, e)) = Len(t) + 1 /\ Len(t) \in Nat
           /\ DOMAIN t = 1 .. Len(t) /\ DOMAIN Append(t, e) = 1 .. Len(t) + 1
           /\ Append(t, e)[Len(t) + 1] = e
           /\ \A i \in 1 .. Len(t) : Append(t, e)[i] = t[i]
OBVIOUS

LEMMA ReviewByAppend ==
    ASSUME NEW S, NEW t \in Seq(S), NEW e, NEW type
    PROVE  Reviews!By(Append(t, e), type) = IF e.type = type THEN Reviews!By(t, type) \cup {e.by} ELSE Reviews!By(t, type)
<1> DEFINE a == Append(t, e)
<1>1. /\ Len(a) = Len(t) + 1 /\ Len(t) \in Nat
      /\ DOMAIN t = 1 .. Len(t) /\ DOMAIN a = 1 .. Len(t) + 1
      /\ a[Len(t) + 1] = e
      /\ \A i \in 1 .. Len(t) : a[i] = t[i]
  BY AppendFacts
<1> HIDE DEF a
<1>2. ASSUME NEW x
      PROVE  x \in Reviews!By(a, type) <=> x \in Reviews!By(t, type) \/ (e.type = type /\ x = e.by)
  <2>1. x \in Reviews!By(a, type) <=> \E i \in 1 .. Len(t) + 1 : a[i].type = type /\ a[i].by = x
    BY <1>1 DEF Reviews!By
  <2>2. x \in Reviews!By(t, type) <=> \E i \in 1 .. Len(t) : t[i].type = type /\ t[i].by = x
    BY <1>1 DEF Reviews!By
  <2>3. \A i : i \in 1 .. Len(t) + 1 <=> i \in 1 .. Len(t) \/ i = Len(t) + 1
    BY <1>1
  <2> QED BY <1>1, <2>1, <2>2, <2>3
<1> QED BY <1>2 DEF a

LEMMA ReviewByUpTo ==
    ASSUME NEW S, NEW t \in Seq(S), NEW i \in 0 .. Len(t), NEW type
    PROVE  Reviews!By(SubSeq(t, 1, i), type) = {t[k].by : k \in {j \in 1 .. i : t[j].type = type}}
<1>1. /\ Len(SubSeq(t, 1, i)) = i /\ SubSeq(t, 1, i) \in Seq(S)
      /\ \A k \in 1 .. i : SubSeq(t, 1, i)[k] = t[k]
  <2>1. Len(t) \in Nat
    OBVIOUS
  <2>2. 1 .. i \subseteq 1 .. Len(t)
    BY <2>1
  <2> QED BY <2>1, <2>2, SubSeqProperties
<1>2. DOMAIN SubSeq(t, 1, i) = 1 .. i
  BY <1>1
<1>3. ASSUME NEW x
      PROVE  x \in Reviews!By(SubSeq(t, 1, i), type) <=> \E k \in 1 .. i : t[k].type = type /\ t[k].by = x
  BY <1>1, <1>2 DEF Reviews!By
<1> QED BY <1>3

LEMMA ReviewUpToEarlier ==
    ASSUME NEW S, NEW t \in Seq(S), NEW e \in S, NEW type, NEW i \in 1 .. Len(t)
    PROVE  Reviews!By(SubSeq(Append(t, e), 1, i), type) = Reviews!By(SubSeq(t, 1, i), type)
<1> DEFINE a == Append(t, e)
<1>1. /\ Len(a) = Len(t) + 1 /\ Len(t) \in Nat /\ DOMAIN a = 1 .. Len(t) + 1
      /\ \A k \in 1 .. Len(t) : a[k] = t[k]
  BY AppendFacts
<1>2. a \in Seq(S)
  OBVIOUS
<1> HIDE DEF a
<1>3. Reviews!By(SubSeq(a, 1, i), type) = {a[k].by : k \in {j \in 1 .. i : a[j].type = type}}
  BY <1>1, <1>2, ReviewByUpTo
<1>4. Reviews!By(SubSeq(t, 1, i), type) = {t[k].by : k \in {j \in 1 .. i : t[j].type = type}}
  BY <1>1, ReviewByUpTo
<1>5. \A k \in 1 .. i : a[k] = t[k]
  BY <1>1
<1>6. ASSUME NEW x
      PROVE  x \in Reviews!By(SubSeq(a, 1, i), type) <=> x \in Reviews!By(SubSeq(t, 1, i), type)
  BY <1>3, <1>4, <1>5
<1> QED BY <1>6 DEF a

LEMMA ReviewUpToLast ==
    ASSUME NEW S, NEW t \in Seq(S), NEW e \in S, NEW type
    PROVE  Reviews!By(SubSeq(Append(t, e), 1, Len(t) + 1), type) = Reviews!By(Append(t, e), type)
<1> DEFINE a == Append(t, e)
<1>1. /\ Len(a) = Len(t) + 1 /\ Len(t) \in Nat /\ DOMAIN a = 1 .. Len(t) + 1
  BY AppendFacts
<1>2. a \in Seq(S)
  OBVIOUS
<1> HIDE DEF a
<1>3. Reviews!By(SubSeq(a, 1, Len(t) + 1), type) = {a[k].by : k \in {j \in 1 .. Len(t) + 1 : a[j].type = type}}
  BY <1>1, <1>2, ReviewByUpTo
<1> QED BY <1>1, <1>3 DEF Reviews!By, a

LEMMA ReviewByIsFinite ==
    ASSUME NEW S, NEW t \in Seq(S), NEW type
    PROVE  IsFiniteSet(Reviews!By(t, type)) /\ Reviews!Cardinality(Reviews!By(t, type)) \in Nat
<1> DEFINE K == {k \in DOMAIN t : t[k].type = type}
<1>1. DOMAIN t = 1 .. Len(t) /\ Len(t) \in Nat
  OBVIOUS
<1>2. IsFiniteSet(K)
  <2>1. IsFiniteSet(1 .. Len(t)) /\ K \subseteq 1 .. Len(t)
    BY <1>1, FS_Interval
  <2> QED BY <2>1, FS_Subset
<1>3. IsFiniteSet({t[i].by : i \in K})
  <2> DEFINE f == [i \in K |-> t[i].by]
  <2>1. f \in Surjection(K, {t[i].by : i \in K})
    BY DEF Surjection
  <2> HIDE DEF f, K
  <2> QED BY <1>2, <2>1, FS_Surjection
<1> QED BY <1>3, ReviewSizeFacts DEF Reviews!By

-----
TypesOf(t) == {t[i].type : i \in DOMAIN t}

ReviewAllows(t, u, i) ==
    LET approvers == Reviews!By(SubSeq(t, 1, i), "approved") IN
    /\ t[i].needed > 0 /\ u \notin approvers
    /\ Reviews!Cardinality(approvers) >= t[i].needed
    /\ Reviews!By(SubSeq(t, 1, i), "rejected") = {}

LEMMA ReviewBecomesKeeps ==
    ASSUME Reviews!ReviewsInv, NEW r \in ReviewRequest, NEW e \in Reviews!TrailEntry, NEW s,
           s \in {"pending", "approved", "cancelled"} \cup Reviews!Begun,
           policy' = policy, equipped' = equipped, restarts' = restarts,
           reviewState' = [reviewState EXCEPT ![r] = s],
           trail' = [trail EXCEPT ![r] = Append(trail[r], e)],
           call' \in [ReviewRequest -> {"none", "made", "succeeded", "failed"}],
           \A q \in ReviewRequest : q # r => call'[q] = call[q],
           acts' = acts,
           e.type = "approved" => e.by # Requester[r],
           e.type = "started" \/ reviewState[r] \in Reviews!Begun <=> s \in Reviews!Begun,
           call'[r] # "none" => s = "executing",
           acts[r] > 0 => call'[r] # "made",
           e.type = "started" => /\ e.needed > 0 /\ Reviews!By(trail[r], "rejected") = {}
                                 /\ Reviews!Cardinality(Reviews!By(trail[r], "approved")) >= e.needed,
           s = "pending" => /\ Reviews!By(Append(trail[r], e), "rejected") = {}
                            /\ Reviews!Cardinality(Reviews!By(Append(trail[r], e), "approved")) < e.needed
    PROVE  Reviews!ReviewsInv'
<1> DEFINE t == trail[r]
           a == Append(t, e)
<1>1. t \in Seq(Reviews!TrailEntry) /\ trail \in [ReviewRequest -> Seq(Reviews!TrailEntry)]
  BY DEF Reviews!ReviewsInv, Reviews!TypeOK
<1>2. /\ Len(a) = Len(t) + 1 /\ Len(t) \in Nat /\ DOMAIN t = 1 .. Len(t)
      /\ DOMAIN a = 1 .. Len(t) + 1 /\ a[Len(t) + 1] = e
      /\ \A i \in 1 .. Len(t) : a[i] = t[i]
  BY <1>1, AppendFacts
<1>3. a \in Seq(Reviews!TrailEntry)
  BY <1>1
<1>4. /\ trail'[r] = a /\ \A q \in ReviewRequest : q # r => trail'[q] = trail[q]
      /\ trail' \in [ReviewRequest -> Seq(Reviews!TrailEntry)]
  BY <1>1, <1>3
<1>5. /\ reviewState'[r] = s /\ \A q \in ReviewRequest : q # r => reviewState'[q] = reviewState[q]
      /\ reviewState' \in [ReviewRequest -> {"none", "pending", "approved", "cancelled"} \cup Reviews!Begun]
  BY DEF Reviews!ReviewsInv, Reviews!TypeOK
<1>6. \A type : Reviews!By(a, type) = IF e.type = type THEN Reviews!By(t, type) \cup {e.by} ELSE Reviews!By(t, type)
  BY <1>1, ReviewByAppend
<1>7. ASSUME NEW type
      PROVE  /\ \A i \in 1 .. Len(t) : Reviews!By(SubSeq(a, 1, i), type) = Reviews!By(SubSeq(t, 1, i), type)
             /\ Reviews!By(SubSeq(a, 1, Len(t) + 1), type) = Reviews!By(a, type)
  <2>1. ASSUME NEW i \in 1 .. Len(t)
        PROVE  Reviews!By(SubSeq(a, 1, i), type) = Reviews!By(SubSeq(t, 1, i), type)
    <3> HIDE DEF t
    <3> QED BY <1>1, ReviewUpToEarlier
  <2>2. Reviews!By(SubSeq(a, 1, Len(t) + 1), type) = Reviews!By(a, type)
    <3> HIDE DEF t
    <3> QED BY <1>1, ReviewUpToLast
  <2> QED BY <2>1, <2>2
<1> HIDE DEF a
<1>8. TypesOf(a) = TypesOf(t) \cup {e.type}
  <2>1. \A i : i \in 1 .. Len(t) + 1 <=> i \in 1 .. Len(t) \/ i = Len(t) + 1
    BY <1>2
  <2>2. ASSUME NEW x PROVE x \in TypesOf(a) <=> x \in TypesOf(t) \/ x = e.type
    <3>1. x \in TypesOf(a) <=> \E i \in 1 .. Len(t) + 1 : a[i].type = x
      BY <1>2 DEF TypesOf
    <3>2. x \in TypesOf(t) <=> \E i \in 1 .. Len(t) : t[i].type = x
      BY <1>2 DEF TypesOf
    <3> QED BY <1>2, <2>1, <3>1, <3>2
  <2> QED BY <2>2
<1>9. Reviews!TypeOK'
  BY <1>4, <1>5 DEF Reviews!ReviewsInv, Reviews!TypeOK
<1>10. /\ Requester[r] \notin Reviews!By(t, "approved") /\ acts[r] <= 1
       /\ reviewState[r] \in Reviews!Begun <=> "started" \in TypesOf(t)
       /\ acts[r] > 0 => "started" \in TypesOf(t)
       /\ \A i \in DOMAIN t : t[i].type = "started" => ReviewAllows(t, Requester[r], i)
       /\ acts[r] > 0 => reviewState[r] \in Reviews!Begun
  BY DEF Reviews!ReviewsInv, Reviews!RequestInv, Reviews!ActsAreCovered, TypesOf, ReviewAllows,
     Reviews!UpTo
<1>11. Reviews!RequestInv(r)'
  <2>1. a # <<>> /\ s # "none"
    BY <1>2 DEF Reviews!Begun
  <2>2. Requester[r] \notin Reviews!By(a, "approved")
    BY <1>6, <1>10
  <2>3. s \in Reviews!Begun <=> "started" \in TypesOf(a)
    BY <1>8, <1>10
  <2>4. s \in Reviews!Begun <=> "started" \in {a[i].type : i \in DOMAIN a}
    BY <2>3 DEF TypesOf
  <2>5. acts'[r] > 0 => reviewState'[r] \in Reviews!Begun /\ call'[r] # "made"
    BY <1>5, <1>10, <2>3, <1>8
  <2>6. call'[r] # "none" => reviewState'[r] = "executing"
    BY <1>5
  <2> HIDE DEF t
  <2> QED BY <1>4, <1>5, <2>1, <2>2, <2>4, <2>5, <2>6 DEF Reviews!RequestInv
<1>12. ASSUME NEW q \in ReviewRequest, q # r PROVE Reviews!RequestInv(q)'
  BY <1>4, <1>5, <1>12 DEF Reviews!ReviewsInv, Reviews!RequestInv
<1>13. Reviews!ActsAreCovered'
  <2>1. ASSUME NEW i \in DOMAIN a, a[i].type = "started"
        PROVE  ReviewAllows(a, Requester[r], i)
    <3>1. CASE i \in 1 .. Len(t)
      BY <1>2, <1>7, <1>10, <2>1, <3>1 DEF ReviewAllows
    <3>2. CASE i = Len(t) + 1
      BY <1>2, <1>6, <1>7, <1>10, <2>1, <3>2 DEF ReviewAllows
    <3> QED BY <1>2, <2>1, <3>1, <3>2
  <2>2. ASSUME NEW q \in ReviewRequest
        PROVE  /\ acts[q] <= 1
               /\ acts[q] > 0 => "started" \in TypesOf(trail'[q])
               /\ \A i \in DOMAIN trail'[q] : trail'[q][i].type = "started" =>
                     ReviewAllows(trail'[q], Requester[q], i)
    <3>1. CASE q = r
      BY <1>4, <1>8, <1>10, <2>1, <3>1
    <3>2. CASE q # r
      BY <1>4, <3>2 DEF Reviews!ReviewsInv, Reviews!ActsAreCovered, Reviews!UpTo, TypesOf,
         ReviewAllows
    <3> QED BY <3>1, <3>2
  <2> QED BY <2>2 DEF Reviews!ActsAreCovered, Reviews!UpTo, TypesOf, ReviewAllows
<1>14. Reviews!ReviewsSettle'
  <2>1. ASSUME NEW q \in ReviewRequest, reviewState'[q] = "pending"
        PROVE  /\ Reviews!By(trail'[q], "rejected") = {}
               /\ Reviews!Cardinality(Reviews!By(trail'[q], "approved")) < trail'[q][Len(trail'[q])].needed
    <3>1. CASE q = r
      BY <1>2, <1>4, <1>5, <2>1, <3>1 DEF a
    <3>2. CASE q # r
      BY <1>4, <1>5, <2>1, <3>2 DEF Reviews!ReviewsInv, Reviews!ReviewsSettle
    <3> QED BY <3>1, <3>2
  <2> QED BY <2>1 DEF Reviews!ReviewsSettle
<1> QED BY <1>9, <1>11, <1>12, <1>13, <1>14 DEF Reviews!ReviewsInv

LEMMA ReviewTrailFacts ==
    ASSUME Reviews!ReviewsInv, NEW r \in ReviewRequest
    PROVE  /\ trail[r] \in Seq(Reviews!TrailEntry) /\ Requester[r] \in Reviewer /\ policy[r] \in Nat
           /\ policy \in Policy /\ Requester[r] \notin Reviews!By(trail[r], "approved")
           /\ reviewState \in [ReviewRequest -> {"none", "pending", "approved", "cancelled"} \cup Reviews!Begun]
           /\ call \in [ReviewRequest -> {"none", "made", "succeeded", "failed"}]
           /\ acts \in [ReviewRequest -> Nat]
           /\ call[r] # "none" => reviewState[r] = "executing"
           /\ acts[r] > 0 => reviewState[r] \in Reviews!Begun /\ call[r] # "made"
           /\ reviewState[r] = "none" <=> trail[r] = <<>>
  BY GovernanceAssumptions DEF Reviews!ReviewsAssumption, Reviews!ReviewsInv, Reviews!TypeOK,
     Reviews!RequestInv

LEMMA ReviewFileKeeps ==
    ASSUME Reviews!ReviewsInv, NEW r \in ReviewRequest, Reviews!File(r)
    PROVE  Reviews!ReviewsInv'
<1> DEFINE blocked == policy[r] = 0
           e == [type |-> IF blocked THEN "blocked" ELSE "created", by |-> Requester[r],
                 needed |-> policy[r]]
           s == IF blocked THEN "cancelled" ELSE "pending"
<1>1. /\ trail[r] = <<>> /\ e \in Reviews!TrailEntry /\ reviewState[r] = "none" /\ policy[r] \in Nat
      /\ call[r] = "none"
  BY ReviewTrailFacts DEF Reviews!File, Reviews!TrailEntry
<1>2. /\ reviewState' = [reviewState EXCEPT ![r] = s] /\ trail' = [trail EXCEPT ![r] = Append(trail[r], e)]
      /\ policy' = policy /\ equipped' = equipped /\ restarts' = restarts
      /\ call' = call /\ acts' = acts
  <2>1. CASE blocked
    BY <1>1, <2>1 DEF Reviews!File, Reviews!Becomes, Reviews!setting
  <2>2. CASE ~blocked
    BY <1>1, <2>2 DEF Reviews!File, Reviews!Becomes, Reviews!setting
  <2> QED BY <2>1, <2>2
<1>3. s = "pending" => /\ Reviews!By(Append(trail[r], e), "rejected") = {}
                       /\ Reviews!Cardinality(Reviews!By(Append(trail[r], e), "approved")) < e.needed
  <2>1. Reviews!By(trail[r], "rejected") = {} /\ Reviews!By(trail[r], "approved") = {}
    BY <1>1 DEF Reviews!By
  <2>2. e.type \notin {"rejected", "approved"} /\ trail[r] \in Seq(Reviews!TrailEntry)
    BY ReviewTrailFacts
  <2>3. Reviews!By(Append(trail[r], e), "rejected") = {} /\ Reviews!By(Append(trail[r], e), "approved") = {}
    <3> HIDE DEF e
    <3> QED BY <2>1, <2>2, ReviewByAppend
  <2>4. Reviews!Cardinality({}) = 0
    BY ReviewSizeFacts
  <2>5. s = "pending" => e.needed > 0
    BY <1>1
  <2> HIDE DEF e, s
  <2> QED BY <2>3, <2>4, <2>5
<1>4. e.type \notin {"approved", "started"} /\ s \in {"pending", "cancelled"}
  OBVIOUS
<1>5. call' \in [ReviewRequest -> {"none", "made", "succeeded", "failed"}] /\ ~(acts[r] > 0)
  BY <1>1, <1>2, ReviewTrailFacts DEF Reviews!Begun
<1> HIDE DEF e, s
<1> QED BY <1>1, <1>2, <1>3, <1>4, <1>5, ReviewBecomesKeeps DEF Reviews!Begun

LEMMA ReviewKeeps ==
    ASSUME Reviews!ReviewsInv, NEW r \in ReviewRequest, NEW u \in Reviewer, Reviews!Review(r, u)
    PROVE  Reviews!ReviewsInv'
<1>1. /\ trail[r] \in Seq(Reviews!TrailEntry) /\ reviewState[r] = "pending" /\ policy[r] \in Nat
      /\ call[r] = "none" /\ u # Requester[r] /\ Requester[r] \notin Reviews!By(trail[r], "approved")
      /\ policy' = policy /\ equipped' = equipped /\ restarts' = restarts
      /\ call' = call /\ acts' = acts /\ ~(acts[r] > 0)
      /\ call' \in [ReviewRequest -> {"none", "made", "succeeded", "failed"}]
  BY ReviewTrailFacts DEF Reviews!Review, Reviews!setting, Reviews!Begun
<1>2. Reviews!By(trail[r], "rejected") = {}
  BY <1>1 DEF Reviews!ReviewsInv, Reviews!ReviewsSettle
<1>3. CASE Reviews!Becomes(r, "cancelled", "rejected", u)
  <2> DEFINE e == [type |-> "rejected", by |-> u, needed |-> policy[r]]
  <2>1. e \in Reviews!TrailEntry /\ e.type = "rejected"
    BY ReviewTrailFacts DEF Reviews!TrailEntry
  <2>2. /\ reviewState' = [reviewState EXCEPT ![r] = "cancelled"]
        /\ trail' = [trail EXCEPT ![r] = Append(trail[r], e)]
    BY <1>3 DEF Reviews!Becomes
  <2> HIDE DEF e
  <2> QED BY <1>1, <2>1, <2>2, ReviewBecomesKeeps DEF Reviews!Begun
<1>4. CASE Reviews!Becomes(r, Reviews!Outcome(r, u), "approved", u)
  <2> DEFINE e == [type |-> "approved", by |-> u, needed |-> policy[r]]
             s == Reviews!Outcome(r, u)
  <2>1. e \in Reviews!TrailEntry /\ e.type = "approved" /\ e.by = u /\ e.needed = policy[r]
    BY ReviewTrailFacts DEF Reviews!TrailEntry
  <2>2. /\ reviewState' = [reviewState EXCEPT ![r] = s]
        /\ trail' = [trail EXCEPT ![r] = Append(trail[r], e)]
    BY <1>4 DEF Reviews!Becomes
  <2>3. s \in {"cancelled", "approved", "pending"}
    BY DEF Reviews!Outcome
  <2> HIDE DEF e
  <2>4. ASSUME s = "pending"
        PROVE  /\ Reviews!By(Append(trail[r], e), "rejected") = {}
               /\ Reviews!Cardinality(Reviews!By(Append(trail[r], e), "approved")) < e.needed
    <3> DEFINE b == [type |-> "approved", by |-> u]
               X == Reviews!By(trail[r], "approved") \cup {u}
    <3>1. policy[r] # 0 /\ ~Reviews!Enough(Append(trail[r], b), r)
      BY <2>4 DEF Reviews!Outcome
    <3>2. Reviews!By(Append(trail[r], b), "approved") = X
      <4>1. b.type = "approved" /\ b.by = u
        OBVIOUS
      <4> HIDE DEF b
      <4> QED BY <1>1, <4>1, ReviewByAppend
    <3>3. Reviews!By(Append(trail[r], e), "approved") = X
      BY <1>1, <2>1, ReviewByAppend
    <3>4. Reviews!By(Append(trail[r], e), "rejected") = {}
      BY <1>1, <1>2, <2>1, ReviewByAppend
    <3>5. X \ {Requester[r]} = X
      BY <1>1
    <3>6. Reviews!Cardinality(X) \in Nat
      <4>1. Append(trail[r], e) \in Seq(Reviews!TrailEntry)
        BY <1>1, <2>1
      <4> QED BY <3>3, <4>1, ReviewByIsFinite
    <3>7. ~(Reviews!Cardinality(X) >= policy[r])
      BY <3>1, <3>2, <3>5 DEF Reviews!Enough
    <3> HIDE DEF X
    <3> QED BY <1>1, <2>1, <3>3, <3>4, <3>6, <3>7
  <2> HIDE DEF s
  <2> QED BY <1>1, <2>1, <2>2, <2>3, <2>4, ReviewBecomesKeeps DEF Reviews!Begun
<1> QED BY <1>3, <1>4 DEF Reviews!Review

LEMMA ReviewProbeKeeps ==
    ASSUME Reviews!ReviewsInv, NEW r \in ReviewRequest, NEW u \in Reviewer, Reviews!Probe(r, u)
    PROVE  Reviews!ReviewsInv'
<1> DEFINE e == [type |-> "unavailable", by |-> u, needed |-> policy[r]]
<1>1. /\ trail[r] \in Seq(Reviews!TrailEntry) /\ reviewState[r] = "approved" /\ call[r] = "none"
      /\ policy' = policy /\ equipped' = equipped /\ restarts' = restarts
      /\ call' = call /\ acts' = acts /\ ~(acts[r] > 0)
      /\ call' \in [ReviewRequest -> {"none", "made", "succeeded", "failed"}]
  BY ReviewTrailFacts DEF Reviews!Probe, Reviews!setting, Reviews!Begun
<1>2. e \in Reviews!TrailEntry /\ e.type = "unavailable"
  BY ReviewTrailFacts DEF Reviews!TrailEntry
<1>3. /\ reviewState' = [reviewState EXCEPT ![r] = "approved"]
      /\ trail' = [trail EXCEPT ![r] = Append(trail[r], e)]
  BY <1>1 DEF Reviews!Probe, Reviews!Becomes
<1> HIDE DEF e
<1> QED BY <1>1, <1>2, <1>3, ReviewBecomesKeeps DEF Reviews!Begun

LEMMA ReviewBeginExecutionKeeps ==
    ASSUME Reviews!ReviewsInv, NEW r \in ReviewRequest, NEW u \in Reviewer, Reviews!Begin(r, u)
    PROVE  Reviews!ReviewsInv'
<1> DEFINE e == [type |-> "started", by |-> u, needed |-> policy[r]]
<1>1. /\ trail[r] \in Seq(Reviews!TrailEntry) /\ reviewState[r] = "approved" /\ policy[r] \in Nat
      /\ policy' = policy /\ equipped' = equipped /\ restarts' = restarts
      /\ acts' = acts /\ ~(acts[r] > 0) /\ Requester[r] \notin Reviews!By(trail[r], "approved")
      /\ call' \in [ReviewRequest -> {"none", "made", "succeeded", "failed"}]
      /\ \A q \in ReviewRequest : q # r => call'[q] = call[q]
  BY ReviewTrailFacts DEF Reviews!Begin, Reviews!setting, Reviews!Begun
<1>2. e \in Reviews!TrailEntry /\ e.type = "started" /\ e.needed = policy[r]
  BY ReviewTrailFacts DEF Reviews!TrailEntry
<1>3. /\ reviewState' = [reviewState EXCEPT ![r] = "executing"]
      /\ trail' = [trail EXCEPT ![r] = Append(trail[r], e)]
  BY <1>1 DEF Reviews!Begin, Reviews!Becomes
<1>4. /\ policy[r] > 0 /\ Reviews!By(trail[r], "rejected") = {}
      /\ Reviews!Cardinality(Reviews!By(trail[r], "approved")) >= policy[r]
  <2>1. Reviews!By(trail[r], "approved") \ {Requester[r]} = Reviews!By(trail[r], "approved")
    BY <1>1
  <2> QED BY <2>1 DEF Reviews!Begin, Reviews!Allowed, Reviews!Enough
<1> HIDE DEF e
<1> QED BY <1>1, <1>2, <1>3, <1>4, ReviewBecomesKeeps DEF Reviews!Begun

LEMMA ReviewCompleteKeeps ==
    ASSUME Reviews!ReviewsInv, NEW r \in ReviewRequest, Reviews!Complete(r)
    PROVE  Reviews!ReviewsInv'
<1> DEFINE u == trail[r][Len(trail[r])].by
           e == [type |-> call[r], by |-> u, needed |-> policy[r]]
<1>1. /\ trail[r] \in Seq(Reviews!TrailEntry) /\ reviewState[r] = "executing" /\ call[r] \in {"succeeded", "failed"}
      /\ policy' = policy /\ equipped' = equipped /\ restarts' = restarts /\ acts' = acts
      /\ call' \in [ReviewRequest -> {"none", "made", "succeeded", "failed"}] /\ call'[r] = "none"
      /\ \A q \in ReviewRequest : q # r => call'[q] = call[q]
  BY ReviewTrailFacts DEF Reviews!Complete, Reviews!setting
<1>2. u \in Reviewer
  <2>1. trail[r] # <<>>
    BY <1>1, ReviewTrailFacts
  <2>2. Len(trail[r]) \in 1 .. Len(trail[r])
    BY <1>1, <2>1
  <2>3. trail[r][Len(trail[r])] \in Reviews!TrailEntry
    BY <1>1, <2>2
  <2> QED BY <2>3 DEF Reviews!TrailEntry
<1>3. e \in Reviews!TrailEntry /\ e.type \in {"succeeded", "failed"}
  <2> HIDE DEF u
  <2> QED BY <1>1, <1>2, ReviewTrailFacts DEF Reviews!TrailEntry
<1>4. /\ reviewState' = [reviewState EXCEPT ![r] = call[r]]
      /\ trail' = [trail EXCEPT ![r] = Append(trail[r], e)]
  BY DEF Reviews!Complete, Reviews!Becomes
<1> HIDE DEF e
<1> QED BY <1>1, <1>3, <1>4, ReviewBecomesKeeps DEF Reviews!Begun

LEMMA ReviewExecuteKeeps ==
    ASSUME Reviews!ReviewsInv, NEW r \in ReviewRequest, Reviews!Execute(r)
    PROVE  Reviews!ReviewsInv'
<1>1. /\ call[r] = "made" /\ reviewState[r] = "executing" /\ acts[r] = 0 /\ acts[r] \in Nat
      /\ UNCHANGED <<policy, equipped, restarts, reviewState, trail>>
  BY ReviewTrailFacts DEF Reviews!Execute, Reviews!setting
<1>2. /\ call' \in [ReviewRequest -> {"none", "made", "succeeded", "failed"}]
      /\ call'[r] \in {"succeeded", "failed"}
      /\ \A q \in ReviewRequest : q # r => call'[q] = call[q]
  BY ReviewTrailFacts DEF Reviews!Execute
<1>3. /\ acts' \in [ReviewRequest -> Nat] /\ acts'[r] \in {0, 1}
      /\ \A q \in ReviewRequest : q # r => acts'[q] = acts[q]
  BY <1>1, ReviewTrailFacts DEF Reviews!Execute
<1>4. Reviews!TypeOK'
  BY <1>1, <1>2, <1>3 DEF Reviews!ReviewsInv, Reviews!TypeOK
<1>5. "started" \in {trail[r][i].type : i \in DOMAIN trail[r]}
  BY <1>1 DEF Reviews!ReviewsInv, Reviews!RequestInv, Reviews!Begun
<1>6. Reviews!ActsAreCovered'
  BY <1>1, <1>3, <1>5 DEF Reviews!ReviewsInv, Reviews!ActsAreCovered, Reviews!UpTo
<1>7. Reviews!ReviewsSettle'
  BY <1>1 DEF Reviews!ReviewsInv, Reviews!ReviewsSettle
<1>8. ASSUME NEW q \in ReviewRequest PROVE Reviews!RequestInv(q)'
  <2>1. CASE q = r
    BY <1>1, <1>2, <1>3, <2>1 DEF Reviews!ReviewsInv, Reviews!RequestInv, Reviews!Begun
  <2>2. CASE q # r
    BY <1>1, <1>2, <1>3, <2>2 DEF Reviews!ReviewsInv, Reviews!RequestInv
  <2> QED BY <2>1, <2>2
<1> QED BY <1>4, <1>6, <1>7, <1>8 DEF Reviews!ReviewsInv

LEMMA ReviewRestartKeeps ==
    ASSUME Reviews!ReviewsInv, Reviews!Restart PROVE Reviews!ReviewsInv'
<1>1. /\ reviewState' = reviewState /\ trail' = trail /\ acts' = acts
      /\ \A r \in ReviewRequest : call'[r] = "none"
  BY DEF Reviews!Restart, Reviews!Left, Reviews!ReviewsInv, Reviews!TypeOK
<1>2. Reviews!TypeOK'
  <2>1. restarts \in 0 .. MaxRestarts /\ MaxRestarts \in Nat
    BY GovernanceAssumptions DEF Reviews!ReviewsAssumption, Reviews!ReviewsInv, Reviews!TypeOK
  <2>2. restarts' \in 0 .. MaxRestarts
    BY <2>1 DEF Reviews!Restart
  <2>3. call' \in [ReviewRequest -> {"none", "made", "succeeded", "failed"}]
    BY DEF Reviews!Restart
  <2> QED BY <1>1, <2>2, <2>3 DEF Reviews!Restart, Reviews!ReviewsInv, Reviews!TypeOK
<1>3. Reviews!ActsAreCovered' /\ Reviews!ReviewsSettle'
  BY <1>1 DEF Reviews!ReviewsInv, Reviews!ActsAreCovered, Reviews!ReviewsSettle, Reviews!UpTo
<1>4. \A r \in ReviewRequest : Reviews!RequestInv(r)'
  BY <1>1 DEF Reviews!ReviewsInv, Reviews!RequestInv
<1> QED BY <1>2, <1>3, <1>4 DEF Reviews!ReviewsInv

LEMMA ReviewsInit ==
    ASSUME Reviews!Init PROVE Reviews!ReviewsInv
<1>1. ASSUME NEW r \in ReviewRequest
      PROVE  /\ reviewState[r] = "none" /\ trail[r] = <<>> /\ call[r] = "none" /\ acts[r] = 0
             /\ DOMAIN trail[r] = {} /\ Reviews!By(trail[r], "approved") = {}
  BY DEF Reviews!Init, Reviews!By
<1>2. Reviews!TypeOK
  <2>1. trail \in [ReviewRequest -> Seq(Reviews!TrailEntry)]
    BY DEF Reviews!Init
  <2>2. restarts \in 0 .. MaxRestarts
    BY GovernanceAssumptions DEF Reviews!ReviewsAssumption, Reviews!Init
  <2> QED BY <2>1, <2>2 DEF Reviews!Init, Reviews!TypeOK
<1>3. Reviews!ActsAreCovered /\ Reviews!ReviewsSettle
  BY <1>1 DEF Reviews!ActsAreCovered, Reviews!ReviewsSettle
<1>4. \A r \in ReviewRequest : Reviews!RequestInv(r)
  BY <1>1 DEF Reviews!RequestInv, Reviews!Begun
<1> QED BY <1>2, <1>3, <1>4 DEF Reviews!ReviewsInv

LEMMA ReviewsStep ==
    ASSUME Reviews!ReviewsInv, Reviews!Next \/ UNCHANGED Reviews!vars PROVE Reviews!ReviewsInv'
<1>1. CASE UNCHANGED Reviews!vars
  <2>1. UNCHANGED <<policy, equipped, restarts, reviewState, trail, call, acts>>
    BY <1>1 DEF Reviews!vars, Reviews!setting
  <2> QED BY <2>1 DEF Reviews!ReviewsInv, Reviews!TypeOK, Reviews!ActsAreCovered,
             Reviews!ReviewsSettle, Reviews!UpTo, Reviews!RequestInv
<1>2. CASE Reviews!Next
  BY <1>2, ReviewRestartKeeps, ReviewFileKeeps, ReviewExecuteKeeps, ReviewCompleteKeeps,
     ReviewKeeps, ReviewProbeKeeps,
     ReviewBeginExecutionKeeps DEF Reviews!Next
<1> QED BY <1>1, <1>2

(***************************************************************************)
(* For any requests, people and policies, and any number of restarts, the  *)
(* plant is acted upon at most once for a request, after a start that the  *)
(* reviews of that moment allowed under the policy of that moment; and a   *)
(* request is pending only while its last review was not enough.           *)
(***************************************************************************)
THEOREM ActsFollowTheirReviews == GovernanceSpec => []ActsFollowReviews
<1> DEFINE I == governancePart = "reviews" => Reviews!ReviewsInv
<1>1. GovernanceInit => I
  BY ReviewsInit DEF GovernanceInit
<1>2. I /\ [GovernanceNext]_governanceVars => I'
  <2> SUFFICES ASSUME I, [GovernanceNext]_governanceVars, governancePart' = "reviews"
               PROVE  Reviews!ReviewsInv'
    OBVIOUS
  <2>1. governancePart = "reviews" /\ Reviews!ReviewsInv
    BY DEF GovernanceNext, governanceVars
  <2>2. Reviews!Next \/ UNCHANGED Reviews!vars
    BY <2>1 DEF GovernanceNext, governanceVars, reviewsVars, Reviews!vars, Reviews!setting
  <2> QED BY <2>1, <2>2, ReviewsStep
<1>3. I => ActsFollowReviews
  BY DEF ActsFollowReviews, Reviews!ReviewsInv
<1> QED BY <1>1, <1>2, <1>3, PTL DEF GovernanceSpec

-----------------------------------------------------------------------------
LEMMA ImportBoundFacts ==
    /\ MaxWrites \in Nat /\ MaxOthers \in Nat /\ MaxImportFaults \in Nat
  BY GovernanceAssumptions DEF Import!CutoverAssumption

LEMMA ImportAttemptFacts ==
    ASSUME Import!CutoverInv, NEW r \in ImportRun, importRun[r].step # "idle"
    PROVE  /\ importRun[r] \in Import!Attempt /\ importRun[r] # Import!Idle /\ Import!AttemptInv(r)
           /\ importRun[r].bundle.upto \in 0..MaxWrites
           /\ Import!Rows(r) = 1..importRun[r].bundle.upto
           /\ Import!Rows(r) # {} => 1 \in Import!Rows(r)
<1>1. importRun[r] # Import!Idle /\ importRun[r] \in Import!Attempt
  BY DEF Import!Idle, Import!CutoverInv, Import!TypeOK
<1>2. importRun[r].bundle.upto \in 0..MaxWrites
  BY <1>1 DEF Import!Attempt, Import!Bundle
<1> QED BY <1>1, <1>2, ImportBoundFacts DEF Import!CutoverInv, Import!Rows

LEMMA ImportFacts ==
    ASSUME Import!CutoverInv, NEW q \in imports
    PROVE  /\ q \in ImportRun /\ importRun[q] \in Import!Attempt /\ importRun[q].apply /\ importRun[q] # Import!Idle
           /\ importRun[q].step \in {"applied", "failed"}
           /\ Import!Rows(q) # {} => 1 \in Import!Rows(q) /\ 1 \in Import!AuditIds
<1>1. q \in ImportRun /\ importRun[q].step \in {"applied", "failed"} /\ importRun[q].apply
  BY DEF Import!CutoverInv, Import!TypeOK
<1>2. importRun[q] \in Import!Attempt /\ importRun[q] # Import!Idle /\ (Import!Rows(q) # {} => 1 \in Import!Rows(q))
  BY <1>1, ImportAttemptFacts
<1> QED BY <1>1, <1>2 DEF Import!AuditIds

(* A step of an invocation, from its record to n. *)
LEMMA ImportAttemptKeeps ==
    ASSUME Import!CutoverInv, NEW r \in ImportRun, importRun[r].step \in Import!OpenSteps, NEW n \in Import!Attempt,
           importRun' = [importRun EXCEPT ![r] = n],
           n.apply = importRun[r].apply, n.bundle = importRun[r].bundle, n.source = importRun[r].source,
           imports' = imports \/ (imports' = imports \cup {r} /\ importRun[r].step = "verified"
                                  /\ n.step \in {"applied", "failed"}),
           UNCHANGED <<source, importFile, others, early>>, importFaults' \in 0..MaxImportFaults,
           sequence' \in 0..(MaxWrites + MaxOthers),
           n.step \in Import!Exclusive => \A q \in ImportRun : q # r => importRun[q].step \notin Import!Exclusive,
           n.step \in {"verified", "applied"} => importRun[r].apply,
           n.step = "applied" => r \in imports',
           n.step \in {"inserted", "verified"} => Import!Rows(r) \cap Import!AuditIds = {},
           sequence' # sequence => /\ importRun[r].step \in Import!Exclusive /\ importRun[r].apply
                                   /\ imports' = imports /\ (~early => Import!AuditIds = {}),
           ~early => /\ n.step \in Import!Exclusive \cup {"begun"} => n.ids = others
                     /\ n.step \in Import!Exclusive \ {"locked"} => n.ids = {}
                     /\ n.step = "verified" => importRun[r].bundle.upto <= sequence'
    PROVE  Import!CutoverInv'
<1>1. /\ importRun[r] \in Import!Attempt /\ importRun[r] # Import!Idle /\ Import!AttemptInv(r)
      /\ importRun[r].bundle.upto \in 0..MaxWrites
      /\ Import!Rows(r) = 1..importRun[r].bundle.upto /\ (Import!Rows(r) # {} => 1 \in Import!Rows(r))
  BY ImportAttemptFacts DEF Import!OpenSteps
<1>2. /\ importRun'[r] = n /\ \A q \in ImportRun : q # r => importRun'[q] = importRun[q]
      /\ importRun' \in [ImportRun -> Import!Attempt \cup {Import!Idle}] /\ n # Import!Idle
  BY DEF Import!CutoverInv, Import!TypeOK, Import!Attempt, Import!Idle, Import!OpenSteps
<1>3. \A q \in ImportRun : Import!Rows(q)' = Import!Rows(q)
  <2>1. \A q \in ImportRun : importRun'[q].bundle = importRun[q].bundle
    BY <1>2
  <2> QED BY <2>1 DEF Import!Rows
<1>4. imports \subseteq ImportRun /\ imports' \subseteq ImportRun
  BY DEF Import!CutoverInv, Import!TypeOK
<1>5. Import!AuditIds' = Import!AuditIds \/ (imports' = imports \cup {r} /\ Import!AuditIds' = Import!AuditIds \cup Import!Rows(r))
  <2>1. ASSUME imports' = imports PROVE Import!AuditIds' = Import!AuditIds
    BY <1>3, <1>4, <2>1 DEF Import!AuditIds
  <2>2. ASSUME imports' = imports \cup {r}
        PROVE  Import!AuditIds' = Import!AuditIds \cup Import!Rows(r)
    BY <1>3, <1>4, <2>2 DEF Import!AuditIds
  <2> QED BY <2>1, <2>2
<1>6. Import!TypeOK'
  BY <1>2, <1>4 DEF Import!CutoverInv, Import!TypeOK
<1>7. \A p, q \in ImportRun : importRun'[p].step \in Import!Exclusive /\ importRun'[q].step \in Import!Exclusive => p = q
  BY <1>2 DEF Import!CutoverInv
<1>8. r \notin imports
  BY DEF Import!CutoverInv, Import!OpenSteps
<1>9. imports' # imports => /\ Import!Rows(r) \cap Import!AuditIds = {} /\ importRun[r].apply
                           /\ \A q \in ImportRun : q # r => importRun[q].step \notin Import!Exclusive
  BY <1>1 DEF Import!AttemptInv, Import!CutoverInv, Import!Exclusive
<1>10. ASSUME NEW q \in ImportRun, importRun'[q] # Import!Idle
       PROVE  Import!AttemptInv(q)'
  <2>1. CASE q = r
    <3>1. /\ importRun'[r].apply /\ importRun'[r].step # "refused" => importRun'[r].bundle.upto = importRun'[r].source
          /\ importRun'[r].step \in {"verified", "applied"} => importRun'[r].apply
          /\ importRun'[r].step = "applied" => r \in imports'
      BY <1>1, <1>2 DEF Import!AttemptInv, Import!OpenSteps
    <3>2. importRun'[r].step \in {"inserted", "verified"} => Import!Rows(r)' \cap Import!AuditIds' = {}
      BY <1>2, <1>3, <1>5, <1>8
    <3> QED BY <2>1, <3>1, <3>2 DEF Import!AttemptInv
  <2>2. CASE q # r
    <3>1. importRun'[q] = importRun[q] /\ Import!AttemptInv(q) /\ Import!Rows(q)' = Import!Rows(q)
      BY <1>2, <1>3, <1>10, <2>2 DEF Import!CutoverInv
    <3>2. importRun[q].step = "applied" => q \in imports'
      BY <3>1 DEF Import!AttemptInv
    <3>3. importRun[q].step \in {"inserted", "verified"} => Import!AuditIds' = Import!AuditIds
      BY <1>5, <1>8, <1>9, <2>2 DEF Import!Exclusive
    <3> QED BY <3>1, <3>2, <3>3 DEF Import!AttemptInv
  <2> QED BY <2>1, <2>2
<1>11. ASSUME NEW q \in imports'
       PROVE  importRun'[q].step \in {"applied", "failed"} /\ importRun'[q].apply
  <2>1. CASE q = r
    BY <1>2, <1>8, <1>9, <1>11, <2>1
  <2>2. CASE q # r
    <3>1. q \in imports /\ importRun'[q] = importRun[q]
      BY <1>2, <1>4, <1>11, <2>2
    <3> QED BY <3>1 DEF Import!CutoverInv
  <2> QED BY <2>1, <2>2
<1>12. ASSUME NEW p \in imports', NEW q \in imports', Import!Rows(p)' # {}, Import!Rows(q)' # {}
       PROVE  p = q
  <2>1. Import!Rows(p) # {} /\ Import!Rows(q) # {} /\ p \in imports \cup {r} /\ q \in imports \cup {r}
    BY <1>3, <1>4, <1>12
  <2>2. CASE p \in imports /\ q \in imports
    BY <2>1, <2>2 DEF Import!CutoverInv
  <2>3. ASSUME NEW x \in imports, Import!Rows(x) # {}, Import!Rows(r) # {}, imports' # imports
        PROVE  FALSE
    BY <1>1, <1>9, <2>3, ImportFacts
  <2> QED BY <1>12, <2>1, <2>2, <2>3
<1>13. ASSUME ~early' PROVE Import!LeftAloneInv'
  <2>1. ~early /\ Import!LeftAloneInv
    BY <1>13 DEF Import!CutoverInv
  <2>2. Import!AuditIds' \subseteq 1..sequence'
    <3>1. CASE sequence' # sequence
      BY <1>5, <1>8, <2>1, <3>1
    <3>2. CASE sequence' = sequence /\ imports' = imports
      BY <1>5, <1>8, <2>1, <3>2 DEF Import!LeftAloneInv
    <3>3. CASE sequence' = sequence /\ imports' # imports
      <4>1. importRun[r].bundle.upto <= sequence /\ sequence \in Nat
        BY <2>1, <3>3, ImportBoundFacts DEF Import!LeftAloneInv, Import!CutoverInv,
           Import!TypeOK
      <4>2. Import!Rows(r) \subseteq 1..sequence
        BY <1>1, <4>1
      <4> QED BY <1>5, <2>1, <3>3, <4>2 DEF Import!LeftAloneInv
    <3> QED BY <3>1, <3>2, <3>3
  <2>3. \A q \in ImportRun : /\ importRun'[q].step \in Import!Exclusive \cup {"begun"} => importRun'[q].ids = others'
                             /\ importRun'[q].step \in Import!Exclusive \ {"locked"} => importRun'[q].ids = {}
    BY <1>2, <2>1 DEF Import!LeftAloneInv
  <2>4. ASSUME NEW q \in ImportRun, importRun'[q].step = "verified"
        PROVE  importRun'[q].bundle.upto <= sequence'
    <3>1. CASE q = r
      BY <1>2, <2>1, <2>4, <3>1
    <3>2. CASE q # r
      <4>1. importRun'[q] = importRun[q] /\ importRun[q].step \in Import!Exclusive
        BY <1>2, <2>4, <3>2 DEF Import!Exclusive
      <4>2. sequence' = sequence
        BY <3>2, <4>1 DEF Import!CutoverInv
      <4> QED BY <2>1, <2>4, <4>1, <4>2 DEF Import!LeftAloneInv
    <3> QED BY <3>1, <3>2
  <2>5. ASSUME \A q \in ImportRun : importRun'[q] # Import!Idle => ~importRun'[q].apply
        PROVE  imports' = {} /\ others' = {} /\ sequence' = 0
    <3>1. ~importRun[r].apply
      BY <1>2, <2>5
    <3>2. \A q \in ImportRun : importRun[q] # Import!Idle => ~importRun[q].apply
      BY <1>2, <2>5, <3>1
    <3> QED BY <1>9, <2>1, <3>1, <3>2 DEF Import!LeftAloneInv
  <2> QED BY <2>2, <2>3, <2>4, <2>5 DEF Import!LeftAloneInv
<1> QED BY <1>6, <1>7, <1>10, <1>11, <1>12, <1>13 DEF Import!CutoverInv

(* What Goto makes of a record. *)
LEMMA ImportGotoFacts ==
    ASSUME Import!CutoverInv, NEW r \in ImportRun, importRun[r].step # "idle",
           NEW step \in Import!OpenSteps \cup {"refused", "failed", "rehearsed", "applied"}, Import!Goto(r, step)
    PROVE  LET n == [importRun[r] EXCEPT !.step = step] IN
           /\ n \in Import!Attempt /\ importRun' = [importRun EXCEPT ![r] = n] /\ n.step = step
           /\ n.apply = importRun[r].apply /\ n.bundle = importRun[r].bundle /\ n.source = importRun[r].source
           /\ n.ids = importRun[r].ids
<1>1. importRun[r] \in Import!Attempt
  BY ImportAttemptFacts
<1> QED BY <1>1 DEF Import!Goto, Import!Attempt

LEMMA ImportStateTypes ==
    ASSUME Import!CutoverInv
    PROVE  importFaults \in 0..MaxImportFaults /\ sequence \in 0..(MaxWrites + MaxOthers) /\ sequence \in Nat
           /\ (Import!Fault => importFaults' \in 0..MaxImportFaults)
<1>1. importFaults \in 0..MaxImportFaults /\ sequence \in 0..(MaxWrites + MaxOthers)
  BY DEF Import!CutoverInv, Import!TypeOK
<1> QED BY <1>1, ImportBoundFacts DEF Import!Fault

LEMMA ImportBeginKeeps ==
    ASSUME Import!CutoverInv, NEW r \in ImportRun, Import!Begin(r) PROVE Import!CutoverInv'
<1> DEFINE n == [importRun[r] EXCEPT !.step = "begun", !.seen = imports, !.ids = others]
<1>1. importRun[r] \in Import!Attempt /\ importRun[r].step = "read"
  BY ImportAttemptFacts DEF Import!Begin
<1>2. imports \subseteq ImportRun /\ others \subseteq 1..(MaxWrites + MaxOthers)
  BY DEF Import!CutoverInv, Import!TypeOK
<1>3. /\ n \in Import!Attempt /\ n.step = "begun" /\ n.apply = importRun[r].apply /\ n.bundle = importRun[r].bundle
      /\ n.source = importRun[r].source /\ n.ids = others
  BY <1>1, <1>2 DEF Import!Attempt, Import!OpenSteps
<1>4. importRun' = [importRun EXCEPT ![r] = n]
  BY <1>1 DEF Import!Begin
<1> HIDE DEF n
<1> QED BY <1>1, <1>3, <1>4, ImportStateTypes, ImportAttemptKeeps DEF Import!Begin,
           Import!OpenSteps, Import!Exclusive

LEMMA ImportLockKeeps ==
    ASSUME Import!CutoverInv, NEW r \in ImportRun, Import!Lock(r) PROVE Import!CutoverInv'
<1> DEFINE n == [importRun[r] EXCEPT !.step = "locked"]
<1>1. /\ n \in Import!Attempt /\ importRun' = [importRun EXCEPT ![r] = n] /\ n.step = "locked"
      /\ n.apply = importRun[r].apply /\ n.bundle = importRun[r].bundle /\ n.source = importRun[r].source
      /\ n.ids = importRun[r].ids
  BY ImportGotoFacts DEF Import!Lock, Import!OpenSteps
<1>2. ~early => n.ids = others
  BY <1>1 DEF Import!Lock, Import!CutoverInv, Import!LeftAloneInv
<1> HIDE DEF n
<1> QED BY <1>1, <1>2, ImportStateTypes, ImportAttemptKeeps DEF Import!Lock, Import!OpenSteps,
           Import!Exclusive

LEMMA ImportCheckKeeps ==
    ASSUME Import!CutoverInv, NEW r \in ImportRun, Import!Check(r) PROVE Import!CutoverInv'
<1> DEFINE step == IF Import!SeenEmpty(r) THEN "checked" ELSE "refused"
           n == [importRun[r] EXCEPT !.step = step]
<1>1. /\ n \in Import!Attempt /\ importRun' = [importRun EXCEPT ![r] = n] /\ n.step = step
      /\ n.apply = importRun[r].apply /\ n.bundle = importRun[r].bundle /\ n.source = importRun[r].source
      /\ n.ids = importRun[r].ids
  <2>1. step \in {"checked", "refused"} /\ importRun[r].step # "idle" /\ Import!Goto(r, step)
    BY DEF Import!Check
  <2> HIDE DEF step
  <2> QED BY <2>1, ImportGotoFacts DEF Import!OpenSteps
<1>2. importRun[r].step = "locked" /\ \A q \in ImportRun : q # r => importRun[q].step \notin Import!Exclusive
  BY DEF Import!Check, Import!CutoverInv, Import!Exclusive
<1>3. /\ ~early => n.ids = others
      /\ step = "checked" => n.ids = {}
  BY <1>1, <1>2 DEF Import!CutoverInv, Import!LeftAloneInv, Import!Exclusive, Import!SeenEmpty
<1>4. step \in {"checked", "refused"}
  OBVIOUS
<1> HIDE DEF n, step
<1> QED BY <1>1, <1>2, <1>3, <1>4, ImportStateTypes, ImportAttemptKeeps DEF Import!Check,
           Import!OpenSteps, Import!Exclusive

LEMMA ImportInsertKeeps ==
    ASSUME Import!CutoverInv, NEW r \in ImportRun, Import!Insert(r) PROVE Import!CutoverInv'
<1> DEFINE step == IF Import!Rows(r) \cap Import!AuditIds = {} THEN "inserted" ELSE "failed"
           n == [importRun[r] EXCEPT !.step = step]
<1>1. /\ n \in Import!Attempt /\ importRun' = [importRun EXCEPT ![r] = n] /\ n.step = step
      /\ n.apply = importRun[r].apply /\ n.bundle = importRun[r].bundle /\ n.source = importRun[r].source
      /\ n.ids = importRun[r].ids
  <2>1. step \in {"inserted", "failed"} /\ importRun[r].step # "idle" /\ Import!Goto(r, step)
    BY DEF Import!Insert
  <2> HIDE DEF step
  <2> QED BY <2>1, ImportGotoFacts DEF Import!OpenSteps
<1>2. importRun[r].step = "checked" /\ \A q \in ImportRun : q # r => importRun[q].step \notin Import!Exclusive
  BY DEF Import!Insert, Import!CutoverInv, Import!Exclusive
<1>3. ~early => n.ids = others /\ n.ids = {}
  BY <1>1, <1>2 DEF Import!CutoverInv, Import!LeftAloneInv, Import!Exclusive
<1>4. step \in {"inserted", "failed"} /\ (step = "inserted" => Import!Rows(r) \cap Import!AuditIds = {})
  OBVIOUS
<1> HIDE DEF n, step
<1> QED BY <1>1, <1>2, <1>3, <1>4, ImportStateTypes, ImportAttemptKeeps DEF Import!Insert,
           Import!OpenSteps, Import!Exclusive

LEMMA ImportVerifyKeeps ==
    ASSUME Import!CutoverInv, NEW r \in ImportRun, Import!Verify(r) PROVE Import!CutoverInv'
<1> DEFINE step == IF importRun[r].apply THEN "verified" ELSE "rehearsed"
           n == [importRun[r] EXCEPT !.step = step]
<1>1. /\ n \in Import!Attempt /\ importRun' = [importRun EXCEPT ![r] = n] /\ n.step = step
      /\ n.apply = importRun[r].apply /\ n.bundle = importRun[r].bundle /\ n.source = importRun[r].source
      /\ n.ids = importRun[r].ids
  <2>1. step \in {"verified", "rehearsed"} /\ importRun[r].step # "idle" /\ Import!Goto(r, step)
    BY DEF Import!Verify
  <2> HIDE DEF step
  <2> QED BY <2>1, ImportGotoFacts DEF Import!OpenSteps
<1>2. importRun[r].step = "inserted" /\ \A q \in ImportRun : q # r => importRun[q].step \notin Import!Exclusive
  BY DEF Import!Verify, Import!CutoverInv, Import!Exclusive
<1>3. ~early => n.ids = others /\ n.ids = {}
  BY <1>1, <1>2 DEF Import!CutoverInv, Import!LeftAloneInv, Import!Exclusive
<1>4. /\ step \in {"verified", "rehearsed"} /\ (step = "verified" => importRun[r].apply)
  OBVIOUS
<1>5. /\ Import!Rows(r) \cap Import!AuditIds = {} /\ importRun[r].bundle.upto \in 0..MaxWrites
      /\ Import!Rows(r) = 1..importRun[r].bundle.upto /\ (Import!Rows(r) # {} => 1 \in Import!Rows(r))
  BY <1>2, ImportAttemptFacts DEF Import!AttemptInv
<1>6. sequence' \in 0..(MaxWrites + MaxOthers)
  BY <1>5, ImportBoundFacts, ImportStateTypes DEF Import!Verify
<1>7. ASSUME ~early, Import!Rows(r) # {} PROVE Import!AuditIds = {}
  <2>1. others = {}
    BY <1>1, <1>3, <1>7
  <2>2. ASSUME NEW q \in imports PROVE Import!Rows(q) = {}
    BY <1>5, <1>7, ImportFacts
  <2> QED BY <2>1, <2>2 DEF Import!AuditIds
<1>8. sequence' # sequence => importRun[r].apply /\ (~early => Import!AuditIds = {})
  BY <1>7 DEF Import!Verify, Import!Advances
<1>9. step = "verified" => importRun[r].bundle.upto <= sequence'
  <2>1. CASE Import!Rows(r) = {}
    BY <1>5, <1>6, <2>1, ImportStateTypes, ImportBoundFacts
  <2>2. CASE Import!Rows(r) # {}
    BY <1>5, <2>2 DEF Import!Verify, Import!Advances
  <2> QED BY <2>1, <2>2
<1> HIDE DEF n, step
<1> QED BY <1>1, <1>2, <1>3, <1>4, <1>5, <1>6, <1>8, <1>9, ImportStateTypes, ImportAttemptKeeps
        DEF Import!Verify, Import!OpenSteps, Import!Exclusive

LEMMA ImportCommitKeeps ==
    ASSUME Import!CutoverInv, NEW r \in ImportRun, Import!Commit(r) PROVE Import!CutoverInv'
<1> DEFINE n == [importRun[r] EXCEPT !.step = "applied"]
<1>1. /\ n \in Import!Attempt /\ importRun' = [importRun EXCEPT ![r] = n] /\ n.step = "applied"
      /\ n.apply = importRun[r].apply /\ n.bundle = importRun[r].bundle /\ n.source = importRun[r].source
      /\ n.ids = importRun[r].ids
  BY ImportGotoFacts DEF Import!Commit, Import!OpenSteps
<1>2. importRun[r].apply
  BY ImportAttemptFacts DEF Import!Commit, Import!AttemptInv
<1> HIDE DEF n
<1> QED BY <1>1, <1>2, ImportStateTypes, ImportAttemptKeeps DEF Import!Commit,
           Import!OpenSteps, Import!Exclusive

LEMMA ImportFailsKeeps ==
    ASSUME Import!CutoverInv, NEW r \in ImportRun, Import!Fails(r) PROVE Import!CutoverInv'
<1> DEFINE n == [importRun[r] EXCEPT !.step = "failed"]
<1>1. /\ n \in Import!Attempt /\ importRun' = [importRun EXCEPT ![r] = n] /\ n.step = "failed"
      /\ n.apply = importRun[r].apply /\ n.bundle = importRun[r].bundle /\ n.source = importRun[r].source
      /\ n.ids = importRun[r].ids
  BY ImportGotoFacts DEF Import!Fails, Import!OpenSteps
<1> HIDE DEF n
<1> QED BY <1>1, ImportStateTypes, ImportAttemptKeeps DEF Import!Fails, Import!Exclusive

LEMMA ImportReplyLostKeeps ==
    ASSUME Import!CutoverInv, NEW r \in ImportRun, Import!ReplyLost(r) PROVE Import!CutoverInv'
<1> DEFINE n == [importRun[r] EXCEPT !.step = "failed"]
<1>1. /\ n \in Import!Attempt /\ importRun' = [importRun EXCEPT ![r] = n] /\ n.step = "failed"
      /\ n.apply = importRun[r].apply /\ n.bundle = importRun[r].bundle /\ n.source = importRun[r].source
      /\ n.ids = importRun[r].ids
  BY ImportGotoFacts DEF Import!ReplyLost, Import!OpenSteps
<1> HIDE DEF n
<1> QED BY <1>1, ImportStateTypes, ImportAttemptKeeps DEF Import!ReplyLost, Import!OpenSteps,
           Import!Exclusive

LEMMA ImportStartKeeps ==
    ASSUME Import!CutoverInv, NEW r \in ImportRun, NEW s \in Source, NEW t \in Source,
           NEW apply \in BOOLEAN, NEW reread \in BOOLEAN, NEW b \in importFile[t],
           Import!Start(r, b, s, apply, reread)
    PROVE  Import!CutoverInv'
<1> DEFINE n == [step |-> IF (reread => Import!Matches(s, b)) /\ Import!Distinct(b) THEN "read" ELSE "refused",
                 apply |-> apply, bundle |-> b, source |-> source[s].written,
                 seen |-> {}, ids |-> {}]
<1>1. /\ importRun[r] = Import!Idle /\ importRun[r].step = "idle" /\ importRun' = [importRun EXCEPT ![r] = n]
      /\ UNCHANGED <<source, importFile, imports, others, sequence, early, importFaults>>
  BY DEF Import!Start, Import!Idle
<1>2. /\ b \in Import!Bundle /\ source[s].written \in 0..MaxWrites
      /\ importRun \in [ImportRun -> Import!Attempt \cup {Import!Idle}]
  BY DEF Import!CutoverInv, Import!TypeOK
<1>3. n \in Import!Attempt
  BY <1>2 DEF Import!Attempt, Import!OpenSteps
<1>4. n.step \in {"read", "refused"} /\ n # Import!Idle /\ n.apply = apply /\ n.bundle = b
  BY <1>3 DEF Import!Attempt, Import!Idle, Import!OpenSteps
<1>5. n.apply /\ n.step # "refused" => n.bundle.upto = n.source
  BY DEF Import!Start, Import!Matches, Import!BundleOf
<1> HIDE DEF n
<1>6. importRun'[r] = n /\ \A q \in ImportRun : q # r => importRun'[q] = importRun[q]
  BY <1>1, <1>2
<1>7. imports \subseteq ImportRun /\ r \notin imports
  BY <1>1 DEF Import!CutoverInv, Import!TypeOK
<1>8. \A q \in imports : q \in ImportRun /\ q # r /\ importRun'[q] = importRun[q] /\ Import!Rows(q)' = Import!Rows(q)
  BY <1>6, <1>7 DEF Import!Rows
<1>9. Import!AuditIds' = Import!AuditIds
  BY <1>1, <1>8 DEF Import!AuditIds
<1>10. Import!TypeOK'
  BY <1>1, <1>2, <1>3 DEF Import!CutoverInv, Import!TypeOK
<1>11. ASSUME NEW q \in ImportRun, importRun'[q] # Import!Idle PROVE Import!AttemptInv(q)'
  <2>1. CASE q = r
    BY <1>4, <1>5, <1>6, <2>1 DEF Import!AttemptInv
  <2>2. CASE q # r
    <3>1. importRun'[q] = importRun[q] /\ Import!AttemptInv(q) /\ Import!Rows(q)' = Import!Rows(q)
      BY <1>6, <1>11, <2>2 DEF Import!CutoverInv, Import!Rows
    <3> QED BY <1>1, <1>9, <3>1 DEF Import!AttemptInv
  <2> QED BY <2>1, <2>2
<1>12. \A p, q \in ImportRun : importRun'[p].step \in Import!Exclusive /\ importRun'[q].step \in Import!Exclusive => p = q
  BY <1>4, <1>6 DEF Import!CutoverInv, Import!Exclusive
<1>13. \A q \in imports' : importRun'[q].step \in {"applied", "failed"} /\ importRun'[q].apply
  BY <1>1, <1>8 DEF Import!CutoverInv
<1>14. \A p, q \in imports' : Import!Rows(p)' # {} /\ Import!Rows(q)' # {} => p = q
  BY <1>1, <1>8 DEF Import!CutoverInv
<1>15. ASSUME ~early' PROVE Import!LeftAloneInv'
  <2>1. Import!LeftAloneInv
    BY <1>1, <1>15 DEF Import!CutoverInv
  <2>2. /\ \A q \in ImportRun : importRun'[q].step \in Import!Exclusive \cup {"begun"} => importRun'[q].ids = others'
        /\ \A q \in ImportRun : importRun'[q].step \in Import!Exclusive \ {"locked"} => importRun'[q].ids = {}
        /\ \A q \in ImportRun : importRun'[q].step = "verified" => importRun'[q].bundle.upto <= sequence'
    BY <1>1, <1>4, <1>6, <2>1 DEF Import!LeftAloneInv, Import!Exclusive
  <2>3. ASSUME \A q \in ImportRun : importRun'[q] # Import!Idle => ~importRun'[q].apply
        PROVE  imports' = {} /\ others' = {} /\ sequence' = 0
    <3>1. \A q \in ImportRun : importRun[q] # Import!Idle => ~importRun[q].apply
      BY <1>1, <1>6, <2>3
    <3> QED BY <1>1, <2>1, <3>1 DEF Import!LeftAloneInv
  <2> QED BY <1>1, <1>9, <2>1, <2>2, <2>3 DEF Import!LeftAloneInv
<1> QED BY <1>10, <1>11, <1>12, <1>13, <1>14, <1>15 DEF Import!CutoverInv

LEMMA ImportOthersKeeps ==
    ASSUME Import!CutoverInv, Import!Others PROVE Import!CutoverInv'
<1>1. /\ sequence' = sequence + 1 /\ sequence + 1 \notin Import!Held /\ sequence < MaxWrites + MaxOthers
      /\ others' = others \/ others' = others \cup {sequence + 1}
      /\ early' = (early \/ imports = {} \/ \E r \in ImportRun : importRun[r].step \in Import!OpenSteps)
      /\ UNCHANGED <<source, importFile, importRun, imports, importFaults>>
      /\ sequence \in Nat /\ sequence \in 0..(MaxWrites + MaxOthers)
  BY ImportStateTypes DEF Import!Others
<1>2. /\ sequence' \in 0..(MaxWrites + MaxOthers) /\ sequence + 1 \in 1..(MaxWrites + MaxOthers)
  BY <1>1, ImportBoundFacts
<1>3. Import!TypeOK'
  BY <1>1, <1>2 DEF Import!CutoverInv, Import!TypeOK
<1>4. \A q \in ImportRun : Import!Rows(q)' = Import!Rows(q)
  BY <1>1 DEF Import!Rows
<1>5. Import!AuditIds' = Import!AuditIds \/ Import!AuditIds' = Import!AuditIds \cup {sequence + 1}
  <2>1. UNION {Import!Rows(r)' : r \in imports'} = UNION {Import!Rows(r) : r \in imports}
    BY <1>1 DEF Import!Rows
  <2> QED BY <1>1, <2>1 DEF Import!AuditIds
<1>6. ASSUME NEW q \in ImportRun, importRun[q] # Import!Idle PROVE Import!AttemptInv(q)'
  <2>1. Import!AttemptInv(q)
    BY <1>6 DEF Import!CutoverInv
  <2>2. importRun[q].step \in {"inserted", "verified"} => sequence + 1 \notin Import!Rows(q)
    BY <1>1 DEF Import!Held
  <2> QED BY <1>1, <1>4, <1>5, <2>1, <2>2 DEF Import!AttemptInv
<1>7. ASSUME ~early' PROVE Import!LeftAloneInv'
  <2>1. ~early /\ Import!LeftAloneInv /\ imports # {} /\ \A r \in ImportRun : importRun[r].step \notin Import!OpenSteps
    BY <1>1, <1>7 DEF Import!CutoverInv
  <2>2. Import!AuditIds' \subseteq 1..sequence'
    <3>1. Import!AuditIds \subseteq 1..sequence
      BY <2>1 DEF Import!LeftAloneInv
    <3>2. 1..sequence' = 1..sequence \cup {sequence + 1}
      BY <1>1
    <3> QED BY <1>5, <3>1, <3>2
  <2>3. \A r \in ImportRun : importRun'[r].step \notin Import!Exclusive \cup {"begun"}
    BY <1>1, <2>1 DEF Import!Exclusive, Import!OpenSteps
  <2>4. \E r \in ImportRun : importRun'[r] # Import!Idle /\ importRun'[r].apply
    BY <1>1, <2>1, ImportFacts
  <2> QED BY <2>2, <2>3, <2>4 DEF Import!LeftAloneInv, Import!Exclusive
<1>8. \A q \in imports' : importRun'[q].step \in {"applied", "failed"} /\ importRun'[q].apply
  BY <1>1 DEF Import!CutoverInv
<1>9. \A p, q \in imports' : Import!Rows(p)' # {} /\ Import!Rows(q)' # {} => p = q
  BY <1>1 DEF Import!CutoverInv, Import!Rows
<1>10. \A p, q \in ImportRun : importRun'[p].step \in Import!Exclusive /\ importRun'[q].step \in Import!Exclusive => p = q
  BY <1>1 DEF Import!CutoverInv
<1> QED BY <1>1, <1>3, <1>6, <1>7, <1>8, <1>9, <1>10 DEF Import!CutoverInv

(* A step that leaves the target and the invocations alone. *)
LEMMA ImportSourceKeeps ==
    ASSUME Import!CutoverInv, UNCHANGED <<importRun, imports, others, sequence, early, importFaults>>,
           source' \in [Source -> [written : 0..MaxWrites, flaw : Import!Flaw]],
           importFile' \in [Source -> SUBSET Import!Bundle]
    PROVE  Import!CutoverInv'
<1>1. Import!TypeOK'
  BY DEF Import!CutoverInv, Import!TypeOK
<1>2. /\ \A q \in ImportRun : Import!Rows(q)' = Import!Rows(q)
      /\ Import!AuditIds' = Import!AuditIds
  BY DEF Import!Rows, Import!AuditIds
<1>3. \A q \in ImportRun : Import!AttemptInv(q)' <=> Import!AttemptInv(q)
  BY <1>2 DEF Import!AttemptInv
<1>4. Import!LeftAloneInv' <=> Import!LeftAloneInv
  BY <1>2 DEF Import!LeftAloneInv
<1>5. \A p, q \in imports' : Import!Rows(p)' # {} /\ Import!Rows(q)' # {} => p = q
  BY DEF Import!CutoverInv, Import!Rows
<1> QED BY <1>1, <1>3, <1>4, <1>5 DEF Import!CutoverInv

LEMMA ImportWriteKeeps ==
    ASSUME Import!CutoverInv, NEW s \in Source, NEW flaw \in Import!Flaw, Import!Write(s, flaw)
    PROVE  Import!CutoverInv'
<1>1. /\ source \in [Source -> [written : 0..MaxWrites, flaw : Import!Flaw]]
      /\ importFile \in [Source -> SUBSET Import!Bundle]
  BY DEF Import!CutoverInv, Import!TypeOK
<1> DEFINE w == [written |-> source[s].written + 1,
                 flaw |-> IF source[s].flaw = "none" THEN flaw ELSE source[s].flaw]
<1>2. w \in [written : 0..MaxWrites, flaw : Import!Flaw]
  <2>1. source[s].written + 1 \in 0..MaxWrites
    BY <1>1, ImportBoundFacts DEF Import!Write
  <2> QED BY <1>1, <2>1
<1>3. source' = [source EXCEPT ![s] = w]
  BY DEF Import!Write
<1> HIDE DEF w
<1>4. source' \in [Source -> [written : 0..MaxWrites, flaw : Import!Flaw]]
  BY <1>1, <1>2, <1>3
<1> QED BY <1>1, <1>4, ImportSourceKeeps DEF Import!Write

LEMMA ImportPreflightKeeps ==
    ASSUME Import!CutoverInv, NEW s \in Source, Import!Preflight(s) PROVE Import!CutoverInv'
<1>1. /\ source \in [Source -> [written : 0..MaxWrites, flaw : Import!Flaw]]
      /\ importFile \in [Source -> SUBSET Import!Bundle]
  BY DEF Import!CutoverInv, Import!TypeOK
<1>2. Import!BundleOf(s) \in Import!Bundle
  BY <1>1 DEF Import!Preflight, Import!Fit, Import!BundleOf, Import!Bundle, Import!Flaw
<1>3. importFile' \in [Source -> SUBSET Import!Bundle]
  BY <1>1, <1>2 DEF Import!Preflight
<1> QED BY <1>1, <1>3, ImportSourceKeeps DEF Import!Preflight

LEMMA ImportInit ==
    ASSUME Import!Init PROVE Import!CutoverInv
<1>1. \A r \in ImportRun : importRun[r] = Import!Idle /\ importRun[r].step = "idle"
  BY DEF Import!Init, Import!Idle
<1>2. Import!AuditIds = {}
  BY DEF Import!Init, Import!AuditIds
<1>3. Import!TypeOK
  <2>1. 0 \in 0..MaxWrites /\ 0 \in 0..MaxImportFaults /\ 0 \in 0..(MaxWrites + MaxOthers)
    BY ImportBoundFacts
  <2>2. /\ source \in [Source -> [written : 0..MaxWrites, flaw : Import!Flaw]]
        /\ importFile \in [Source -> SUBSET Import!Bundle] /\ importRun \in [ImportRun -> Import!Attempt \cup {Import!Idle}]
    BY <2>1 DEF Import!Init, Import!Flaw
  <2> QED BY <2>1, <2>2 DEF Import!Init, Import!TypeOK
<1>4. Import!LeftAloneInv
  BY <1>1, <1>2 DEF Import!Init, Import!LeftAloneInv, Import!Exclusive
<1> QED BY <1>1, <1>3, <1>4 DEF Import!Init, Import!CutoverInv, Import!Exclusive

LEMMA ImportStep ==
    ASSUME Import!CutoverInv, Import!Next \/ UNCHANGED Import!vars PROVE Import!CutoverInv'
<1>1. CASE UNCHANGED Import!vars
  <2>1. /\ source \in [Source -> [written : 0..MaxWrites, flaw : Import!Flaw]]
        /\ importFile \in [Source -> SUBSET Import!Bundle]
    BY DEF Import!CutoverInv, Import!TypeOK
  <2> QED BY <1>1, <2>1, ImportSourceKeeps DEF Import!vars
<1>2. CASE Import!Next
  <2>1. ASSUME NEW r \in ImportRun, NEW s \in Source, NEW t \in Source, NEW apply \in BOOLEAN,
               NEW reread \in BOOLEAN, NEW b \in importFile[t], Import!Start(r, b, s, apply, reread)
        PROVE  Import!CutoverInv'
    BY <2>1, ImportStartKeeps
  <2>2. ASSUME NEW s \in Source, NEW flaw \in Import!Flaw, Import!Write(s, flaw)
        PROVE  Import!CutoverInv'
    BY <2>2, ImportWriteKeeps
  <2>3. ASSUME NEW r \in ImportRun,
               \/ Import!Begin(r) \/ Import!Lock(r) \/ Import!Check(r) \/ Import!Insert(r) \/ Import!Verify(r)
               \/ Import!Commit(r) \/ Import!Fails(r) \/ Import!ReplyLost(r)
        PROVE  Import!CutoverInv'
    BY <2>3, ImportBeginKeeps, ImportLockKeeps, ImportCheckKeeps, ImportInsertKeeps,
       ImportVerifyKeeps, ImportCommitKeeps,
       ImportFailsKeeps, ImportReplyLostKeeps
  <2> QED BY <1>2, <2>1, <2>2, <2>3, ImportPreflightKeeps, ImportOthersKeeps DEF Import!Next
<1> QED BY <1>1, <1>2

LEMMA AtMostOneImport ==
    ASSUME NEW S, \A x, y \in S : x = y
    PROVE  Import!Cardinality(S) <= 1
<1>1. Import!Cardinality(S) = Cardinality(S)
  BY DEF Import!Cardinality, Cardinality
<1>2. CASE S = {}
  BY <1>1, <1>2, FS_EmptySet
<1>3. CASE S # {}
  <2>1. PICK x \in S : S = {x}
    BY <1>3
  <2> QED BY <1>1, <2>1, FS_Singleton
<1> QED BY <1>2, <1>3

LEMMA ImportIsExact ==
    ASSUME Import!CutoverInv
    PROVE  Import!TargetHoldsOneSource /\ Import!NextIdIsFree /\ Import!RehearsalsLeaveNoTrace
<1>1. ASSUME NEW r \in imports PROVE importRun[r].bundle.upto = importRun[r].source
  <2>1. r \in ImportRun /\ importRun[r].step \in {"applied", "failed"} /\ importRun[r].apply /\ importRun[r] # Import!Idle
    BY ImportFacts
  <2> QED BY <2>1 DEF Import!CutoverInv, Import!AttemptInv
<1>2. Import!Cardinality({r \in imports : Import!Rows(r) # {}}) <= 1
  <2> DEFINE S == {r \in imports : Import!Rows(r) # {}}
  <2>1. \A x, y \in S : x = y
    BY DEF Import!CutoverInv
  <2> HIDE DEF S
  <2>2. Import!Cardinality(S) <= 1
    BY <2>1, AtMostOneImport
  <2> QED BY <2>2 DEF S
<1>3. ASSUME NEW r \in ImportRun, importRun[r].step = "applied" PROVE r \in imports
  BY <1>3, ImportAttemptFacts DEF Import!AttemptInv
<1>4. Import!TargetHoldsOneSource
  BY <1>1, <1>2, <1>3 DEF Import!TargetHoldsOneSource
<1>5. Import!NextIdIsFree
  <2>1. sequence \in Nat /\ sequence + 1 \notin 1..sequence
    BY ImportStateTypes
  <2> QED BY <2>1 DEF Import!CutoverInv, Import!LeftAloneInv, Import!NextIdIsFree
<1>6. Import!RehearsalsLeaveNoTrace
  BY DEF Import!CutoverInv, Import!LeftAloneInv, Import!RehearsalsLeaveNoTrace, Import!AuditIds
<1> QED BY <1>4, <1>5, <1>6

(***************************************************************************)
(* For any sources, invocations, writes and faults: at most one committed  *)
(* import has rows, each is of the whole source that was read again, and   *)
(* "applied" is answered of a committed one; the next audit id is free if  *)
(* the target was left alone; and a rehearsal leaves no trace.             *)
(***************************************************************************)
THEOREM CutoverStaysExact == GovernanceSpec => []CutoverIsExact
<1> DEFINE I == governancePart = "import" => Import!CutoverInv
<1>1. GovernanceInit => I
  BY ImportInit DEF GovernanceInit
<1>2. I /\ [GovernanceNext]_governanceVars => I'
  <2> SUFFICES ASSUME I, [GovernanceNext]_governanceVars, governancePart' = "import"
               PROVE  Import!CutoverInv'
    OBVIOUS
  <2>1. governancePart = "import" /\ Import!CutoverInv
    BY DEF GovernanceNext, governanceVars
  <2>2. Import!Next \/ UNCHANGED Import!vars
    BY <2>1 DEF GovernanceNext, governanceVars, importVars, Import!vars
  <2> QED BY <2>1, <2>2, ImportStep
<1>3. I => CutoverIsExact
  BY ImportIsExact DEF CutoverIsExact
<1> QED BY <1>1, <1>2, <1>3, PTL DEF GovernanceSpec

-----------------------------------------------------------------------------
LEMMA AdminFacts ==
    ASSUME Admin!AdministrationInv
    PROVE  /\ AdminTenant \notin AdminProject /\ NotHeld \notin ProjectInput /\ MaxAdminChanges \in Nat
           /\ Bootstrap \subseteq Admin!BootstrapInput
           /\ scopeStatus \in [Admin!Scope -> {"none", "active", "suspended"}]
           /\ projectInput \in [AdminProject -> ProjectInput \cup {NotHeld}]
           /\ scopeRole \in [Admin!Scope -> [AdminUser -> Admin!Role]]
           /\ ledger \in Seq(Admin!LedgerEntry) /\ Len(ledger) <= MaxAdminChanges
           /\ Len(ledger) \in Nat /\ DOMAIN ledger = 1 .. Len(ledger)
           /\ adminSession \in [AdminHandler -> Admin!Session]
           /\ AdminTenant \in Admin!Scope /\ AdminProject \subseteq Admin!Scope
  BY GovernanceAssumptions DEF Admin!AdministrationAssumption, Admin!AdministrationInv,
     Admin!TypeOK, Admin!Scope

LEMMA AdminEntryFacts ==
    ASSUME Admin!AdministrationInv, NEW i \in DOMAIN ledger
    PROVE  /\ ledger[i] \in Admin!LedgerEntry
           /\ ledger[i].kind \in {"member", "status", "created", "provisioned"}
           /\ ledger[i].kind = "created" => ledger[i].scope # AdminTenant
           /\ ledger[i].kind = "provisioned" => ledger[i].bootstrap \in Admin!BootstrapInput
<1>1. ledger[i] \in Admin!LedgerEntry /\ Bootstrap \subseteq Admin!BootstrapInput /\ AdminTenant \notin AdminProject
  BY AdminFacts
<1> QED BY <1>1 DEF Admin!LedgerEntry

LEMMA AdminFirstFacts ==
    ASSUME Admin!AdministrationInv, ledger # <<>>
    PROVE  1 \in DOMAIN ledger /\ ledger[1].kind = "provisioned" /\ ledger[1].bootstrap \in Admin!BootstrapInput
<1>1. 1 \in DOMAIN ledger
  BY AdminFacts
<1>2. ledger[1].kind = "provisioned"
  BY <1>1 DEF Admin!AdministrationInv, Admin!LedgerTellsAdministration
<1> QED BY <1>1, <1>2, AdminEntryFacts

(* A ledger that one entry is appended to. *)
AdminAppends(e) == ledger' = Append(ledger, e)

LEMMA AdminAppendFacts ==
    ASSUME Admin!AdministrationInv, NEW e, AdminAppends(e)
    PROVE  /\ Len(ledger') = Len(ledger) + 1 /\ Len(ledger) \in Nat
           /\ DOMAIN ledger' = DOMAIN ledger \cup {Len(ledger) + 1}
           /\ Len(ledger) + 1 \notin DOMAIN ledger
           /\ ledger'[Len(ledger) + 1] = e
           /\ \A i \in DOMAIN ledger : /\ ledger'[i] = ledger[i] /\ i < Len(ledger) + 1
                                       /\ i \in Nat
           /\ ledger' # <<>>
           /\ ledger # <<>> => ledger'[1] = ledger[1]
<1>1. ledger \in Seq(Admin!LedgerEntry) /\ Len(ledger) \in Nat /\ DOMAIN ledger = 1 .. Len(ledger)
  BY AdminFacts
<1>2. /\ Len(ledger') = Len(ledger) + 1 /\ DOMAIN ledger' = 1 .. Len(ledger) + 1
      /\ ledger'[Len(ledger) + 1] = e
      /\ \A i \in 1 .. Len(ledger) : ledger'[i] = ledger[i]
  BY <1>1 DEF AdminAppends
<1>3. ledger # <<>> => 1 \in DOMAIN ledger
  BY <1>1
<1> QED BY <1>1, <1>2, <1>3

LEMMA AdminEntriesAppend ==
    ASSUME Admin!AdministrationInv, NEW e, AdminAppends(e), NEW s, NEW kind
    PROVE  Admin!Entries(s, kind)' = IF e.kind = kind /\ e.scope = s
                               THEN Admin!Entries(s, kind) \cup {Len(ledger) + 1} ELSE Admin!Entries(s, kind)
  BY AdminAppendFacts DEF Admin!Entries

LEMMA AdminEntriesOfAppend ==
    ASSUME Admin!AdministrationInv, NEW e, AdminAppends(e), NEW s, NEW u
    PROVE  Admin!EntriesOf(s, u)' = IF e.kind = "member" /\ e.scope = s /\ e.user = u
                              THEN Admin!EntriesOf(s, u) \cup {Len(ledger) + 1} ELSE Admin!EntriesOf(s, u)
<1>1. Admin!Entries(s, "member")' = IF e.kind = "member" /\ e.scope = s
                              THEN Admin!Entries(s, "member") \cup {Len(ledger) + 1} ELSE Admin!Entries(s, "member")
  BY AdminEntriesAppend
<1>2. Admin!Entries(s, "member") \subseteq DOMAIN ledger
  BY DEF Admin!Entries
<1> QED BY <1>1, <1>2, AdminAppendFacts DEF Admin!EntriesOf

(* An entry that is not among those keeps them continuing. *)
LEMMA AdminContinuesStill ==
    ASSUME Admin!AdministrationInv, NEW e, AdminAppends(e), NEW at, at \subseteq DOMAIN ledger,
           NEW start, NEW now, Admin!Continues(start, at, now)
    PROVE  Admin!Continues(start, at, now)'
<1>1. \A i \in at : ledger'[i] = ledger[i]
  BY AdminAppendFacts
<1>2. Admin!Leave(start, at, now)'
  BY <1>1 DEF Admin!Continues, Admin!Leave
<1>3. ASSUME NEW i \in at
      PROVE  Admin!Leave(start, {j \in at : j < i}, ledger[i].was)' /\ ledger'[i].becomes # ledger'[i].was
  <2> DEFINE b == {j \in at : j < i}
  <2>1. Admin!Leave(start, b, ledger[i].was) /\ b \subseteq at
    BY DEF Admin!Continues
  <2> HIDE DEF b
  <2>2. Admin!Leave(start, b, ledger[i].was)'
    BY <1>1, <2>1 DEF Admin!Leave
  <2> QED BY <1>1, <2>2 DEF Admin!Continues, b
<1> QED BY <1>2, <1>3 DEF Admin!Continues

LEMMA AdminContinuesOn ==
    ASSUME Admin!AdministrationInv, NEW e, AdminAppends(e), NEW n, n = Len(ledger) + 1,
           NEW at, at \subseteq DOMAIN ledger,
           NEW start, NEW now, Admin!Continues(start, at, now), e.was = now, e.becomes # now
    PROVE  Admin!Continues(start, at \cup {n}, e.becomes)'
<1> DEFINE on == at \cup {n}
<1>1. /\ \A i \in at : ledger'[i] = ledger[i] /\ i < n /\ i \in Nat
      /\ ledger'[n] = e /\ n \in Nat /\ n \notin at
  BY AdminAppendFacts
<1>2. Admin!Continues(start, at, now)'
  BY AdminContinuesStill
<1>3. \A j \in on : j <= n
  BY <1>1
<1>4. Admin!Leave(start, on, e.becomes)'
  BY <1>1, <1>3 DEF Admin!Leave
<1>5. ASSUME NEW i \in on
      PROVE  Admin!Leave(start, {j \in on : j < i}, ledger[i].was)' /\ ledger'[i].becomes # ledger'[i].was
  <2>1. CASE i \in at
    <3>1. {j \in on : j < i} = {j \in at : j < i}
      BY <1>1, <2>1
    <3>2. Admin!Leave(start, {j \in at : j < i}, ledger[i].was)' /\ ledger'[i].becomes # ledger'[i].was
      BY <1>2, <2>1 DEF Admin!Continues
    <3> QED BY <3>1, <3>2
  <2>2. CASE i = n
    <3>1. {j \in on : j < i} = at
      BY <1>1, <2>2
    <3>2. Admin!Leave(start, at, now)'
      BY <1>2 DEF Admin!Continues
    <3> QED BY <1>1, <2>2, <3>1, <3>2
  <2> QED BY <2>1, <2>2
<1> QED BY <1>4, <1>5 DEF Admin!Continues

-----------------------------------------------------------------------------
LEMMA AdminAskedFacts ==
    ASSUME Admin!AdministrationInv, NEW q \in AdminRequest
    PROVE  /\ q.kind \in {"member", "status", "project"} /\ q.by \in AdminUser /\ q.scope \in Admin!Scope
           /\ q.kind = "member" => q.user \in AdminUser /\ q.becomes \in Admin!Role
           /\ q.kind = "status" => q.becomes \in {"active", "suspended"}
           /\ q.kind = "project" => q.scope \in AdminProject /\ q.input \in ProjectInput
<1>1. q \in [kind : {"member"}, by : AdminUser, scope : Admin!Scope, user : AdminUser, becomes : Admin!Role]
            \cup [kind : {"status"}, by : AdminUser, scope : Admin!Scope, becomes : {"active", "suspended"}]
            \cup [kind : {"project"}, by : AdminUser, scope : AdminProject, input : ProjectInput]
  BY GovernanceAssumptions DEF Admin!AdministrationAssumption
<1> QED BY <1>1 DEF Admin!Scope

LEMMA AdminAtFacts ==
    ASSUME Admin!AdministrationInv, NEW h \in AdminHandler
    PROVE  /\ adminSession[h] \in Admin!Session /\ Admin!Sound(adminSession[h])
           /\ adminSession[h].step \in {"allowed", "missing"} =>
                 adminSession[h].asked \in AdminRequest
           /\ adminSession[h].step = "snapshot" =>
                 adminSession[h].asked \in Bootstrap /\ adminSession[h].asked \in Admin!BootstrapInput
<1>1. adminSession[h] \in Admin!Session /\ Admin!Sound(adminSession[h]) /\ Bootstrap \subseteq Admin!BootstrapInput
  BY AdminFacts DEF Admin!AdministrationInv
<1> QED BY <1>1 DEF Admin!Session, Admin!Idle

LEMMA AdminStepOf ==
    ASSUME NEW q
    PROVE  /\ q \in AdminRequest => [step |-> "allowed", asked |-> q] \in Admin!Session
           /\ q \in AdminRequest => [step |-> "missing", asked |-> q] \in Admin!Session
           /\ \A x, y \in BOOLEAN : q \in Bootstrap =>
                 [step |-> "snapshot", asked |-> q, empty |-> x, exact |-> y] \in Admin!Session
           /\ \A x \in {"provisioned", "failed", "unchanged"}, y \in BOOLEAN :
                 q \in Bootstrap => [step |-> "told", asked |-> q, answer |-> x, exact |-> y] \in Admin!Session
           /\ Admin!Idle \in Admin!Session
  BY DEF Admin!Session

(* A step that leaves the tables alone. *)
LEMMA AdminSessionKeeps ==
    ASSUME Admin!AdministrationInv, NEW h \in AdminHandler, NEW n \in Admin!Session, Admin!Goto(h, n),
           UNCHANGED <<Admin!tables, ledger>>, Admin!Sound(n)
    PROVE  Admin!AdministrationInv'
<1>1. scopeStatus' = scopeStatus /\ projectInput' = projectInput /\ scopeRole' = scopeRole /\ ledger' = ledger
  BY DEF Admin!tables
<1>2. Admin!TypeOK'
  BY <1>1, AdminFacts DEF Admin!TypeOK, Admin!Goto
<1>3. ASSUME NEW k \in AdminHandler PROVE Admin!Sound(adminSession[k])'
  <2>1. adminSession'[k] = (IF k = h THEN n ELSE adminSession[k]) /\ Admin!Sound(adminSession[k])
    BY AdminFacts DEF Admin!Goto, Admin!AdministrationInv
  <2> DEFINE m == adminSession'[k]
  <2>2. Admin!Sound(m)
    BY <2>1
  <2> HIDE DEF m
  <2>3. Admin!Sound(m) => (LET x == m IN
              /\ x.step \in {"allowed", "missing"} =>
                    /\ scopeStatus'[AdminTenant] # "none"
                    /\ x.asked.kind # "project" => scopeStatus'[x.asked.scope] # "none"
              /\ x.step = "missing" => x.asked.kind = "member" /\ x.asked.becomes # "none"
              /\ \/ x.step = "snapshot" /\ x.exact
                 \/ x.step = "told" /\ x.answer = "unchanged"
                 => ledger' # <<>> /\ ledger'[1].bootstrap = x.asked)
    BY <1>1 DEF Admin!Sound
  <2> QED BY <2>2, <2>3 DEF m, Admin!Sound
<1>4. Admin!OwnersRemain' /\ Admin!LedgerTellsAdministration'
  BY <1>1 DEF Admin!AdministrationInv, Admin!OwnersRemain, Admin!Owners,
     Admin!LedgerTellsAdministration, Admin!StatusTold,
              Admin!RoleTold, Admin!InputTold, Admin!FoundedBy, Admin!Entries, Admin!EntriesOf, Admin!Continues, Admin!Leave
<1>5. \A s \in Admin!Scope : scopeStatus'[s] = "none" => Admin!Blank(s)'
  BY <1>1 DEF Admin!AdministrationInv, Admin!Blank
<1> QED BY <1>1, <1>2, <1>3, <1>4, <1>5 DEF Admin!AdministrationInv

(* What a step that appends to the ledger leaves of the sessions. *)
LEMMA AdminSessionsStill ==
    ASSUME Admin!AdministrationInv, NEW h \in AdminHandler, NEW n, Admin!Goto(h, n), Admin!Sound(n)', NEW e, AdminAppends(e),
           \A s \in Admin!Scope : scopeStatus[s] # "none" => scopeStatus'[s] # "none"
    PROVE  \A k \in AdminHandler : Admin!Sound(adminSession[k])'
<1> SUFFICES ASSUME NEW k \in AdminHandler PROVE Admin!Sound(adminSession[k])'
  OBVIOUS
<1>1. adminSession'[k] = IF k = h THEN n ELSE adminSession[k]
  BY AdminFacts DEF Admin!Goto
<1>2. CASE k = h
  <2>1. adminSession'[k] = n
    BY <1>1, <1>2
  <2> QED BY <2>1 DEF Admin!Sound
<1>3. CASE k # h
  <2>1. adminSession'[k] = adminSession[k] /\ Admin!Sound(adminSession[k])
    BY <1>1, <1>3, AdminAtFacts
  <2>2. adminSession[k].step \in {"allowed", "missing"} => adminSession[k].asked.scope \in Admin!Scope
    BY AdminAtFacts, AdminAskedFacts
  <2>3. AdminTenant \in Admin!Scope
    BY AdminFacts
  <2>4. ledger # <<>> => ledger'[1] = ledger[1]
    BY AdminAppendFacts
  <2>5. ledger' # <<>>
    BY AdminAppendFacts
  <2> DEFINE x == adminSession[k]
  <2> HIDE DEF x
  <2>6. /\ x.step \in {"allowed", "missing"} =>
              /\ scopeStatus'[AdminTenant] # "none"
              /\ x.asked.kind # "project" => scopeStatus'[x.asked.scope] # "none"
        /\ x.step = "missing" => x.asked.kind = "member" /\ x.asked.becomes # "none"
        /\ \/ x.step = "snapshot" /\ x.exact
           \/ x.step = "told" /\ x.answer = "unchanged"
           => ledger' # <<>> /\ ledger'[1].bootstrap = x.asked
    BY <2>1, <2>2, <2>3, <2>4, <2>5 DEF Admin!Sound, x
  <2> QED BY <2>1, <2>6 DEF x, Admin!Sound
<1> QED BY <1>2, <1>3

LEMMA AdminFounderStill ==
    ASSUME Admin!AdministrationInv, NEW e, AdminAppends(e), ledger # <<>>, NEW s, NEW u,
           e.kind # "created" \/ e.scope # s
    PROVE  Admin!FoundedBy(s, u)' <=> Admin!FoundedBy(s, u)
<1>1. Admin!Entries(s, "created")' = Admin!Entries(s, "created")
  BY AdminEntriesAppend
<1>2. Admin!Entries(s, "created") \subseteq DOMAIN ledger
  BY DEF Admin!Entries
<1>3. ledger'[1] = ledger[1] /\ \A i \in DOMAIN ledger : ledger'[i] = ledger[i]
  BY AdminAppendFacts
<1> QED BY <1>1, <1>2, <1>3 DEF Admin!FoundedBy

LEMMA AdminRoleToldStill ==
    ASSUME Admin!AdministrationInv, NEW e, AdminAppends(e), ledger # <<>>, NEW s, NEW u, Admin!RoleTold(s, u),
           e.kind # "created" \/ e.scope # s, scopeRole'[s][u] = scopeRole[s][u],
           e.kind # "member" \/ e.scope # s \/ e.user # u
    PROVE  Admin!RoleTold(s, u)'
<1> DEFINE start == IF Admin!FoundedBy(s, u) THEN "owner" ELSE "none"
<1>1. start' = start
  BY AdminFounderStill
<1>2. Admin!EntriesOf(s, u)' = Admin!EntriesOf(s, u) /\ Admin!EntriesOf(s, u) \subseteq DOMAIN ledger
  <2>1. Admin!EntriesOf(s, u)' = Admin!EntriesOf(s, u)
    BY AdminEntriesOfAppend
  <2>2. Admin!EntriesOf(s, u) \subseteq DOMAIN ledger
    BY DEF Admin!Entries, Admin!EntriesOf
  <2> QED BY <2>1, <2>2
<1>3. PICK at, now, from : at = Admin!EntriesOf(s, u) /\ now = scopeRole[s][u] /\ from = start
  OBVIOUS
<1>4. Admin!Continues(from, at, now)
  BY <1>3 DEF Admin!RoleTold
<1>5. Admin!Continues(from, at, now)'
  BY <1>2, <1>3, <1>4, AdminContinuesStill
<1>6. Admin!EntriesOf(s, u)' = at /\ scopeRole'[s][u] = now /\ start' = from
  BY <1>1, <1>2, <1>3
<1> HIDE DEF start
<1>7. Admin!Continues(start, Admin!EntriesOf(s, u), scopeRole[s][u])'
  BY <1>5, <1>6 DEF Admin!Continues, Admin!Leave
<1> QED BY <1>7 DEF Admin!RoleTold, start

LEMMA AdminStatusToldStill ==
    ASSUME Admin!AdministrationInv, NEW e, AdminAppends(e), NEW s, Admin!StatusTold(s),
           scopeStatus'[s] = scopeStatus[s], e.kind # "status" \/ e.scope # s
    PROVE  Admin!StatusTold(s)'
<1>1. Admin!Entries(s, "status")' = Admin!Entries(s, "status") /\ Admin!Entries(s, "status") \subseteq DOMAIN ledger
  <2>1. Admin!Entries(s, "status")' = Admin!Entries(s, "status")
    BY AdminEntriesAppend
  <2>2. Admin!Entries(s, "status") \subseteq DOMAIN ledger
    BY DEF Admin!Entries
  <2> QED BY <2>1, <2>2
<1>2. PICK at, now : at = Admin!Entries(s, "status") /\ now = scopeStatus[s]
  OBVIOUS
<1>3. Admin!Continues("active", at, now)'
  BY <1>1, <1>2, AdminContinuesStill DEF Admin!StatusTold
<1>4. Admin!Entries(s, "status")' = at /\ scopeStatus'[s] = now
  BY <1>1, <1>2
<1> QED BY <1>3, <1>4 DEF Admin!StatusTold, Admin!Continues, Admin!Leave

LEMMA AdminInputToldStill ==
    ASSUME Admin!AdministrationInv, NEW e, AdminAppends(e), ledger # <<>>, NEW p, Admin!InputTold(p),
           e.kind # "created" \/ e.scope # p, projectInput'[p] = projectInput[p]
    PROVE  Admin!InputTold(p)'
<1>1. Admin!Entries(p, "created")' = Admin!Entries(p, "created") /\ Admin!Entries(p, "created") \subseteq DOMAIN ledger
  <2>1. Admin!Entries(p, "created")' = Admin!Entries(p, "created")
    BY AdminEntriesAppend
  <2>2. Admin!Entries(p, "created") \subseteq DOMAIN ledger
    BY DEF Admin!Entries
  <2> QED BY <2>1, <2>2
<1>2. ledger'[1] = ledger[1] /\ \A i \in DOMAIN ledger : ledger'[i] = ledger[i]
  BY AdminAppendFacts
<1> QED BY <1>1, <1>2 DEF Admin!InputTold

-----------------------------------------------------------------------------
LEMMA AdminStepKeeps ==
    ASSUME Admin!AdministrationInv, NEW h \in AdminHandler,
           Admin!Ask(h) \/ Admin!LookInVain(h) \/ Admin!Nothing(h) \/ Admin!ProvisionBegins(h) \/ Admin!ProvisionCollides(h)
           \/ Admin!ProvisionAgain(h)
    PROVE  Admin!AdministrationInv'
<1>0. UNCHANGED <<Admin!tables, ledger>>
  BY DEF Admin!Ask, Admin!LookInVain, Admin!Nothing, Admin!ProvisionBegins,
     Admin!ProvisionCollides, Admin!ProvisionAgain
<1>1. SUFFICES \E n \in Admin!Session : Admin!Goto(h, n) /\ Admin!Sound(n)
  BY <1>0, AdminSessionKeeps
<1>2. Admin!Sound(Admin!Idle) /\ Admin!Idle \in Admin!Session
  BY AdminStepOf DEF Admin!Sound, Admin!Idle
<1>3. CASE Admin!Ask(h)
  <2>1. PICK q \in AdminRequest :
          /\ scopeStatus[AdminTenant] # "none"
          /\ q.kind # "project" => scopeStatus[q.scope] # "none"
          /\ Admin!Goto(h, [step |-> "allowed", asked |-> q])
    BY <1>3 DEF Admin!Ask
  <2>2. Admin!Sound([step |-> "allowed", asked |-> q])
    BY <2>1 DEF Admin!Sound
  <2> QED BY <2>1, <2>2, AdminStepOf
<1>4. CASE Admin!LookInVain(h)
  <2> DEFINE q == adminSession[h].asked
  <2>1. /\ adminSession[h].step = "allowed" /\ q.kind = "member" /\ q.becomes # "none"
        /\ Admin!Goto(h, [adminSession[h] EXCEPT !.step = "missing"])
    BY <1>4 DEF Admin!LookInVain
  <2>2. q \in AdminRequest /\ Admin!Sound(adminSession[h]) /\ adminSession[h] \in Admin!Session
    BY <2>1, AdminAtFacts
  <2>3. adminSession[h] = [step |-> "allowed", asked |-> q]
    BY <2>1, <2>2 DEF Admin!Session, Admin!Idle
  <2>4. [adminSession[h] EXCEPT !.step = "missing"] = [step |-> "missing", asked |-> q]
    BY <2>3
  <2>5. Admin!Sound([step |-> "missing", asked |-> q])
    BY <2>1, <2>2 DEF Admin!Sound
  <2> QED BY <2>1, <2>2, <2>4, <2>5, AdminStepOf
<1>5. CASE Admin!Nothing(h)
  BY <1>2, <1>5 DEF Admin!Nothing, Admin!Ends
<1>6. CASE Admin!ProvisionBegins(h)
  <2>1. PICK b \in Bootstrap : Admin!Goto(h, [step |-> "snapshot", asked |-> b,
                                     empty |-> scopeStatus[AdminTenant] = "none", exact |-> Admin!Exact(b)])
    BY <1>6 DEF Admin!ProvisionBegins
  <2> DEFINE x == scopeStatus[AdminTenant] = "none"
             y == Admin!Exact(b)
             n == [step |-> "snapshot", asked |-> b, empty |-> x, exact |-> y]
  <2>2. x \in BOOLEAN /\ y \in BOOLEAN
    BY DEF Admin!Exact
  <2>3. y => ledger # <<>> /\ ledger[1].bootstrap = b
    BY DEF Admin!Exact
  <2> HIDE DEF x, y
  <2>4. n \in Admin!Session
    BY <2>2, AdminStepOf
  <2>5. Admin!Sound(n)
    BY <2>2, <2>3 DEF Admin!Sound
  <2> QED BY <2>1, <2>4, <2>5 DEF x, y
<1>7. ASSUME NEW a \in {"failed", "unchanged"}, Admin!Answer(h, a), adminSession[h].step = "snapshot",
             a = "unchanged" => ledger # <<>> /\ ledger[1].bootstrap = adminSession[h].asked
      PROVE  \E n \in Admin!Session : Admin!Goto(h, n) /\ Admin!Sound(n)
  <2>1. PICK y : y = Admin!Exact(adminSession[h].asked)
    OBVIOUS
  <2>2. y \in BOOLEAN
    BY <2>1 DEF Admin!Exact
  <2> DEFINE n == [step |-> "told", asked |-> adminSession[h].asked, answer |-> a, exact |-> y]
  <2>3. Admin!Goto(h, n)
    BY <1>7, <2>1 DEF Admin!Answer
  <2>4. n \in Admin!Session
    BY <1>7, <2>2, AdminAtFacts, AdminStepOf
  <2>5. Admin!Sound(n)
    BY <1>7 DEF Admin!Sound
  <2> QED BY <2>3, <2>4, <2>5
<1>8. CASE Admin!ProvisionCollides(h)
  BY <1>7, <1>8 DEF Admin!ProvisionCollides
<1>9. CASE Admin!ProvisionAgain(h)
  <2>1. adminSession[h].step = "snapshot" /\ Admin!Answer(h, Admin!Verdict(h))
    BY <1>9 DEF Admin!ProvisionAgain
  <2>2. Admin!Verdict(h) \in {"failed", "unchanged"} /\ (Admin!Verdict(h) = "unchanged" => adminSession[h].exact)
    BY DEF Admin!Verdict
  <2>3. adminSession[h].exact => ledger # <<>> /\ ledger[1].bootstrap = adminSession[h].asked
    BY <2>1, AdminAtFacts DEF Admin!Sound
  <2> QED BY <1>7, <2>1, <2>2, <2>3
<1> QED BY <1>3, <1>4, <1>5, <1>6, <1>8, <1>9

(* A ledger entry is added, and nothing comes to be. *)
LEMMA AdminAppendType ==
    ASSUME Admin!AdministrationInv, NEW h \in AdminHandler, NEW e \in Admin!LedgerEntry, Admin!Record(e), NEW n \in Admin!Session,
           Admin!Goto(h, n)
    PROVE  /\ AdminAppends(e)
           /\ ledger' \in Seq(Admin!LedgerEntry) /\ Len(ledger') <= MaxAdminChanges
           /\ adminSession' \in [AdminHandler -> Admin!Session]
<1>1. ledger \in Seq(Admin!LedgerEntry) /\ Len(ledger) \in Nat /\ MaxAdminChanges \in Nat
      /\ adminSession \in [AdminHandler -> Admin!Session]
  BY AdminFacts
<1>2. ledger' = Append(ledger, e) /\ Len(ledger) < MaxAdminChanges
  BY DEF Admin!Record
<1>3. ledger' \in Seq(Admin!LedgerEntry) /\ Len(ledger') = Len(ledger) + 1
  BY <1>1, <1>2, AppendProperties
<1>4. Len(ledger') <= MaxAdminChanges
  BY <1>1, <1>2, <1>3
<1>5. adminSession' \in [AdminHandler -> Admin!Session]
  BY <1>1 DEF Admin!Goto
<1> QED BY <1>2, <1>3, <1>4, <1>5 DEF AdminAppends

LEMMA AdminBlankStill ==
    ASSUME Admin!AdministrationInv, NEW e, AdminAppends(e), NEW s \in Admin!Scope, scopeStatus[s] = "none",
           scopeStatus' \in [Admin!Scope -> {"none", "active", "suspended"}],
           e.scope # s, \A u \in AdminUser : scopeRole'[s][u] = scopeRole[s][u],
           s = AdminTenant => \A p \in AdminProject : scopeStatus'[p] = scopeStatus[p]
    PROVE  Admin!Blank(s)'
<1>1. Admin!Blank(s)
  BY DEF Admin!AdministrationInv
<1>2. \A i \in DOMAIN ledger' : ledger'[i].scope # s
  BY <1>1, AdminAppendFacts DEF Admin!Blank
<1> QED BY <1>1, <1>2 DEF Admin!Blank

LEMMA AdminKindsStill ==
    ASSUME Admin!AdministrationInv, NEW e, AdminAppends(e), e.kind # "provisioned", ledger # <<>>
    PROVE  \A i \in DOMAIN ledger' : ledger'[i].kind = "provisioned" <=> i = 1
<1>1. \A i \in DOMAIN ledger : ledger[i].kind = "provisioned" <=> i = 1
  BY DEF Admin!AdministrationInv, Admin!LedgerTellsAdministration
<1>2. 1 \in DOMAIN ledger
  BY AdminFirstFacts
<1> QED BY <1>1, <1>2, AdminAppendFacts

-----------------------------------------------------------------------------
LEMMA AdminIdleSound == Admin!Idle \in Admin!Session /\ Admin!Sound(Admin!Idle)'
  BY AdminStepOf DEF Admin!Sound, Admin!Idle

LEMMA AdminSetRoleKeeps ==
    ASSUME Admin!AdministrationInv, NEW h \in AdminHandler, NEW q \in AdminRequest, q.kind = "member", Admin!SetRole(h, q),
           scopeStatus[AdminTenant] # "none", scopeStatus[q.scope] # "none", q.becomes # scopeRole[q.scope][q.user],
           Admin!KeepsOwner(q.scope, q.user, q.becomes)
    PROVE  Admin!AdministrationInv'
<1>0. PICK e : e = [kind |-> "member", by |-> q.by, scope |-> q.scope, user |-> q.user,
                    was |-> scopeRole[q.scope][q.user], becomes |-> q.becomes]
  OBVIOUS
<1>1. q.scope \in Admin!Scope /\ q.user \in AdminUser /\ q.becomes \in Admin!Role /\ q.by \in AdminUser
  BY AdminAskedFacts
<1>2. scopeRole \in [Admin!Scope -> [AdminUser -> Admin!Role]]
  BY AdminFacts
<1>3. e \in Admin!LedgerEntry
  BY <1>0, <1>1, <1>2 DEF Admin!LedgerEntry
<1>4. Admin!Record(e) /\ Admin!Goto(h, Admin!Idle) /\ scopeStatus' = scopeStatus /\ projectInput' = projectInput
  BY <1>0 DEF Admin!SetRole, Admin!Ends
<1>5. /\ e.kind = "member" /\ e.scope = q.scope /\ e.user = q.user
      /\ e.was = scopeRole[q.scope][q.user] /\ e.becomes = q.becomes
  BY <1>0
<1>6. scopeRole' = [scopeRole EXCEPT ![q.scope][q.user] = q.becomes]
  BY DEF Admin!SetRole
<1>7. /\ AdminAppends(e) /\ ledger' \in Seq(Admin!LedgerEntry) /\ Len(ledger') <= MaxAdminChanges
      /\ adminSession' \in [AdminHandler -> Admin!Session]
  BY <1>3, <1>4, AdminIdleSound, AdminAppendType
<1>8. /\ scopeRole' \in [Admin!Scope -> [AdminUser -> Admin!Role]]
      /\ \A s \in Admin!Scope, u \in AdminUser :
            scopeRole'[s][u] = IF s = q.scope /\ u = q.user THEN q.becomes ELSE scopeRole[s][u]
  BY <1>1, <1>2, <1>6
<1>9. Admin!TypeOK'
  BY <1>4, <1>7, <1>8, AdminFacts DEF Admin!TypeOK
<1>10. ledger # <<>>
  BY DEF Admin!AdministrationInv, Admin!LedgerTellsAdministration
<1>11. Admin!OwnersRemain'
  <2>1. SUFFICES ASSUME NEW s \in Admin!Scope, scopeStatus[s] # "none"
                 PROVE  \E u \in AdminUser : scopeRole'[s][u] = "owner"
    BY <1>4 DEF Admin!OwnersRemain, Admin!Owners
  <2>2. PICK v \in AdminUser : scopeRole[s][v] = "owner"
    BY <2>1 DEF Admin!AdministrationInv, Admin!OwnersRemain, Admin!Owners
  <2>3. CASE s # q.scope \/ v # q.user \/ q.becomes = "owner"
    BY <1>8, <2>2, <2>3
  <2>4. CASE s = q.scope /\ v = q.user /\ q.becomes # "owner"
    <3>1. Admin!Owners(s) # {v} /\ v \in Admin!Owners(s)
      BY <2>2, <2>4 DEF Admin!KeepsOwner, Admin!Owners
    <3>2. PICK w \in Admin!Owners(s) : w # v
      BY <3>1
    <3>3. w \in AdminUser /\ scopeRole[s][w] = "owner"
      BY <3>2 DEF Admin!Owners
    <3> QED BY <1>8, <2>4, <3>2, <3>3
  <2> QED BY <2>3, <2>4
<1>12. ASSUME NEW s \in Admin!Scope, scopeStatus[s] # "none"
       PROVE  Admin!StatusTold(s)'
  <2>1. Admin!StatusTold(s)
    BY <1>12 DEF Admin!AdministrationInv, Admin!LedgerTellsAdministration
  <2> QED BY <1>4, <1>5, <1>7, <2>1, AdminStatusToldStill
<1>13. ASSUME NEW s \in Admin!Scope, scopeStatus[s] # "none", NEW u \in AdminUser
       PROVE  Admin!RoleTold(s, u)'
  <2>1. Admin!RoleTold(s, u)
    BY <1>13 DEF Admin!AdministrationInv, Admin!LedgerTellsAdministration
  <2>2. CASE s # q.scope \/ u # q.user
    BY <1>5, <1>7, <1>8, <1>10, <2>1, <2>2, AdminRoleToldStill
  <2>3. CASE s = q.scope /\ u = q.user
    <3> DEFINE start == IF Admin!FoundedBy(s, u) THEN "owner" ELSE "none"
    <3>1. start' = start
      BY <1>5, <1>7, <1>10, AdminFounderStill
    <3>2. PICK at, now, from, n : at = Admin!EntriesOf(s, u) /\ now = scopeRole[s][u] /\ from = start
                                  /\ n = Len(ledger) + 1
      OBVIOUS
    <3>3. Admin!Continues(from, at, now)
      BY <2>1, <3>2 DEF Admin!RoleTold
    <3>4. at \subseteq DOMAIN ledger
      BY <3>2 DEF Admin!EntriesOf, Admin!Entries
    <3>5. Admin!Continues(from, at \cup {n}, e.becomes)'
      BY <1>5, <1>7, <2>3, <3>2, <3>3, <3>4, AdminContinuesOn
    <3>6. Admin!EntriesOf(s, u)' = at \cup {n}
      BY <1>5, <1>7, <2>3, <3>2, AdminEntriesOfAppend
    <3>7. scopeRole'[s][u] = e.becomes /\ start' = from
      BY <1>5, <1>8, <2>3, <3>1, <3>2
    <3> HIDE DEF start
    <3>8. Admin!Continues(start, Admin!EntriesOf(s, u), scopeRole[s][u])'
      BY <3>5, <3>6, <3>7 DEF Admin!Continues, Admin!Leave
    <3> QED BY <3>8 DEF Admin!RoleTold, start
  <2> QED BY <2>2, <2>3
<1>14. scopeStatus'[AdminTenant] # "none" <=> ledger' # <<>>
  BY <1>4, <1>7, AdminAppendFacts
<1>15. \A i \in DOMAIN ledger' : ledger'[i].kind = "provisioned" <=> i = 1
  BY <1>5, <1>7, <1>10, AdminKindsStill
<1>16. ASSUME NEW p \in AdminProject, projectInput[p] # NotHeld
       PROVE  Admin!InputTold(p)'
  <2>1. Admin!InputTold(p)
    BY <1>16 DEF Admin!AdministrationInv, Admin!LedgerTellsAdministration
  <2> QED BY <1>4, <1>5, <1>7, <1>10, <2>1, AdminInputToldStill
<1>17. Admin!LedgerTellsAdministration'
  BY <1>4, <1>12, <1>13, <1>14, <1>15, <1>16 DEF Admin!LedgerTellsAdministration
<1>18. ASSUME NEW s \in Admin!Scope, scopeStatus'[s] = "none"
       PROVE  Admin!Blank(s)'
  <2>1. s # q.scope /\ scopeStatus[s] = "none"
    BY <1>4, <1>18
  <2> QED BY <1>4, <1>5, <1>7, <1>8, <1>18, <2>1, AdminBlankStill, AdminFacts
<1>19. \A p \in AdminProject : scopeStatus'[p] = "none" <=> projectInput'[p] = NotHeld
  BY <1>4 DEF Admin!AdministrationInv
<1>20. \A k \in AdminHandler : Admin!Sound(adminSession[k])'
  BY <1>4, <1>7, AdminIdleSound, AdminSessionsStill
<1> QED BY <1>9, <1>11, <1>17, <1>18, <1>19, <1>20 DEF Admin!AdministrationInv

LEMMA AdminMembersKeep ==
    ASSUME Admin!AdministrationInv, NEW h \in AdminHandler, Admin!ChangeMember(h) \/ Admin!AddMember(h)
    PROVE  Admin!AdministrationInv'
<1> DEFINE q == adminSession[h].asked
<1>1. adminSession[h].step \in {"allowed", "missing"}
  BY DEF Admin!ChangeMember, Admin!AddMember
<1>2. q \in AdminRequest /\ Admin!Sound(adminSession[h])
  BY <1>1, AdminAtFacts
<1>3. Admin!SetRole(h, q)
  BY DEF Admin!ChangeMember, Admin!AddMember
<1>4. q.kind = "member" /\ q.becomes # scopeRole[q.scope][q.user] /\ Admin!KeepsOwner(q.scope, q.user, q.becomes)
  <2>1. CASE Admin!ChangeMember(h)
    BY <2>1 DEF Admin!ChangeMember
  <2>2. CASE Admin!AddMember(h)
    BY <1>2, <2>2 DEF Admin!AddMember, Admin!StillMissing, Admin!Sound, Admin!KeepsOwner
  <2> QED BY <2>1, <2>2
<1>5. scopeStatus[AdminTenant] # "none" /\ scopeStatus[q.scope] # "none"
  BY <1>1, <1>2, <1>4 DEF Admin!Sound
<1> QED BY <1>2, <1>3, <1>4, <1>5, AdminSetRoleKeeps

LEMMA AdminSetStatusKeeps ==
    ASSUME Admin!AdministrationInv, NEW h \in AdminHandler, Admin!SetStatus(h)
    PROVE  Admin!AdministrationInv'
<1>q. PICK q : q = adminSession[h].asked
  OBVIOUS
<1>0. /\ adminSession[h].step = "allowed" /\ q.kind = "status" /\ scopeStatus[q.scope] # q.becomes
      /\ scopeStatus' = [scopeStatus EXCEPT ![q.scope] = q.becomes]
      /\ Admin!Record([kind |-> "status", by |-> q.by, scope |-> q.scope,
                 was |-> scopeStatus[q.scope], becomes |-> q.becomes])
      /\ Admin!Goto(h, Admin!Idle) /\ projectInput' = projectInput /\ scopeRole' = scopeRole
  BY <1>q DEF Admin!SetStatus, Admin!Ends
<1>1. q \in AdminRequest /\ Admin!Sound(adminSession[h])
  BY <1>q, <1>0, AdminAtFacts
<1>2. q.scope \in Admin!Scope /\ q.becomes \in {"active", "suspended"} /\ q.by \in AdminUser
  BY <1>0, <1>1, AdminAskedFacts
<1>3. scopeStatus[AdminTenant] # "none" /\ scopeStatus[q.scope] # "none"
  BY <1>q, <1>0, <1>1 DEF Admin!Sound
<1>4. scopeStatus \in [Admin!Scope -> {"none", "active", "suspended"}]
  BY AdminFacts
<1>5. PICK e : e = [kind |-> "status", by |-> q.by, scope |-> q.scope,
                    was |-> scopeStatus[q.scope], becomes |-> q.becomes]
  OBVIOUS
<1>6. e \in Admin!LedgerEntry
  BY <1>2, <1>4, <1>5 DEF Admin!LedgerEntry
<1>7. /\ e.kind = "status" /\ e.scope = q.scope
      /\ e.was = scopeStatus[q.scope] /\ e.becomes = q.becomes
  BY <1>5
<1>8. /\ AdminAppends(e) /\ ledger' \in Seq(Admin!LedgerEntry) /\ Len(ledger') <= MaxAdminChanges
      /\ adminSession' \in [AdminHandler -> Admin!Session]
  BY <1>0, <1>5, <1>6, AdminIdleSound, AdminAppendType
<1>9. /\ scopeStatus' \in [Admin!Scope -> {"none", "active", "suspended"}]
      /\ \A s \in Admin!Scope : scopeStatus'[s] = IF s = q.scope THEN q.becomes ELSE scopeStatus[s]
  BY <1>0, <1>2, <1>4
<1>10. \A s \in Admin!Scope : scopeStatus'[s] = "none" <=> scopeStatus[s] = "none"
  BY <1>2, <1>3, <1>9
<1>11. Admin!TypeOK'
  BY <1>0, <1>8, <1>9, AdminFacts DEF Admin!TypeOK
<1>12. ledger # <<>>
  BY <1>3 DEF Admin!AdministrationInv, Admin!LedgerTellsAdministration
<1>13. Admin!OwnersRemain'
  BY <1>0, <1>10 DEF Admin!AdministrationInv, Admin!OwnersRemain, Admin!Owners
<1>14. ASSUME NEW s \in Admin!Scope, scopeStatus[s] # "none"
       PROVE  Admin!StatusTold(s)'
  <2>1. Admin!StatusTold(s)
    BY <1>14 DEF Admin!AdministrationInv, Admin!LedgerTellsAdministration
  <2>2. CASE s # q.scope
    BY <1>7, <1>8, <1>9, <2>1, <2>2, AdminStatusToldStill
  <2>3. CASE s = q.scope
    <3>1. PICK at, now, n : at = Admin!Entries(s, "status") /\ now = scopeStatus[s] /\ n = Len(ledger) + 1
      OBVIOUS
    <3>2. Admin!Continues("active", at, now)
      BY <2>1, <3>1 DEF Admin!StatusTold
    <3>3. at \subseteq DOMAIN ledger
      BY <3>1 DEF Admin!Entries
    <3>4. e.was = now /\ e.becomes # now
      BY <1>0, <1>7, <2>3, <3>1
    <3>5. Admin!Continues("active", at \cup {n}, e.becomes)'
      BY <1>8, <3>1, <3>2, <3>3, <3>4, AdminContinuesOn
    <3>6. Admin!Entries(s, "status")' = at \cup {n}
      BY <1>7, <1>8, <2>3, <3>1, AdminEntriesAppend
    <3>7. scopeStatus'[s] = e.becomes
      BY <1>7, <1>9, <2>3
    <3>8. Admin!Continues("active", Admin!Entries(s, "status"), scopeStatus[s])'
      BY <3>5, <3>6, <3>7 DEF Admin!Continues, Admin!Leave
    <3> QED BY <3>8 DEF Admin!StatusTold
  <2> QED BY <2>2, <2>3
<1>15. ASSUME NEW s \in Admin!Scope, scopeStatus[s] # "none", NEW u \in AdminUser
       PROVE  Admin!RoleTold(s, u)'
  <2>1. Admin!RoleTold(s, u)
    BY <1>15 DEF Admin!AdministrationInv, Admin!LedgerTellsAdministration
  <2> QED BY <1>0, <1>7, <1>8, <1>12, <2>1, AdminRoleToldStill
<1>16. scopeStatus'[AdminTenant] # "none" <=> ledger' # <<>>
  BY <1>3, <1>8, <1>10, AdminAppendFacts, AdminFacts
<1>17. \A i \in DOMAIN ledger' : ledger'[i].kind = "provisioned" <=> i = 1
  BY <1>7, <1>8, <1>12, AdminKindsStill
<1>18. ASSUME NEW p \in AdminProject, projectInput[p] # NotHeld
       PROVE  Admin!InputTold(p)'
  <2>1. Admin!InputTold(p)
    BY <1>18 DEF Admin!AdministrationInv, Admin!LedgerTellsAdministration
  <2> QED BY <1>0, <1>7, <1>8, <1>12, <2>1, AdminInputToldStill
<1>19. Admin!LedgerTellsAdministration'
  BY <1>0, <1>10, <1>14, <1>15, <1>16, <1>17, <1>18 DEF Admin!LedgerTellsAdministration
<1>20. ASSUME NEW s \in Admin!Scope, scopeStatus'[s] = "none"
       PROVE  Admin!Blank(s)'
  <2>1. s # q.scope /\ scopeStatus[s] = "none" /\ s # AdminTenant
    BY <1>3, <1>10, <1>20
  <2> QED BY <1>0, <1>7, <1>8, <1>9, <2>1, AdminBlankStill
<1>21. \A p \in AdminProject : scopeStatus'[p] = "none" <=> projectInput'[p] = NotHeld
  BY <1>0, <1>10, AdminFacts DEF Admin!AdministrationInv
<1>22. \A k \in AdminHandler : Admin!Sound(adminSession[k])'
  BY <1>0, <1>8, <1>10, AdminIdleSound, AdminSessionsStill
<1> QED BY <1>11, <1>13, <1>19, <1>20, <1>21, <1>22 DEF Admin!AdministrationInv

LEMMA AdminCreateProjectKeeps ==
    ASSUME Admin!AdministrationInv, NEW h \in AdminHandler, Admin!CreateProject(h)
    PROVE  Admin!AdministrationInv'
<1>q. PICK q : q = adminSession[h].asked
  OBVIOUS
<1>0. /\ adminSession[h].step = "allowed" /\ q.kind = "project" /\ ~Admin!Taken(q.scope, q.input)
      /\ projectInput' = [projectInput EXCEPT ![q.scope] = q.input]
      /\ scopeRole' = [scopeRole EXCEPT ![q.scope][q.by] = "owner"]
      /\ scopeStatus' = [scopeStatus EXCEPT ![q.scope] = "active"]
      /\ Admin!Record([kind |-> "created", by |-> q.by, scope |-> q.scope, input |-> q.input])
      /\ Admin!Goto(h, Admin!Idle)
  BY <1>q DEF Admin!CreateProject, Admin!Founds, Admin!Ends
<1>1. q \in AdminRequest /\ Admin!Sound(adminSession[h])
  BY <1>q, <1>0, AdminAtFacts
<1>2. q.scope \in AdminProject /\ q.scope \in Admin!Scope /\ q.scope # AdminTenant /\ q.input \in ProjectInput
      /\ q.by \in AdminUser /\ q.input # NotHeld
  BY <1>0, <1>1, AdminAskedFacts, AdminFacts
<1>3. scopeStatus[AdminTenant] # "none"
  BY <1>q, <1>0, <1>1 DEF Admin!Sound
<1>4. projectInput[q.scope] = NotHeld /\ scopeStatus[q.scope] = "none" /\ Admin!Blank(q.scope)
  BY <1>0, <1>2 DEF Admin!Taken, Admin!AdministrationInv
<1>5. PICK e : e = [kind |-> "created", by |-> q.by, scope |-> q.scope, input |-> q.input]
  OBVIOUS
<1>6. e \in Admin!LedgerEntry
  BY <1>2, <1>5 DEF Admin!LedgerEntry
<1>7. e.kind = "created" /\ e.scope = q.scope /\ e.by = q.by /\ e.input = q.input
  BY <1>5
<1>8. /\ AdminAppends(e) /\ ledger' \in Seq(Admin!LedgerEntry) /\ Len(ledger') <= MaxAdminChanges
      /\ adminSession' \in [AdminHandler -> Admin!Session]
  BY <1>0, <1>5, <1>6, AdminIdleSound, AdminAppendType
<1>9. /\ scopeStatus' \in [Admin!Scope -> {"none", "active", "suspended"}]
      /\ \A s \in Admin!Scope : scopeStatus'[s] = IF s = q.scope THEN "active" ELSE scopeStatus[s]
  BY <1>0, <1>2, AdminFacts
<1>10. /\ projectInput' \in [AdminProject -> ProjectInput \cup {NotHeld}]
       /\ \A p \in AdminProject : projectInput'[p] = IF p = q.scope THEN q.input ELSE projectInput[p]
  BY <1>0, <1>2, AdminFacts
<1>11. /\ scopeRole' \in [Admin!Scope -> [AdminUser -> Admin!Role]]
       /\ \A s \in Admin!Scope, u \in AdminUser :
             scopeRole'[s][u] = IF s = q.scope /\ u = q.by THEN "owner" ELSE scopeRole[s][u]
  <2>1. "owner" \in Admin!Role /\ scopeRole \in [Admin!Scope -> [AdminUser -> Admin!Role]]
    BY AdminFacts DEF Admin!Role
  <2> QED BY <1>0, <1>2, <2>1
<1>12. Admin!TypeOK'
  BY <1>8, <1>9, <1>10, <1>11 DEF Admin!TypeOK
<1>13. ledger # <<>>
  BY <1>3 DEF Admin!AdministrationInv, Admin!LedgerTellsAdministration
<1>14. Admin!OwnersRemain'
  <2>1. SUFFICES ASSUME NEW s \in Admin!Scope, scopeStatus'[s] # "none"
                 PROVE  \E u \in AdminUser : scopeRole'[s][u] = "owner"
    BY DEF Admin!OwnersRemain, Admin!Owners
  <2>2. CASE s = q.scope
    BY <1>2, <1>11, <2>2
  <2>3. CASE s # q.scope
    <3>1. PICK u \in AdminUser : scopeRole[s][u] = "owner"
      BY <1>9, <2>1, <2>3 DEF Admin!AdministrationInv, Admin!OwnersRemain, Admin!Owners
    <3> QED BY <1>11, <2>3, <3>1
  <2> QED BY <2>2, <2>3
<1>15. PICK n : n = Len(ledger) + 1
  OBVIOUS
<1>16. ledger'[n] = e
  BY <1>8, <1>15, AdminAppendFacts
<1>17. /\ Admin!Entries(q.scope, "created") = {} /\ Admin!Entries(q.scope, "status") = {}
       /\ \A u : Admin!EntriesOf(q.scope, u) = {}
  BY <1>4 DEF Admin!Blank, Admin!Entries, Admin!EntriesOf
<1>18. Admin!Entries(q.scope, "created")' = {n} /\ Admin!Entries(q.scope, "status")' = {}
  <2>1. Admin!Entries(q.scope, "created")' = Admin!Entries(q.scope, "created") \cup {n}
    BY <1>7, <1>8, <1>15, AdminEntriesAppend
  <2>2. Admin!Entries(q.scope, "status")' = Admin!Entries(q.scope, "status")
    BY <1>7, <1>8, AdminEntriesAppend
  <2> QED BY <1>17, <2>1, <2>2
<1>19. ASSUME NEW s \in Admin!Scope, scopeStatus'[s] # "none"
       PROVE  Admin!StatusTold(s)'
  <2>1. CASE s = q.scope
    <3>1. Admin!Entries(s, "status")' = {} /\ scopeStatus'[s] = "active"
      BY <1>9, <1>18, <2>1
    <3> QED BY <3>1 DEF Admin!StatusTold, Admin!Continues, Admin!Leave
  <2>2. CASE s # q.scope
    <3>1. Admin!StatusTold(s)
      BY <1>9, <1>19, <2>2 DEF Admin!AdministrationInv, Admin!LedgerTellsAdministration
    <3> QED BY <1>7, <1>8, <1>9, <2>2, <3>1, AdminStatusToldStill
  <2> QED BY <2>1, <2>2
<1>20. ASSUME NEW s \in Admin!Scope, scopeStatus'[s] # "none", NEW u \in AdminUser
       PROVE  Admin!RoleTold(s, u)'
  <2>1. CASE s = q.scope
    <3>1. Admin!EntriesOf(s, u)' = {}
      <4>1. Admin!EntriesOf(s, u)' = Admin!EntriesOf(s, u)
        BY <1>7, <1>8, AdminEntriesOfAppend
      <4> QED BY <1>17, <2>1, <4>1
    <3>2. Admin!FoundedBy(s, u)' <=> u = q.by
      BY <1>7, <1>16, <1>18, <2>1 DEF Admin!FoundedBy
    <3>3. scopeRole'[s][u] = IF u = q.by THEN "owner" ELSE "none"
      BY <1>2, <1>4, <1>11, <2>1 DEF Admin!Blank
    <3>4. scopeRole'[s][u] = IF Admin!FoundedBy(s, u)' THEN "owner" ELSE "none"
      BY <3>2, <3>3
    <3> QED BY <3>1, <3>4 DEF Admin!RoleTold, Admin!Continues, Admin!Leave
  <2>2. CASE s # q.scope
    <3>1. Admin!RoleTold(s, u)
      BY <1>9, <1>20, <2>2 DEF Admin!AdministrationInv, Admin!LedgerTellsAdministration
    <3> QED BY <1>7, <1>8, <1>11, <1>13, <2>2, <3>1, AdminRoleToldStill
  <2> QED BY <2>1, <2>2
<1>21. scopeStatus'[AdminTenant] # "none" <=> ledger' # <<>>
  BY <1>2, <1>3, <1>8, <1>9, AdminAppendFacts, AdminFacts
<1>22. \A i \in DOMAIN ledger' : ledger'[i].kind = "provisioned" <=> i = 1
  BY <1>7, <1>8, <1>13, AdminKindsStill
<1>23. ASSUME NEW p \in AdminProject, projectInput'[p] # NotHeld
       PROVE  Admin!InputTold(p)'
  <2>1. CASE p = q.scope
    BY <1>7, <1>10, <1>16, <1>18, <2>1 DEF Admin!InputTold
  <2>2. CASE p # q.scope
    <3>1. Admin!InputTold(p) /\ projectInput'[p] = projectInput[p]
      BY <1>10, <1>23, <2>2 DEF Admin!AdministrationInv, Admin!LedgerTellsAdministration
    <3> QED BY <1>7, <1>8, <1>13, <2>2, <3>1, AdminInputToldStill
  <2> QED BY <2>1, <2>2
<1>24. Admin!LedgerTellsAdministration'
  BY <1>19, <1>20, <1>21, <1>22, <1>23 DEF Admin!LedgerTellsAdministration
<1>25. ASSUME NEW s \in Admin!Scope, scopeStatus'[s] = "none"
       PROVE  Admin!Blank(s)'
  <2>1. s # q.scope /\ scopeStatus[s] = "none"
    BY <1>9, <1>25
  <2>2. s # AdminTenant
    BY <1>3, <2>1
  <2> QED BY <1>7, <1>8, <1>9, <1>11, <2>1, <2>2, AdminBlankStill
<1>26. \A p \in AdminProject : scopeStatus'[p] = "none" <=> projectInput'[p] = NotHeld
  BY <1>2, <1>9, <1>10, AdminFacts DEF Admin!AdministrationInv
<1>27. \A k \in AdminHandler : Admin!Sound(adminSession[k])'
  BY <1>0, <1>8, <1>9, AdminIdleSound, AdminSessionsStill
<1> QED BY <1>12, <1>14, <1>24, <1>25, <1>26, <1>27 DEF Admin!AdministrationInv

LEMMA AdminProvisionKeeps ==
    ASSUME Admin!AdministrationInv, NEW h \in AdminHandler, Admin!Provision(h)
    PROVE  Admin!AdministrationInv'
<1>q. PICK b, y : b = adminSession[h].asked /\ y = Admin!Exact(b)'
  OBVIOUS
<1>0. /\ adminSession[h].step = "snapshot" /\ scopeStatus[AdminTenant] = "none" /\ Admin!Answer(h, "provisioned")
  BY DEF Admin!Provision
<1>1. b \in Bootstrap /\ b \in Admin!BootstrapInput
  BY <1>q, <1>0, AdminAtFacts
<1>2. b.project \in AdminProject /\ b.project \in Admin!Scope /\ b.project # AdminTenant /\ b.owner \in AdminUser
      /\ b.input \in ProjectInput /\ b.input # NotHeld /\ AdminTenant \in Admin!Scope
  BY <1>1, AdminFacts DEF Admin!BootstrapInput
<1>3. PICK n \in Admin!Session : Admin!Goto(h, n) /\ n.step = "told" /\ n.answer = "provisioned"
  <2>1. PICK z : z = Admin!Exact(adminSession[h].asked)
    OBVIOUS
  <2>2. z \in BOOLEAN
    BY <2>1 DEF Admin!Exact
  <2> DEFINE n == [step |-> "told", asked |-> b, answer |-> "provisioned", exact |-> z]
  <2>3. Admin!Goto(h, n)
    BY <1>q, <1>0, <2>1 DEF Admin!Answer
  <2>4. n \in Admin!Session
    BY <1>1, <2>2, AdminStepOf
  <2> QED BY <2>3, <2>4
<1>4. Admin!Sound(n) /\ Admin!Sound(n)'
  BY <1>3 DEF Admin!Sound
<1>5. CASE UNCHANGED <<Admin!tables, ledger>>
  BY <1>3, <1>4, <1>5, AdminSessionKeeps
<1>6. CASE /\ scopeStatus' = [scopeStatus EXCEPT ![AdminTenant] = "active", ![b.project] = "active"]
           /\ projectInput' = [projectInput EXCEPT ![b.project] = b.input]
           /\ scopeRole' = [scopeRole EXCEPT ![AdminTenant][b.owner] = "owner", ![b.project][b.owner] = "owner"]
           /\ Admin!Record([kind |-> "provisioned", scope |-> AdminTenant, bootstrap |-> b])
  <2>1. ledger = <<>> /\ DOMAIN ledger = {} /\ Len(ledger) = 0
    <3>1. ledger = <<>>
      BY <1>0 DEF Admin!AdministrationInv, Admin!LedgerTellsAdministration
    <3> QED BY <3>1
  <2>2. \A s \in Admin!Scope : scopeStatus[s] = "none" /\ \A u \in AdminUser : scopeRole[s][u] = "none"
    <3>1. Admin!Blank(AdminTenant)
      BY <1>0, <1>2 DEF Admin!AdministrationInv
    <3>2. \A s \in Admin!Scope : scopeStatus[s] = "none"
      BY <1>0, <3>1 DEF Admin!Blank, Admin!Scope
    <3> QED BY <3>2 DEF Admin!AdministrationInv, Admin!Blank
  <2>3. PICK e : e = [kind |-> "provisioned", scope |-> AdminTenant, bootstrap |-> b]
    OBVIOUS
  <2>4. e.kind = "provisioned" /\ e.scope = AdminTenant /\ e.bootstrap = b
    BY <2>3
  <2>5. e \in Admin!LedgerEntry
    BY <1>1, <2>3 DEF Admin!LedgerEntry
  <2>6. /\ AdminAppends(e) /\ ledger' \in Seq(Admin!LedgerEntry) /\ Len(ledger') <= MaxAdminChanges
        /\ adminSession' \in [AdminHandler -> Admin!Session]
    BY <1>3, <1>6, <2>3, <2>5, AdminAppendType
  <2>7. DOMAIN ledger' = {1} /\ ledger'[1] = e /\ ledger' # <<>>
    BY <2>1, <2>6, AdminAppendFacts
  <2>8. /\ scopeStatus' \in [Admin!Scope -> {"none", "active", "suspended"}]
        /\ \A s \in Admin!Scope : scopeStatus'[s] = IF s = AdminTenant \/ s = b.project THEN "active" ELSE "none"
    <3>1. scopeStatus \in [Admin!Scope -> {"none", "active", "suspended"}]
      BY AdminFacts
    <3> QED BY <1>2, <1>6, <2>2, <3>1
  <2>9. /\ projectInput' \in [AdminProject -> ProjectInput \cup {NotHeld}]
        /\ \A p \in AdminProject : projectInput'[p] = IF p = b.project THEN b.input ELSE NotHeld
    <3>1. projectInput \in [AdminProject -> ProjectInput \cup {NotHeld}]
      BY AdminFacts
    <3>2. \A p \in AdminProject : projectInput[p] = NotHeld
      BY <2>2, AdminFacts DEF Admin!AdministrationInv
    <3> QED BY <1>2, <1>6, <3>1, <3>2
  <2>10. /\ scopeRole' \in [Admin!Scope -> [AdminUser -> Admin!Role]]
         /\ \A s \in Admin!Scope, u \in AdminUser :
               scopeRole'[s][u] = IF (s = AdminTenant \/ s = b.project) /\ u = b.owner THEN "owner" ELSE "none"
    <3>1. scopeRole \in [Admin!Scope -> [AdminUser -> Admin!Role]] /\ "owner" \in Admin!Role
      BY AdminFacts DEF Admin!Role
    <3> QED BY <1>2, <1>6, <2>2, <3>1
  <2>11. Admin!TypeOK'
    BY <2>6, <2>8, <2>9, <2>10 DEF Admin!TypeOK
  <2>12. Admin!OwnersRemain'
    BY <1>2, <2>8, <2>10 DEF Admin!OwnersRemain, Admin!Owners
  <2>13. \A s : /\ Admin!Entries(s, "status")' = {} /\ Admin!Entries(s, "created")' = {}
                /\ \A u : Admin!EntriesOf(s, u)' = {}
    BY <2>4, <2>7 DEF Admin!Entries, Admin!EntriesOf
  <2>14. ASSUME NEW s \in Admin!Scope, scopeStatus'[s] # "none"
         PROVE  Admin!StatusTold(s)' /\ \A u \in AdminUser : Admin!RoleTold(s, u)'
    <3>1. s = AdminTenant \/ s = b.project
      BY <2>8, <2>14
    <3>2. Admin!StatusTold(s)'
      BY <2>8, <2>13, <3>1 DEF Admin!StatusTold, Admin!Continues, Admin!Leave
    <3>3. ASSUME NEW u \in AdminUser PROVE Admin!RoleTold(s, u)'
      <4>1. Admin!FoundedBy(s, u)' <=> u = b.owner
        BY <2>4, <2>7, <2>13 DEF Admin!FoundedBy
      <4>2. scopeRole'[s][u] = IF Admin!FoundedBy(s, u)' THEN "owner" ELSE "none"
        BY <2>10, <3>1, <4>1
      <4> QED BY <2>13, <4>2 DEF Admin!RoleTold, Admin!Continues, Admin!Leave
    <3> QED BY <3>2, <3>3
  <2>15. ASSUME NEW p \in AdminProject, projectInput'[p] # NotHeld
         PROVE  Admin!InputTold(p)'
    BY <2>4, <2>7, <2>9, <2>13, <2>15 DEF Admin!InputTold
  <2>16. scopeStatus'[AdminTenant] # "none"
    BY <1>2, <2>8
  <2>17. Admin!LedgerTellsAdministration'
    BY <2>4, <2>7, <2>14, <2>15, <2>16 DEF Admin!LedgerTellsAdministration
  <2>18. ASSUME NEW s \in Admin!Scope, scopeStatus'[s] = "none"
         PROVE  Admin!Blank(s)'
    <3>1. s # AdminTenant /\ s # b.project
      BY <2>8, <2>18
    <3> QED BY <2>4, <2>7, <2>10, <3>1 DEF Admin!Blank
  <2>19. \A p \in AdminProject : scopeStatus'[p] = "none" <=> projectInput'[p] = NotHeld
    BY <1>2, <2>8, <2>9, AdminFacts
  <2>20. \A s \in Admin!Scope : scopeStatus[s] # "none" => scopeStatus'[s] # "none"
    BY <2>2
  <2>21. \A k \in AdminHandler : Admin!Sound(adminSession[k])'
    BY <1>3, <1>4, <2>6, <2>20, AdminSessionsStill
  <2> QED BY <2>11, <2>12, <2>17, <2>18, <2>19, <2>21 DEF Admin!AdministrationInv
<1> QED BY <1>q, <1>5, <1>6 DEF Admin!Provision

-----------------------------------------------------------------------------
LEMMA AdministrationInit ==
    ASSUME Admin!Init
    PROVE  Admin!AdministrationInv
<1>1. AdminTenant \in Admin!Scope /\ AdminTenant \notin AdminProject /\ AdminProject \subseteq Admin!Scope /\ MaxAdminChanges \in Nat
  BY GovernanceAssumptions DEF Admin!AdministrationAssumption, Admin!Scope
<1>2. /\ \A s \in Admin!Scope : scopeStatus[s] = "none" /\ \A u \in AdminUser : scopeRole[s][u] = "none"
      /\ \A p \in AdminProject : projectInput[p] = NotHeld
      /\ ledger = <<>> /\ Len(ledger) = 0 /\ DOMAIN ledger = {}
      /\ \A h \in AdminHandler : adminSession[h] = Admin!Idle
  BY DEF Admin!Init
<1>3. Admin!TypeOK
  <2>1. "none" \in Admin!Role /\ ledger \in Seq(Admin!LedgerEntry)
    BY <1>2 DEF Admin!Role
  <2>2. Len(ledger) <= MaxAdminChanges
    BY <1>1, <1>2
  <2> QED BY <2>1, <2>2, AdminStepOf DEF Admin!Init, Admin!TypeOK
<1>4. Admin!OwnersRemain /\ Admin!LedgerTellsAdministration
  BY <1>1, <1>2 DEF Admin!OwnersRemain, Admin!LedgerTellsAdministration
<1>5. \A s \in Admin!Scope : Admin!Blank(s)
  BY <1>1, <1>2 DEF Admin!Blank
<1>6. Admin!Sound(Admin!Idle)
  BY DEF Admin!Sound, Admin!Idle
<1> QED BY <1>1, <1>2, <1>3, <1>4, <1>5, <1>6 DEF Admin!AdministrationInv

LEMMA AdministrationStep ==
    ASSUME Admin!AdministrationInv, Admin!Next \/ UNCHANGED Admin!vars
    PROVE  Admin!AdministrationInv'
<1>1. CASE UNCHANGED Admin!vars
  <2>1. scopeStatus' = scopeStatus /\ projectInput' = projectInput /\ scopeRole' = scopeRole /\ ledger' = ledger /\ adminSession' = adminSession
    BY <1>1 DEF Admin!vars, Admin!tables
  <2>2. Admin!TypeOK'
    BY <2>1 DEF Admin!AdministrationInv, Admin!TypeOK
  <2>3. Admin!OwnersRemain' /\ Admin!LedgerTellsAdministration'
    BY <2>1 DEF Admin!AdministrationInv, Admin!OwnersRemain, Admin!Owners,
       Admin!LedgerTellsAdministration, Admin!StatusTold,
                Admin!RoleTold, Admin!InputTold, Admin!FoundedBy, Admin!Entries, Admin!EntriesOf, Admin!Continues, Admin!Leave
  <2>4. \A s \in Admin!Scope : scopeStatus'[s] = "none" => Admin!Blank(s)'
    BY <2>1 DEF Admin!AdministrationInv, Admin!Blank
  <2>5. \A h \in AdminHandler : Admin!Sound(adminSession[h])'
    BY <2>1 DEF Admin!AdministrationInv, Admin!Sound
  <2>6. \A p \in AdminProject : scopeStatus'[p] = "none" <=> projectInput'[p] = NotHeld
    BY <2>1 DEF Admin!AdministrationInv
  <2> QED BY <2>2, <2>3, <2>4, <2>5, <2>6 DEF Admin!AdministrationInv
<1>2. CASE Admin!Next
  <2>1. PICK h \in AdminHandler :
          \/ Admin!Ask(h) \/ Admin!ChangeMember(h) \/ Admin!LookInVain(h) \/ Admin!AddMember(h) \/ Admin!SetStatus(h)
          \/ Admin!CreateProject(h) \/ Admin!Nothing(h)
          \/ Admin!ProvisionBegins(h) \/ Admin!Provision(h) \/ Admin!ProvisionCollides(h) \/ Admin!ProvisionAgain(h)
    BY <1>2 DEF Admin!Next, Admin!UpdateTenant, Admin!UpdateProject
  <2>2. CASE Admin!Ask(h) \/ Admin!LookInVain(h) \/ Admin!Nothing(h) \/ Admin!ProvisionBegins(h) \/ Admin!ProvisionCollides(h)
             \/ Admin!ProvisionAgain(h)
    BY <2>2, AdminStepKeeps
  <2>3. CASE Admin!ChangeMember(h) \/ Admin!AddMember(h)
    BY <2>3, AdminMembersKeep
  <2>4. CASE Admin!SetStatus(h)
    BY <2>4, AdminSetStatusKeeps
  <2>5. CASE Admin!CreateProject(h)
    BY <2>5, AdminCreateProjectKeeps
  <2>6. CASE Admin!Provision(h)
    BY <2>6, AdminProvisionKeeps
  <2> QED BY <2>1, <2>2, <2>3, <2>4, <2>5, <2>6
<1> QED BY <1>1, <1>2

LEMMA AdministrationTells ==
    ASSUME Admin!AdministrationInv
    PROVE  Admin!OwnersRemain /\ Admin!LedgerTellsAdministration /\ Admin!UnchangedMeansApplied
<1>1. Admin!UnchangedMeansApplied
  <2>1. SUFFICES ASSUME NEW h \in AdminHandler, adminSession[h].step = "told",
                        adminSession[h].answer = "unchanged"
                 PROVE  ledger[1].bootstrap = adminSession[h].asked
    BY DEF Admin!UnchangedMeansApplied, Admin!told
  <2> QED BY <2>1, AdminAtFacts DEF Admin!Sound
<1> QED BY <1>1 DEF Admin!AdministrationInv

(***************************************************************************)
(* For any people, projects, bootstraps and handlers: tenant and projects  *)
(* keep an owner through every race of two managers, the ledger tells      *)
(* every role, status and creation, and "unchanged" is said of the         *)
(* bootstrap that was applied.                                             *)
(***************************************************************************)
THEOREM AdministrationStaysLedgered == GovernanceSpec => []AdministrationIsLedgered
<1> DEFINE I == governancePart = "admin" => Admin!AdministrationInv
<1>1. GovernanceInit => I
  BY AdministrationInit DEF GovernanceInit
<1>2. I /\ [GovernanceNext]_governanceVars => I'
  <2> SUFFICES ASSUME I, [GovernanceNext]_governanceVars, governancePart' = "admin"
               PROVE  Admin!AdministrationInv'
    OBVIOUS
  <2>1. governancePart = "admin" /\ Admin!AdministrationInv
    BY DEF GovernanceNext, governanceVars
  <2>2. Admin!Next \/ UNCHANGED Admin!vars
    BY <2>1 DEF GovernanceNext, governanceVars, adminVars, Admin!vars, Admin!tables
  <2> QED BY <2>1, <2>2, AdministrationStep
<1>3. I => AdministrationIsLedgered
  BY AdministrationTells DEF AdministrationIsLedgered
<1> QED BY <1>1, <1>2, <1>3, PTL DEF GovernanceSpec
=============================================================================
