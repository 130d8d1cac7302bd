---------------------- MODULE WorkspaceDocumentProofs ----------------------
(***************************************************************************)
(* Proofs about WorkspaceDocument for every set of users, sessions and     *)
(* edits and every bound on the versions, and about the workspace of the   *)
(* embedded plane and the canvas editor, which are parts of WebPlane.      *)
(***************************************************************************)
EXTENDS WorkspaceDocument, WebPlane, SequenceTheorems, FiniteSetTheorems,
        WellFoundedInduction, TLAPS

LEMMA NoRequestType == NoRequest \in Request /\ NoRequest.base = 1
  BY DocumentAssumption DEF NoRequest, Request, Kind

(* A step that only moves client c to phase p with request r keeps the     *)
(* invariant if what r carries is right.                                   *)
LEMMA LocalStep ==
    ASSUME DocumentInv, NEW c \in Client,
           NEW p \in Phase \ {"updated"}, NEW r \in Request,
           phase[c] # "updated",
           phase' = [phase EXCEPT ![c] = p],
           req' = [req EXCEPT ![c] = r],
           UNCHANGED <<row, access, rowLock>>,
           Carried(p, r)
    PROVE  DocumentInv'
<1>1. TypeOK'
  BY DEF DocumentInv, TypeOK, row
<1>2. ASSUME NEW d \in Client PROVE Carried(phase[d], req[d])'
  <2>1. Carried(phase'[d], req'[d])
    BY DEF DocumentInv, TypeOK
  <2>2. QED
    BY <2>1 DEF Carried, row
<1>3. (CurrentIsLastRevision /\ NoLostUpdate /\ OneEventPerVersion /\ StartsAfterPredecessor)'
  BY DEF DocumentInv, CurrentIsLastRevision, NoLostUpdate, OneEventPerVersion,
         StartsAfterPredecessor, row
<1>4. QED
  BY <1>1, <1>2, <1>3 DEF DocumentInv

(* An error answer or a rollback forgets the request and frees the row.    *)
LEMMA RefuseInv ==
    ASSUME DocumentInv, NEW c \in Client, Refuse(c)
    PROVE  DocumentInv'
<1> USE DEF Refuse, Goto
<1>1. TypeOK'
  BY NoRequestType, DocumentAssumption DEF DocumentInv, TypeOK, Phase, row
<1>2. ASSUME NEW d \in Client PROVE Carried(phase[d], req[d])'
  <2>1. Carried(phase'[d], req'[d])
    <3>1. CASE d = c
      BY <3>1 DEF DocumentInv, TypeOK, Carried
    <3>2. CASE d # c
      BY <3>2 DEF DocumentInv, TypeOK
    <3>3. QED
      BY <3>1, <3>2
  <2>2. QED
    BY <2>1 DEF Carried, row
<1>3. (CurrentIsLastRevision /\ NoLostUpdate /\ OneEventPerVersion /\ StartsAfterPredecessor)'
  BY DEF DocumentInv, CurrentIsLastRevision, NoLostUpdate, OneEventPerVersion,
         StartsAfterPredecessor, row
<1>4. QED
  BY <1>1, <1>2, <1>3 DEF DocumentInv

(* What the invariant says of the one transaction that has the row.        *)
LEMMA Committing ==
    ASSUME DocumentInv, NEW c \in Client, phase[c] = "updated"
    PROVE  /\ req[c] \in Request /\ req[c].base = version /\ version < MaxVersion
           /\ req[c].began = version /\ req[c].target \in 1 .. version
           /\ req[c].content = IF req[c].kind = "rollback" THEN revisions[req[c].target].snapshot
                               ELSE snapshot \cup {req[c].edit}
           /\ \A d \in Client \ {c} : phase[d] # "updated"
<1>1. req[c] \in Request /\ Carried("updated", req[c])
  BY DEF DocumentInv, TypeOK
<1>2. req[c].base = version /\ version < MaxVersion /\ req[c].target <= version
  BY <1>1 DEF Carried
<1>3. req[c].began = version /\ req[c].target \in 1 .. version
  BY <1>1, <1>2 DEF Carried, Request, DocumentInv, TypeOK
<1>4. req[c].content = IF req[c].kind = "rollback" THEN revisions[req[c].target].snapshot
                       ELSE snapshot \cup {req[c].edit}
  BY <1>1, <1>2 DEF Carried, DocumentInv, CurrentIsLastRevision
<1>5. \A d \in Client \ {c} : phase[d] # "updated"
  BY DEF DocumentInv, TypeOK
<1>6. QED
  BY <1>1, <1>2, <1>3, <1>4, <1>5

(* A commit appends one revision and one event.                            *)
LEMMA CommitEffect ==
    ASSUME DocumentInv, NEW c \in Client, Commit(c)
    PROVE  /\ version' = version + 1 /\ version' \in 2 .. MaxVersion
           /\ revisions' \in [1 .. version' -> Revision]
           /\ \A v \in 1 .. version : revisions'[v] = revisions[v]
           /\ revisions'[version'] = [snapshot |-> req[c].content, kind |-> req[c].kind,
                                      edit |-> req[c].edit, target |-> req[c].target]
           /\ events' = Append(events, [version |-> version', began |-> version])
<1>1. phase[c] = "updated" /\ version' = version + 1 /\ Next1 = version'
  BY DEF Commit, Next1
<1>2. req[c] \in Request /\ version \in Nat /\ version' \in 2 .. MaxVersion
  <2>1. req[c] \in Request /\ version < MaxVersion
    BY <1>1, Committing
  <2>2. version \in 1 .. MaxVersion
    BY DEF DocumentInv, TypeOK
  <2>3. QED
    BY <1>1, <2>1, <2>2, DocumentAssumption
<1> DEFINE rec == [snapshot |-> req[c].content, kind |-> req[c].kind,
                   edit |-> req[c].edit, target |-> req[c].target]
<1>3. rec \in Revision
  BY <1>2 DEF Request, Revision
<1>4. revisions' = [v \in 1 .. version + 1 |-> IF v = version + 1 THEN rec ELSE revisions[v]]
  BY <1>1 DEF Commit, SaveRevision, Next1
<1>5. /\ revisions' \in [1 .. version' -> Revision]
      /\ \A v \in 1 .. version : revisions'[v] = revisions[v]
      /\ revisions'[version'] = rec
  <2> HIDE DEF rec
  <2>1. revisions \in [1 .. version -> Revision]
    BY DEF DocumentInv, TypeOK
  <2>2. QED
    BY <1>1, <1>2, <1>3, <1>4, <2>1
<1>6. ~ \E i \in DOMAIN events : events[i].version = version + 1
  <2>1. \A i \in DOMAIN events : i <= version - 1 /\ events[i].version = i + 1
    BY <1>2 DEF DocumentInv, OneEventPerVersion, TypeOK
  <2>2. \A i \in DOMAIN events : i \in Nat
    BY DEF DocumentInv, TypeOK
  <2>3. QED
    BY <1>2, <2>1, <2>2
<1>7. events' = Append(events, [version |-> version', began |-> version])
  BY <1>1, <1>6, Committing DEF Commit, Announce, Next1
<1>8. QED
  BY <1>1, <1>2, <1>5, <1>7

LEMMA CommitInv ==
    ASSUME DocumentInv, NEW c \in Client, Commit(c)
    PROVE  DocumentInv'
<1>1. /\ phase[c] = "updated" /\ version \in 1 .. MaxVersion
      /\ snapshot' = req[c].content /\ rowLock' = NoClient /\ access' = access
      /\ phase' = [phase EXCEPT ![c] = "idle"]
      /\ req' = [req EXCEPT ![c] = NoRequest]
  BY DEF Commit, Goto, DocumentInv, TypeOK
<1>2. /\ version' = version + 1 /\ version' \in 2 .. MaxVersion
      /\ revisions' \in [1 .. version' -> Revision]
      /\ \A v \in 1 .. version : revisions'[v] = revisions[v]
      /\ revisions'[version'] = [snapshot |-> req[c].content, kind |-> req[c].kind,
                                 edit |-> req[c].edit, target |-> req[c].target]
      /\ events' = Append(events, [version |-> version', began |-> version])
  BY CommitEffect
<1>3. /\ req[c] \in Request /\ req[c].target \in 1 .. version
      /\ req[c].content = IF req[c].kind = "rollback" THEN revisions[req[c].target].snapshot
                          ELSE snapshot \cup {req[c].edit}
      /\ \A d \in Client \ {c} : phase[d] # "updated"
  BY <1>1, Committing
<1>4. events \in Seq([version : 1 .. MaxVersion, began : 1 .. MaxVersion])
      /\ Len(events) = version - 1
  BY DEF DocumentInv, TypeOK, OneEventPerVersion
<1>5. TypeOK'
  <2>1. events' \in Seq([version : 1 .. MaxVersion, began : 1 .. MaxVersion])
    BY <1>1, <1>2, <1>4
  <2>2. phase' \in [Client -> Phase] /\ req' \in [Client -> Request]
    BY <1>1, NoRequestType DEF DocumentInv, TypeOK, Phase
  <2>3. \A d \in Client : phase'[d] = "updated" <=> rowLock' = d
    BY <1>1, <1>3, DocumentAssumption DEF DocumentInv, TypeOK
  <2>4. snapshot' \subseteq Edit
    BY <1>1, <1>3 DEF Request
  <2>5. version' \in 1 .. MaxVersion
    BY <1>1, <1>2
  <2>6. QED
    BY <1>1, <1>2, <2>1, <2>2, <2>3, <2>4, <2>5 DEF DocumentInv, TypeOK
<1>6. CurrentIsLastRevision'
  BY <1>1, <1>2 DEF CurrentIsLastRevision
<1>7. NoLostUpdate'
  <2> SUFFICES ASSUME NEW v \in 2 .. version'
               PROVE  IF revisions'[v].kind = "rollback"
                      THEN /\ revisions'[v].target < v
                           /\ revisions'[v].snapshot = revisions'[revisions'[v].target].snapshot
                      ELSE revisions'[v].snapshot = revisions'[v - 1].snapshot \cup {revisions'[v].edit}
    BY DEF NoLostUpdate
  <2>1. CASE v = version'
    <3>1. v - 1 = version /\ v - 1 \in 1 .. version
      BY <1>1, <1>2, <2>1
    <3>2. revisions'[version].snapshot = snapshot
      BY <1>1, <1>2 DEF DocumentInv, CurrentIsLastRevision
    <3>3. req[c].target < v /\ revisions'[req[c].target] = revisions[req[c].target]
      BY <1>1, <1>2, <1>3, <2>1
    <3>4. /\ revisions'[v].kind = req[c].kind /\ revisions'[v].target = req[c].target
          /\ revisions'[v].edit = req[c].edit /\ revisions'[v].snapshot = req[c].content
      BY <1>2, <2>1
    <3>5. CASE req[c].kind = "rollback"
      BY <1>3, <3>3, <3>4, <3>5
    <3>6. CASE req[c].kind # "rollback"
      BY <1>3, <3>1, <3>2, <3>4, <3>6
    <3>7. QED
      BY <3>4, <3>5, <3>6
  <2>2. CASE v # version'
    <3>1. v \in 2 .. version /\ v - 1 \in 1 .. version /\ v \in 1 .. version
      BY <1>1, <1>2, <2>2
    <3>2. revisions'[v] = revisions[v] /\ revisions'[v - 1] = revisions[v - 1]
      BY <1>2, <3>1
    <3>3. revisions[v] \in Revision
      BY <3>1 DEF DocumentInv, TypeOK
    <3>4. CASE revisions[v].kind = "rollback"
      <4>1. revisions[v].target < v /\ revisions[v].snapshot = revisions[revisions[v].target].snapshot
        BY <3>1, <3>4 DEF DocumentInv, NoLostUpdate
      <4>2. revisions[v].target \in 1 .. version
        BY <1>1, <3>1, <3>3, <4>1 DEF Revision
      <4>3. revisions'[revisions[v].target] = revisions[revisions[v].target]
        BY <1>2, <4>2
      <4>4. QED
        BY <3>2, <3>4, <4>1, <4>3
    <3>5. CASE revisions[v].kind # "rollback"
      <4>1. revisions[v].snapshot = revisions[v - 1].snapshot \cup {revisions[v].edit}
        BY <3>1, <3>5 DEF DocumentInv, NoLostUpdate
      <4>2. QED
        BY <3>2, <3>5, <4>1
    <3>6. QED
      BY <3>4, <3>5
  <2>3. QED
    BY <2>1, <2>2
<1>8. OneEventPerVersion' /\ StartsAfterPredecessor'
  <2> DEFINE e == [version |-> version', began |-> version]
  <2>1. /\ Len(events') = version /\ DOMAIN events' = 1 .. version
        /\ DOMAIN events = 1 .. version - 1
        /\ events'[version] = e
        /\ \A i \in 1 .. version - 1 : events'[i] = events[i]
    BY <1>1, <1>2, <1>4
  <2>2. ASSUME NEW i \in DOMAIN events'
        PROVE  events'[i].version = i + 1 /\ events'[i].began = events'[i].version - 1
    <3>1. CASE i = version
      BY <1>1, <1>2, <2>1, <3>1
    <3>2. CASE i # version
      <4>1. i \in 1 .. version - 1
        BY <1>1, <2>1, <3>2
      <4>2. QED
        BY <2>1, <4>1 DEF DocumentInv, OneEventPerVersion, StartsAfterPredecessor
    <3>3. QED
      BY <3>1, <3>2
  <2>3. Len(events') = version' - 1
    BY <1>1, <1>2, <2>1
  <2>4. QED
    BY <2>2, <2>3 DEF OneEventPerVersion, StartsAfterPredecessor
<1>9. ASSUME NEW d \in Client PROVE Carried(phase[d], req[d])'
  <2>1. CASE d = c
    <3>1. phase'[d] = "idle"
      BY <1>1, <2>1 DEF DocumentInv, TypeOK
    <3>2. QED
      BY <3>1 DEF Carried
  <2>2. CASE d # c
    <3>1. phase'[d] = phase[d] /\ req'[d] = req[d] /\ phase[d] # "updated"
      BY <1>1, <1>3, <2>2 DEF DocumentInv, TypeOK
    <3>2. Carried(phase[d], req[d]) /\ req[d] \in Request
      BY DEF DocumentInv, TypeOK
    <3>3. CASE phase[d] = "idle"
      BY <3>1, <3>3 DEF Carried
    <3>4. CASE phase[d] # "idle"
      <4>1. req[d].base \in 1 .. version /\ req[d].base <= version'
        BY <1>1, <1>2, <3>2, <3>4 DEF Carried, Request
      <4>2. revisions'[req[d].base] = revisions[req[d].base]
        BY <1>2, <4>1
      <4>3. CASE phase[d] = "loaded"
        BY <3>1, <3>2, <4>1, <4>2, <4>3 DEF Carried
      <4>4. CASE phase[d] # "loaded"
        <5>1. req[d].target \in 1 .. version
          BY <1>1, <3>2, <3>4, <4>1, <4>4 DEF Carried, Request
        <5>2. revisions'[req[d].target] = revisions[req[d].target]
          BY <1>2, <5>1
        <5>3. phase[d] \in {"began", "update", "updated"} => req[d].began <= version'
          BY <1>1, <1>2, <3>2 DEF Carried, Request
        <5>4. QED
          BY <3>1, <3>2, <3>4, <4>1, <4>2, <4>4, <5>2, <5>3 DEF Carried
      <4>5. QED
        BY <4>3, <4>4
    <3>5. QED
      BY <3>3, <3>4
  <2>3. QED
    BY <2>1, <2>2
<1>10. QED
  BY <1>5, <1>6, <1>7, <1>8, <1>9 DEF DocumentInv

(* All of it together is kept by every step.                               *)
LEMMA NextInv ==
    ASSUME DocumentInv, [Next]_vars
    PROVE  DocumentInv'
<1> USE DocumentAssumption DEF Goto
<1>0. ASSUME NEW c \in Client
      PROVE  req[c] \in Request /\ Carried(phase[c], req[c]) /\ version \in 1 .. MaxVersion
  BY DEF DocumentInv, TypeOK
<1>1. ASSUME NEW u \in User, ChangeAccess(u) PROVE DocumentInv'
  <2>1. TypeOK'
    BY <1>1 DEF ChangeAccess, DocumentInv, TypeOK, row
  <2>2. UNCHANGED <<version, snapshot, revisions, events, phase, req>>
    BY <1>1 DEF ChangeAccess, row
  <2>3. QED
    BY <2>1, <2>2 DEF DocumentInv, CurrentIsLastRevision, NoLostUpdate, OneEventPerVersion,
                      StartsAfterPredecessor, Carried
<1>2. ASSUME NEW c \in Client, Load(c) PROVE DocumentInv'
  <2>1. PICK u \in User :
          req' = [req EXCEPT ![c] =
              [NoRequest EXCEPT !.actor = u, !.base = version, !.content = snapshot]]
    BY <1>2 DEF Load
  <2> DEFINE r == [NoRequest EXCEPT !.actor = u, !.base = version, !.content = snapshot]
  <2>2. r \in Request
    BY NoRequestType DEF Request, DocumentInv, TypeOK
  <2>3. r.base = version /\ r.content = snapshot
    BY NoRequestType DEF Request
  <2> HIDE DEF r
  <2>4. Carried("loaded", r)
    <3>1. version \in Nat /\ r.base <= version
      BY <2>3 DEF DocumentInv, TypeOK
    <3>2. r.content = revisions[r.base].snapshot
      BY <2>3 DEF DocumentInv, CurrentIsLastRevision
    <3>3. QED
      BY <3>1, <3>2 DEF Carried
  <2>5. QED
    BY <1>2, <2>1, <2>2, <2>4, LocalStep DEF Load, Phase, r
<1>3. ASSUME NEW c \in Client, Send(c) PROVE DocumentInv'
  <2>1. PICK k \in Kind, e \in Edit, t \in 1 .. req[c].base :
          /\ req' = [req EXCEPT ![c] = [req[c] EXCEPT !.kind = k, !.edit = e, !.target = t,
                !.content = IF k = "save" THEN @ \cup {e} ELSE {}]]
          /\ phase' = [phase EXCEPT ![c] = IF k = "save" THEN "ready" ELSE "sent"]
    BY <1>3 DEF Send
  <2>2. /\ req[c] \in Request /\ phase[c] = "loaded" /\ req[c].base < MaxVersion
        /\ req[c].base <= version /\ req[c].content = revisions[req[c].base].snapshot
        /\ UNCHANGED <<row, access, rowLock>>
    BY <1>0, <1>3 DEF Send, Carried
  <2> DEFINE r == [req[c] EXCEPT !.kind = k, !.edit = e, !.target = t,
                   !.content = IF k = "save" THEN @ \cup {e} ELSE {}]
             p == IF k = "save" THEN "ready" ELSE "sent"
  <2>3. t \in 1 .. MaxVersion /\ t <= req[c].base
    BY <2>2 DEF Request
  <2>4. /\ r \in Request /\ r.base = req[c].base /\ r.target = t /\ r.kind = k /\ r.edit = e
        /\ k = "save" => r.content = req[c].content \cup {e}
    BY <2>2, <2>3 DEF Request
  <2>5. req' = [req EXCEPT ![c] = r] /\ phase' = [phase EXCEPT ![c] = p]
    BY <2>1
  <2> HIDE DEF r
  <2>6. Carried(p, r)
    BY <2>2, <2>3, <2>4 DEF Carried, Kind
  <2>7. p \in Phase \ {"updated"}
    BY DEF Phase
  <2> HIDE DEF p
  <2>8. QED
    BY <2>2, <2>4, <2>5, <2>6, <2>7, LocalStep
<1>4. ASSUME NEW c \in Client, CheckMember(c) PROVE DocumentInv'
  <2>1. CASE Refuse(c)
    BY <2>1, RefuseInv
  <2>2. CASE phase[c] = "sent" /\ Goto(c, "checked") /\ UNCHANGED <<row, access, rowLock, req>>
    <3>1. Carried("checked", req[c])
      BY <1>0, <2>2 DEF Carried
    <3>2. req' = [req EXCEPT ![c] = req[c]]
      BY <2>2 DEF DocumentInv, TypeOK
    <3>3. QED
      BY <1>0, <2>2, <3>1, <3>2, LocalStep DEF Phase
  <2>3. QED
    BY <1>4, <2>1, <2>2 DEF CheckMember
<1>5. ASSUME NEW c \in Client, ReadCurrent(c) PROVE DocumentInv'
  <2>1. CASE Refuse(c)
    BY <2>1, RefuseInv
  <2>2. CASE /\ phase[c] = "checked"
             /\ version = req[c].base
             /\ req' = [req EXCEPT ![c].content =
                   IF req[c].kind = "operations" THEN snapshot \cup {req[c].edit} ELSE {}]
             /\ Goto(c, IF req[c].kind = "operations" THEN "ready" ELSE "read")
             /\ UNCHANGED <<row, access, rowLock>>
    <3> DEFINE x == IF req[c].kind = "operations" THEN snapshot \cup {req[c].edit} ELSE {}
               r == [req[c] EXCEPT !.content = x]
               p == IF req[c].kind = "operations" THEN "ready" ELSE "read"
    <3>1. /\ r \in Request /\ r.base = req[c].base /\ r.target = req[c].target
          /\ r.kind = req[c].kind /\ r.edit = req[c].edit
          /\ r.kind = "operations" => r.content = snapshot \cup {r.edit}
      <4>1. x \in SUBSET Edit /\ (req[c].kind = "operations" => x = snapshot \cup {req[c].edit})
        BY <1>0 DEF Request, DocumentInv, TypeOK
      <4> HIDE DEF x
      <4>2. QED
        BY <1>0, <4>1 DEF Request
    <3>2. req' = [req EXCEPT ![c] = r] /\ phase' = [phase EXCEPT ![c] = p]
      BY <2>2
    <3>3. Carried("checked", req[c]) /\ req[c].kind \in Kind
      BY <1>0, <2>2 DEF Request
    <3> HIDE DEF r
    <3>4. Carried(p, r)
      <4>1. snapshot = revisions[req[c].base].snapshot
        BY <2>2 DEF DocumentInv, CurrentIsLastRevision
      <4>2. QED
        BY <3>1, <3>3, <4>1 DEF Carried, Kind
    <3>5. p \in Phase \ {"updated"}
      BY DEF Phase
    <3> HIDE DEF p
    <3>6. QED
      BY <2>2, <3>1, <3>2, <3>4, <3>5, LocalStep
  <2>3. QED
    BY <1>5, <2>1, <2>2 DEF ReadCurrent
<1>6. ASSUME NEW c \in Client, ReadTarget(c) PROVE DocumentInv'
  <2>1. CASE Refuse(c)
    BY <2>1, RefuseInv
  <2>2. CASE /\ phase[c] = "read"
             /\ req' = [req EXCEPT ![c].content = revisions[req[c].target].snapshot]
             /\ Goto(c, "ready")
             /\ UNCHANGED <<row, access, rowLock>>
    <3> DEFINE r == [req[c] EXCEPT !.content = revisions[req[c].target].snapshot]
    <3>1. Carried("read", req[c]) /\ req[c] \in Request
      BY <1>0, <2>2
    <3>2. req[c].target \in 1 .. version
      <4>1. req[c].target <= req[c].base /\ req[c].base <= version
        BY <3>1 DEF Carried
      <4>2. QED
        BY <1>0, <4>1 DEF Request
    <3>3. revisions[req[c].target].snapshot \subseteq Edit
      BY <3>2 DEF DocumentInv, TypeOK, Revision
    <3>4. /\ r \in Request /\ r.base = req[c].base /\ r.target = req[c].target
          /\ r.kind = req[c].kind /\ r.content = revisions[req[c].target].snapshot
      BY <3>1, <3>3 DEF Request
    <3>5. req' = [req EXCEPT ![c] = r]
      BY <2>2
    <3> HIDE DEF r
    <3>6. Carried("ready", r)
      BY <3>1, <3>4 DEF Carried
    <3>7. QED
      BY <2>2, <3>4, <3>5, <3>6, LocalStep DEF Phase
  <2>3. QED
    BY <1>6, <2>1, <2>2 DEF ReadTarget
<1>7. ASSUME NEW c \in Client, Begin(c) PROVE DocumentInv'
  <2> DEFINE r == [req[c] EXCEPT !.began = version]
  <2>1. Carried("ready", req[c]) /\ req[c] \in Request /\ version \in 1 .. MaxVersion
    BY <1>0, <1>7 DEF Begin
  <2>2. /\ r \in Request /\ r.base = req[c].base /\ r.target = req[c].target
        /\ r.kind = req[c].kind /\ r.edit = req[c].edit /\ r.content = req[c].content
        /\ r.began = version
    BY <2>1 DEF Request
  <2>3. req' = [req EXCEPT ![c] = r]
    BY <1>7 DEF Begin
  <2> HIDE DEF r
  <2>4. Carried("began", r)
    BY <2>1, <2>2 DEF Carried
  <2>5. QED
    BY <1>7, <2>2, <2>3, <2>4, LocalStep DEF Begin, Phase
<1>8. ASSUME NEW c \in Client, StartUpdate(c) PROVE DocumentInv'
  <2> DEFINE ok == access[req[c].actor] = "edit"
             r == [req[c] EXCEPT !.allowed = ok]
  <2>1. Carried("began", req[c]) /\ req[c] \in Request
    BY <1>0, <1>8 DEF StartUpdate
  <2>2. req' = [req EXCEPT ![c] = r]
    BY <1>8 DEF StartUpdate
  <2>3. ok \in BOOLEAN
    OBVIOUS
  <2> HIDE DEF ok
  <2>4. /\ r \in Request /\ r.base = req[c].base /\ r.target = req[c].target
        /\ r.kind = req[c].kind /\ r.edit = req[c].edit /\ r.content = req[c].content
        /\ r.began = req[c].began
    BY <2>1, <2>3 DEF Request
  <2> HIDE DEF r
  <2>5. Carried("update", r)
    BY <2>1, <2>4 DEF Carried
  <2>6. QED
    BY <1>8, <2>2, <2>4, <2>5, LocalStep DEF StartUpdate, Phase
<1>9. ASSUME NEW c \in Client, LockRow(c) PROVE DocumentInv'
  <2>1. /\ phase[c] = "update" /\ rowLock = NoClient /\ rowLock' = c /\ req' = req
        /\ phase' = [phase EXCEPT ![c] = "updated"] /\ req[c].base = version
        /\ UNCHANGED <<version, snapshot, revisions, events, access>>
    BY <1>9 DEF LockRow, row
  <2>2. TypeOK'
    BY <2>1, DocumentAssumption DEF DocumentInv, TypeOK, Phase
  <2>3. ASSUME NEW d \in Client PROVE Carried(phase'[d], req'[d])
    <3>1. CASE d = c
      <4>1. Carried("update", req[c])
        BY <1>0, <2>1
      <4>2. Carried("updated", req[c])
        BY <2>1, <4>1 DEF Carried
      <4>3. QED
        BY <2>1, <3>1, <4>2 DEF DocumentInv, TypeOK
    <3>2. CASE d # c
      BY <1>0, <2>1, <3>2 DEF DocumentInv, TypeOK
    <3>3. QED
      BY <3>1, <3>2
  <2>4. ASSUME NEW d \in Client PROVE Carried(phase[d], req[d])'
    BY <2>1, <2>3 DEF Carried
  <2>5. (CurrentIsLastRevision /\ NoLostUpdate /\ OneEventPerVersion /\ StartsAfterPredecessor)'
    BY <2>1 DEF DocumentInv, CurrentIsLastRevision, NoLostUpdate, OneEventPerVersion,
                StartsAfterPredecessor
  <2>6. QED
    BY <2>2, <2>4, <2>5 DEF DocumentInv
<1>10. ASSUME NEW c \in Client, NoRow(c) \/ Abort(c) PROVE DocumentInv'
  BY <1>10, RefuseInv DEF NoRow, Abort
<1>11. ASSUME NEW c \in Client, Commit(c) PROVE DocumentInv'
  BY <1>11, CommitInv
<1>12. CASE UNCHANGED vars
  BY <1>12 DEF vars, row, DocumentInv, TypeOK, CurrentIsLastRevision, NoLostUpdate,
               OneEventPerVersion, StartsAfterPredecessor, Carried
<1>13. QED
  BY <1>1, <1>2, <1>3, <1>4, <1>5, <1>6, <1>7, <1>8, <1>9, <1>10, <1>11, <1>12 DEF Next

LEMMA InitInv == Init => DocumentInv
<1> SUFFICES ASSUME Init PROVE DocumentInv
  OBVIOUS
<1>1. TypeOK
  <2>1. /\ version \in 1 .. MaxVersion /\ snapshot \subseteq Edit
        /\ access \in [User -> {"edit", "read", "none"}]
        /\ rowLock \in Client \cup {NoClient}
        /\ phase \in [Client -> Phase]
        /\ \A d \in Client : phase[d] = "updated" <=> rowLock = d
    BY DocumentAssumption DEF Init, Phase
  <2>2. req \in [Client -> Request]
    BY NoRequestType DEF Init
  <2>3. revisions \in [1 .. version -> Revision]
    <3>1. NoRequest.edit \in Edit
      BY NoRequestType DEF Request
    <3>2. [snapshot |-> {}, kind |-> "created", edit |-> NoRequest.edit, target |-> 1] \in Revision
      BY <3>1, DocumentAssumption DEF Revision
    <3>3. QED
      BY <3>2 DEF Init
  <2>4. events \in Seq([version : 1 .. MaxVersion, began : 1 .. MaxVersion])
    BY DEF Init
  <2>5. QED
    BY <2>1, <2>2, <2>3, <2>4 DEF TypeOK
<1>2. QED
  BY <1>1 DEF Init, DocumentInv, CurrentIsLastRevision, NoLostUpdate, OneEventPerVersion,
              StartsAfterPredecessor, Carried

(* The inductive invariant, and with it all the safety properties.         *)
THEOREM Invariance == Spec => []DocumentInv
<1>1. DocumentInv /\ [Next]_vars => DocumentInv'
  BY NextInv
<1>2. QED
  BY InitInv, <1>1, PTL DEF Spec

(* Tables, requests and the row lock keep their types; the row is locked   *)
(* exactly between an UPDATE and its COMMIT.                               *)
THEOREM TypeCorrect == Spec => []TypeOK
<1>1. DocumentInv => TypeOK
  BY DEF DocumentInv
<1>2. QED
  BY Invariance, <1>1, PTL

(* No edit is lost and rollbacks are exact, for any number of sessions.    *)
THEOREM NothingLost == Spec => []NoLostUpdate
<1>1. DocumentInv => NoLostUpdate
  BY DEF DocumentInv
<1>2. QED
  BY Invariance, <1>1, PTL

(* occurred_at orders the workspace.updated events as their versions do.   *)
THEOREM OrderedStarts == Spec => []StartsAfterPredecessor
<1>1. DocumentInv => StartsAfterPredecessor
  BY DEF DocumentInv
<1>2. QED
  BY Invariance, <1>1, PTL

(* Every version has exactly one event.                                    *)
THEOREM EventsComplete == Spec => []OneEventPerVersion
<1>1. DocumentInv => OneEventPerVersion
  BY DEF DocumentInv
<1>2. QED
  BY Invariance, <1>1, PTL

(* Only a commit changes the tables.                                       *)
LEMMA OnlyCommitWrites ==
    ASSUME [Next]_vars
    PROVE  UNCHANGED row \/ \E c \in Client : Commit(c)
BY DEF Next, vars, row, ChangeAccess, Load, Send, CheckMember, ReadCurrent, ReadTarget, Begin,
       StartUpdate, LockRow, NoRow, Abort, Refuse

(* A committed revision never changes.                                     *)
THEOREM HistoryKept == Spec => RevisionsAppendOnly
<1> DEFINE Kept == \A v \in DOMAIN revisions : v \in DOMAIN revisions' /\ revisions'[v] = revisions[v]
<1>1. DocumentInv /\ [Next]_vars => [Kept]_vars
  <2> SUFFICES ASSUME DocumentInv, [Next]_vars PROVE Kept
    OBVIOUS
  <2>1. CASE UNCHANGED row
    BY <2>1 DEF row
  <2>2. CASE \E c \in Client : Commit(c)
    <3>1. PICK c \in Client : Commit(c)
      BY <2>2
    <3>2. /\ version' = version + 1 /\ version \in Nat
          /\ DOMAIN revisions = 1 .. version /\ DOMAIN revisions' = 1 .. version'
          /\ \A v \in 1 .. version : revisions'[v] = revisions[v]
      <4>1. version \in Nat /\ DOMAIN revisions = 1 .. version
        BY DocumentAssumption DEF DocumentInv, TypeOK
      <4>2. revisions' \in [1 .. version' -> Revision]
        BY <3>1, CommitEffect
      <4>3. QED
        BY <3>1, <4>1, <4>2, CommitEffect
    <3>3. QED
      BY <3>2
  <2>3. QED
    BY <2>1, <2>2, OnlyCommitWrites
<1>2. QED
  BY Invariance, <1>1, PTL DEF Spec, RevisionsAppendOnly

(* The workspace implements the versioned document: each commit is one     *)
(* edit of the last version or a copy of an earlier one, and nothing else  *)
(* changes the history.                                                    *)
THEOREM Refinement == Spec => ImplementsVersionedDocument
<1>1. Init => Document!Init
  <2> SUFFICES ASSUME Init PROVE History = <<{}>>
    BY DEF Document!Init
  <2>1. version = 1 /\ revisions[1].snapshot = {}
    BY DEF Init
  <2>2. QED
    BY <2>1 DEF History
<1>2. DocumentInv /\ [Next]_vars => [Document!Next]_History
  <2> SUFFICES ASSUME DocumentInv, [Next]_vars PROVE Document!Next \/ History' = History
    OBVIOUS
  <2>1. CASE UNCHANGED row
    BY <2>1 DEF row, History
  <2>2. ASSUME NEW c \in Client, Commit(c) PROVE Document!Next
    <3> DEFINE s == req[c].content
    <3>1. /\ version \in Nat \ {0} /\ version' = version + 1
          /\ \A v \in 1 .. version : revisions'[v] = revisions[v]
          /\ revisions'[version'].snapshot = s
      <4>1. version \in Nat \ {0}
        BY DocumentAssumption DEF DocumentInv, TypeOK
      <4>2. /\ version' = version + 1
            /\ \A v \in 1 .. version : revisions'[v] = revisions[v]
            /\ revisions'[version'] = [snapshot |-> req[c].content, kind |-> req[c].kind,
                                       edit |-> req[c].edit, target |-> req[c].target]
        BY <2>2, CommitEffect
      <4>3. QED
        BY <4>1, <4>2
    <3>2. /\ History \in Seq(SUBSET Edit) /\ Len(History) = version
          /\ DOMAIN History = 1 .. version
      <4>1. History \in [1 .. version -> SUBSET Edit]
        BY DEF DocumentInv, TypeOK, Revision, History
      <4>2. QED
        BY <3>1, <4>1
    <3>3. \A v \in 1 .. version : History[v] = revisions[v].snapshot
      BY DEF History
    <3>4. History' = [v \in 1 .. version + 1 |-> IF v = version + 1 THEN s ELSE History[v]]
      BY <3>1, <3>3 DEF History
    <3>5. History' = Append(History, s)
      BY <3>1, <3>2, <3>4
    <3>6. /\ req[c] \in Request /\ req[c].target \in 1 .. version
          /\ s = IF req[c].kind = "rollback" THEN revisions[req[c].target].snapshot
                 ELSE snapshot \cup {req[c].edit}
      BY <2>2, Committing DEF Commit
    <3>7. CASE req[c].kind = "rollback"
      <4>1. s = History[req[c].target] /\ req[c].target \in DOMAIN History
        BY <3>2, <3>3, <3>6, <3>7
      <4>2. QED
        BY <3>5, <4>1 DEF Document!Next, Document!Restore
    <3>8. CASE req[c].kind # "rollback"
      <4>1. snapshot = History[Len(History)]
        BY <3>1, <3>2, <3>3 DEF DocumentInv, CurrentIsLastRevision
      <4>2. req[c].edit \in Edit
        BY <3>6 DEF Request
      <4>3. QED
        BY <3>5, <3>6, <3>8, <4>1, <4>2 DEF Document!Next, Document!ApplyEdit
    <3>9. QED
      BY <3>7, <3>8
  <2>3. QED
    BY <2>1, <2>2, OnlyCommitWrites
<1>3. QED
  BY Invariance, <1>1, <1>2, PTL DEF Spec, Document!Spec, ImplementsVersionedDocument

-----------------------------------------------------------------------------
LEMMA CanvasFacts ==
    ASSUME Canvas!LocalWorkspaceInv
    PROVE  /\ canvasVersion \in Nat \ {0} /\ canvasVersion <= Len(audit) + 1
           /\ audit \in Seq(Canvas!LedgerEntry) /\ Len(audit) \in Nat /\ DOMAIN audit = 1..Len(audit)
           /\ DOMAIN canvasRevisions = 1..canvasVersion /\ canvasSnapshot = canvasRevisions[canvasVersion]
           /\ canvasRole \in [CanvasUser -> Canvas!Roles \cup {"none"}]
           /\ canvasStream \in [Follower -> Canvas!Stream]
           /\ request \in [Browser -> Canvas!Range(request)]
           /\ \A c \in Browser : Canvas!IsRequest(request[c])
           /\ Len(audit) <= MaxCanvasChanges
  BY DEF Canvas!LocalWorkspaceInv, Canvas!TypeOK, Canvas!LedgerTellsWorkspace

LEMMA CanvasSeqFunction == ASSUME NEW S, NEW s \in Seq(S) PROVE s \in [1..Len(s) -> S]
  OBVIOUS

LEMMA CanvasAppendFacts ==
    ASSUME NEW S, NEW s \in Seq(S), NEW e
    PROVE  /\ Len(Append(s, e)) = Len(s) + 1
           /\ DOMAIN Append(s, e) = DOMAIN s \cup {Len(s) + 1}
           /\ \A i \in DOMAIN s : Append(s, e)[i] = s[i]
           /\ Append(s, e)[Len(s) + 1] = e
           /\ DOMAIN s = 1..Len(s) /\ Len(s) \in Nat
           /\ e \in S => Append(s, e) \in Seq(S)
<1>1. /\ DOMAIN s = 1..Len(s) /\ Len(s) \in Nat
      /\ e \in S => Append(s, e) \in Seq(S)
  OBVIOUS
<1>2. s \in Seq(S \cup {e})
  <2>1. s \in [1..Len(s) -> S]
    OBVIOUS
  <2>2. s \in [1..Len(s) -> S \cup {e}]
    BY <2>1
  <2> QED BY <1>1, <2>2
<1>3. Append(s, e) \in Seq(S \cup {e})
  BY <1>2
<1>4. /\ Len(Append(s, e)) = Len(s) + 1
      /\ DOMAIN Append(s, e) = 1..(Len(s) + 1)
      /\ \A i \in DOMAIN s : Append(s, e)[i] = s[i]
      /\ Append(s, e)[Len(s) + 1] = e
  BY <1>2, <1>3
<1> QED BY <1>1, <1>4

(* What was appended to the ledger, with what came of the versions.        *)
CanvasRecorded(e) == audit' = Append(audit, e) /\ e \in Canvas!LedgerEntry

LEMMA CanvasAppended ==
    ASSUME Canvas!LocalWorkspaceInv, NEW e, CanvasRecorded(e)
    PROVE  /\ Len(audit') = Len(audit) + 1 /\ audit' \in Seq(Canvas!LedgerEntry)
           /\ DOMAIN audit' = DOMAIN audit \cup {Len(audit) + 1}
           /\ \A i \in DOMAIN audit : audit'[i] = audit[i]
           /\ audit'[Len(audit) + 1] = e
           /\ DOMAIN audit = 1..Len(audit) /\ Len(audit) \in Nat
  BY CanvasFacts, CanvasAppendFacts DEF CanvasRecorded

LEMMA CanvasRevised ==
    ASSUME Canvas!LocalWorkspaceInv, NEW s, canvasRevisions' = Append(canvasRevisions, s),
           canvasVersion' = canvasVersion + 1
    PROVE  /\ canvasRevisions' \in [1..canvasVersion' -> Canvas!Range(canvasRevisions')]
           /\ DOMAIN canvasRevisions' = 1..canvasVersion'
           /\ \A v \in 1..canvasVersion : canvasRevisions'[v] = canvasRevisions[v]
           /\ canvasRevisions'[canvasVersion + 1] = s
<1>1. canvasRevisions \in Seq(Canvas!Range(canvasRevisions)) /\ Len(canvasRevisions) = canvasVersion
  BY DEF Canvas!LocalWorkspaceInv, Canvas!TypeOK
<1>2. /\ DOMAIN canvasRevisions' = 1..canvasVersion \cup {canvasVersion + 1}
      /\ \A v \in 1..canvasVersion : canvasRevisions'[v] = canvasRevisions[v]
      /\ canvasRevisions'[canvasVersion + 1] = s
  BY <1>1, CanvasFacts, CanvasAppendFacts
<1>3. DOMAIN canvasRevisions' = 1..canvasVersion'
  BY <1>2, CanvasFacts
<1>4. canvasRevisions' = [v \in DOMAIN canvasRevisions' |-> canvasRevisions'[v]]
  <2>1. Append(canvasRevisions, s) \in Seq(Canvas!Range(canvasRevisions) \cup {s})
    <3>1. canvasRevisions \in [1..canvasVersion -> Canvas!Range(canvasRevisions) \cup {s}]
      BY DEF Canvas!LocalWorkspaceInv, Canvas!TypeOK
    <3>2. canvasRevisions \in Seq(Canvas!Range(canvasRevisions) \cup {s})
      BY <3>1, CanvasFacts
    <3> QED BY <3>2
  <2>2. Append(canvasRevisions, s) \in [1..Len(Append(canvasRevisions, s)) -> Canvas!Range(canvasRevisions) \cup {s}]
    BY <2>1, CanvasSeqFunction
  <2> QED BY <2>2
<1> QED BY <1>2, <1>3, <1>4 DEF Canvas!Range

(* A request stays one when revisions are added.                           *)
LEMMA CanvasStillRequest ==
    ASSUME Canvas!LocalWorkspaceInv, NEW r, Canvas!IsRequest(r),
           \/ UNCHANGED <<canvasVersion, canvasRevisions>>
           \/ \E s : canvasRevisions' = Append(canvasRevisions, s) /\ canvasVersion' = canvasVersion + 1
    PROVE  Canvas!IsRequest(r)'
<1>1. /\ 1..canvasVersion \subseteq 1..canvasVersion'
      /\ \A v \in 1..canvasVersion : canvasRevisions'[v] = canvasRevisions[v]
  BY CanvasRevised, CanvasFacts
<1>2. CASE r = Canvas!NoRequest
  BY <1>2 DEF Canvas!IsRequest
<1>3. CASE r # Canvas!NoRequest
  <2>0. PICK u \in CanvasUser, v \in 1..canvasVersion, step \in {"loaded", "sent", "allowed"} :
          \E q \in IF step = "loaded" THEN {Canvas!Nothing} ELSE Canvas!Asks(v, canvasRevisions[v]) :
             r = [step |-> step, actor |-> u, base |-> v, seen |-> canvasRevisions[v], asks |-> q]
    BY <1>3 DEF Canvas!IsRequest
  <2>1. PICK q \in IF step = "loaded" THEN {Canvas!Nothing} ELSE Canvas!Asks(v, canvasRevisions[v]) :
          r = [step |-> step, actor |-> u, base |-> v, seen |-> canvasRevisions[v], asks |-> q]
    BY <2>0
  <2>2. v \in 1..canvasVersion' /\ canvasRevisions'[v] = canvasRevisions[v]
    BY <1>1
  <2> QED BY <2>1, <2>2 DEF Canvas!IsRequest
<1> QED BY <1>2, <1>3

(* How an entry that is added changes what is told of a user.              *)
LEMMA CanvasAboutAppend ==
    ASSUME Canvas!LocalWorkspaceInv, NEW e, CanvasRecorded(e), NEW u
    PROVE  Canvas!About(u)' = IF ~Canvas!OfDocument(e) /\ e.user = u THEN Canvas!About(u) \cup {Len(audit) + 1}
                                                                    ELSE Canvas!About(u)
  BY CanvasAppended DEF Canvas!About, Canvas!OfDocument

LEMMA CanvasLeavesStill ==
    ASSUME Canvas!LocalWorkspaceInv, NEW e, CanvasRecorded(e), NEW start, NEW at,
           at \subseteq DOMAIN audit,
           NEW r, Canvas!Leaves(start, at, r)
    PROVE  Canvas!Leaves(start, at, r)'
  BY CanvasAppended DEF Canvas!Leaves

LEMMA CanvasToldStill ==
    ASSUME Canvas!LocalWorkspaceInv, NEW e, CanvasRecorded(e), NEW u \in CanvasUser,
           Canvas!OfDocument(e) \/ e.user # u, canvasRole'[u] = canvasRole[u]
    PROVE  Canvas!RoleTold(u)'
<1> DEFINE start == IF u = Founder THEN "owner" ELSE "none"
<1>1. Canvas!About(u)' = Canvas!About(u) /\ Canvas!About(u) \subseteq DOMAIN audit
  <2>1. Canvas!About(u)' = Canvas!About(u)
    BY CanvasAboutAppend
  <2> QED BY <2>1 DEF Canvas!About
<1>2. /\ Canvas!Leaves(start, Canvas!About(u), canvasRole[u])
      /\ \A i \in Canvas!About(u) : Canvas!Leaves(start, {j \in Canvas!About(u) : j < i}, audit[i].was)
  BY DEF Canvas!LocalWorkspaceInv, Canvas!LedgerTellsWorkspace, Canvas!RoleTold
<1>3. Canvas!Leaves(start, Canvas!About(u), canvasRole[u])'
  <2>1. PICK a, r : a = Canvas!About(u) /\ r = canvasRole[u]
    OBVIOUS
  <2>2. Canvas!Leaves(start, a, r)'
    BY <1>1, <1>2, <2>1, CanvasLeavesStill
  <2> QED BY <1>1, <2>1, <2>2
<1>4. ASSUME NEW i \in Canvas!About(u)'
      PROVE  Canvas!Leaves(start, {j \in Canvas!About(u) : j < i}, audit[i].was)'
  <2>1. PICK a, r : a = {j \in Canvas!About(u) : j < i} /\ r = audit[i].was
    OBVIOUS
  <2>2. Canvas!Leaves(start, a, r)'
    BY <1>1, <1>2, <2>1, CanvasLeavesStill
  <2>3. audit'[i].was = audit[i].was
    BY <1>1, CanvasAppended
  <2> QED BY <1>1, <2>1, <2>2, <2>3
<1> QED BY <1>3, <1>4 DEF Canvas!RoleTold

LEMMA CanvasToldOn ==
    ASSUME Canvas!LocalWorkspaceInv, NEW e, CanvasRecorded(e), NEW u \in CanvasUser,
           ~Canvas!OfDocument(e), e.user = u, e.was = canvasRole[u], canvasRole'[u] = e.becomes
    PROVE  Canvas!RoleTold(u)'
<1> DEFINE start == IF u = Founder THEN "owner" ELSE "none"
<1> DEFINE n == Len(audit) + 1
<1>1. /\ Canvas!About(u)' = Canvas!About(u) \cup {n} /\ Canvas!About(u) \subseteq DOMAIN audit
      /\ audit'[n] = e /\ \A i \in DOMAIN audit : i < n /\ audit'[i] = audit[i]
      /\ DOMAIN audit \subseteq Nat /\ n \in Nat
  BY CanvasAboutAppend, CanvasAppended DEF Canvas!About
<1>2. /\ Canvas!Leaves(start, Canvas!About(u), canvasRole[u])
      /\ \A i \in Canvas!About(u) : Canvas!Leaves(start, {j \in Canvas!About(u) : j < i}, audit[i].was)
  BY DEF Canvas!LocalWorkspaceInv, Canvas!LedgerTellsWorkspace, Canvas!RoleTold
<1>3. Canvas!Leaves(start, Canvas!About(u), canvasRole[u])'
  <2>1. audit'[n].becomes = canvasRole'[u] /\ n \in Canvas!About(u)' /\ \A j \in Canvas!About(u)' : j <= n
    BY <1>1
  <2> QED BY <2>1 DEF Canvas!Leaves
<1>4. ASSUME NEW i \in Canvas!About(u)'
      PROVE  Canvas!Leaves(start, {j \in Canvas!About(u) : j < i}, audit[i].was)'
  <2>1. PICK a, r : a = {j \in Canvas!About(u) : j < i} /\ r = audit'[i].was
    OBVIOUS
  <2>2. {j \in Canvas!About(u)' : j < i} = a /\ a \subseteq DOMAIN audit
    BY <1>1, <2>1
  <2>3. CASE i = n
    <3>1. a = Canvas!About(u) /\ r = canvasRole[u]
      BY <1>1, <2>1, <2>3
    <3>2. Canvas!Leaves(start, a, r)'
      BY <1>2, <2>2, <3>1, CanvasLeavesStill
    <3> QED BY <2>1, <2>2, <3>2
  <2>4. CASE i # n
    <3>1. i \in Canvas!About(u) /\ r = audit[i].was
      BY <1>1, <2>1, <2>4
    <3>2. Canvas!Leaves(start, a, r)'
      BY <1>2, <2>1, <2>2, <3>1, CanvasLeavesStill
    <3> QED BY <2>1, <2>2, <3>2
  <2> QED BY <2>3, <2>4
<1> QED BY <1>3, <1>4 DEF Canvas!RoleTold

-----------------------------------------------------------------------------
(* The streams.                                                            *)
LEMMA CanvasStreamFacts ==
    ASSUME Canvas!LocalWorkspaceInv, NEW u \in Follower
    PROVE  /\ canvasStream[u] \in Canvas!Stream
           /\ canvasStream[u].step = "open" =>
                 /\ canvasStream[u] = [step |-> "open", since |-> canvasStream[u].since,
                                 queue |-> canvasStream[u].queue, sent |-> canvasStream[u].sent]
                 /\ canvasStream[u].since \in 0..Len(audit)
                 /\ canvasStream[u].queue \in Seq(Canvas!LedgerEntry) /\ canvasStream[u].sent \in Seq(Canvas!LedgerEntry)
                 /\ canvasStream[u].sent \o canvasStream[u].queue
                       = SubSeq(audit, canvasStream[u].since + 1, Len(audit))
<1>1. canvasStream[u] \in Canvas!Stream
  BY CanvasFacts
<1>2. ASSUME canvasStream[u].step = "open"
      PROVE  canvasStream[u] \in [step : {"open"}, since : 0..Len(audit), queue : Seq(Canvas!LedgerEntry),
                            sent : Seq(Canvas!LedgerEntry)]
  BY <1>1, <1>2 DEF Canvas!Stream, Canvas!NoStream
<1> QED BY <1>1, <1>2 DEF Canvas!LocalWorkspaceInv, Canvas!StreamsFollowLedger

LEMMA CanvasConcatAppend ==
    ASSUME NEW S, NEW p \in Seq(S), NEW q \in Seq(S), NEW e \in S
    PROVE  p \o Append(q, e) = Append(p \o q, e)
  OBVIOUS

LEMMA CanvasSubSeqIsSeq ==
    ASSUME NEW S, NEW a \in Seq(S), NEW m \in 0..Len(a)
    PROVE  SubSeq(a, m + 1, Len(a)) \in Seq(S)
  OBVIOUS

LEMMA CanvasFollows ==
    ASSUME NEW S, NEW a \in Seq(S), NEW m \in 0..Len(a), NEW e \in S
    PROVE  Append(SubSeq(a, m + 1, Len(a)), e) = SubSeq(Append(a, e), m + 1, Len(Append(a, e)))
<1>a. PICK y \in Seq(S) : y = SubSeq(a, m + 1, Len(a))
  BY CanvasSubSeqIsSeq
<1>b. Append(y, e) = y \o <<e>>
  BY AppendIsConcat
<1> DEFINE t == Append(a, e)
<1>2. /\ t \in Seq(S) /\ Len(t) = Len(a) + 1 /\ Len(a) \in Nat /\ t[Len(t)] = e
      /\ \A i \in 1..Len(a) : t[i] = a[i]
  BY AppendProperties
<1> HIDE DEF t
<1>3. SubSeq(t, m + 1, Len(t)) = SubSeq(t, m + 1, Len(a)) \o <<e>>
  <2>1. m + 1 \in 1..Len(t) /\ Len(t) \in (m + 1)..Len(t) /\ Len(t) - 1 = Len(a)
    BY <1>2
  <2> QED BY <1>2, <2>1, SubSeqRecursiveSecond
<1>4. SubSeq(t, m + 1, Len(a)) = SubSeq(a, m + 1, Len(a))
  BY <1>2
<1> QED BY <1>a, <1>b, <1>3, <1>4 DEF t

LEMMA CanvasQueued ==
    ASSUME NEW s, NEW m, NEW q, NEW p, NEW e,
           s = [step |-> "open", since |-> m, queue |-> q, sent |-> p]
    PROVE  [s EXCEPT !.queue = Append(@, e)]
             = [step |-> "open", since |-> m, queue |-> Append(q, e), sent |-> p]
  OBVIOUS

LEMMA CanvasPublishStreams ==
    ASSUME Canvas!LocalWorkspaceInv, NEW e, CanvasRecorded(e), Canvas!Publish(e)
    PROVE  canvasStream' \in [Follower -> Canvas!Stream'] /\ Canvas!StreamsFollowLedger'
<1>1. ASSUME NEW u \in Follower, canvasStream[u].step = "open"
      PROVE  /\ canvasStream'[u] \in Canvas!Stream'
             /\ canvasStream'[u].sent \o canvasStream'[u].queue
                   = SubSeq(audit', canvasStream'[u].since + 1, Len(audit'))
  <2>0. PICK m \in 0..Len(audit), q \in Seq(Canvas!LedgerEntry), p \in Seq(Canvas!LedgerEntry) :
           /\ canvasStream[u] = [step |-> "open", since |-> m, queue |-> q, sent |-> p]
           /\ p \o q = SubSeq(audit, m + 1, Len(audit))
    BY <1>1, CanvasStreamFacts
  <2>1. canvasStream'[u] = [step |-> "open", since |-> m, queue |-> Append(q, e), sent |-> p]
    <3>1. PICK s : s = canvasStream[u]
      OBVIOUS
    <3>2. canvasStream'[u] = [s EXCEPT !.queue = Append(@, e)]
      BY <1>1, <3>1 DEF Canvas!Publish
    <3>3. s = [step |-> "open", since |-> m, queue |-> q, sent |-> p]
      BY <2>0, <3>1
    <3> QED BY <3>2, <3>3, CanvasQueued
  <2>2. Append(q, e) \in Seq(Canvas!LedgerEntry) /\ e \in Canvas!LedgerEntry /\ audit' = Append(audit, e)
    BY <2>0 DEF CanvasRecorded
  <2>3. m \in 0..Len(audit')
    BY <2>0, CanvasAppended
  <2>4. p \o Append(q, e) = SubSeq(audit', m + 1, Len(audit'))
    <3>1. audit \in Seq(Canvas!LedgerEntry)
      BY CanvasFacts
    <3>2. p \o Append(q, e) = Append(p \o q, e)
      BY <2>2, CanvasConcatAppend
    <3>3. SubSeq(audit', m + 1, Len(audit')) = Append(SubSeq(audit, m + 1, Len(audit)), e)
      BY <2>0, <2>2, <3>1, CanvasFollows
    <3> QED BY <2>0, <3>2, <3>3
  <2>5. canvasStream'[u] \in Canvas!Stream'
    BY <2>0, <2>1, <2>2, <2>3 DEF Canvas!Stream
  <2>6. canvasStream'[u].sent = p /\ canvasStream'[u].queue = Append(q, e) /\ canvasStream'[u].since = m
    BY <2>1
  <2> QED BY <2>4, <2>5, <2>6
<1>2. ASSUME NEW u \in Follower, canvasStream[u].step # "open"
      PROVE  canvasStream'[u] = canvasStream[u] /\ canvasStream'[u] \in Canvas!Stream'
  BY <1>2, CanvasStreamFacts DEF Canvas!Publish, Canvas!Stream
<1>3. canvasStream' \in [Follower -> Canvas!Stream']
  BY <1>1, <1>2 DEF Canvas!Publish
<1> QED BY <1>1, <1>2, <1>3 DEF Canvas!StreamsFollowLedger

-----------------------------------------------------------------------------
(* A step that only moves requests, or a canvasStream, keeps the invariant.      *)
LEMMA CanvasRequestStep ==
    ASSUME Canvas!LocalWorkspaceInv, NEW c \in Browser, NEW r, Canvas!Becomes(c, r),
           Canvas!IsRequest(r),
           UNCHANGED <<canvasRole, Canvas!document, audit, canvasStream>>
    PROVE  Canvas!LocalWorkspaceInv'
<1>1. /\ UNCHANGED <<canvasRole, canvasVersion, canvasSnapshot, canvasRevisions, audit, canvasStream>>
      /\ request' = [request EXCEPT ![c] = r]
  BY DEF Canvas!document, Canvas!Becomes
<1>2. ASSUME NEW d \in Browser PROVE Canvas!IsRequest(request[d])'
  <2>1. request'[d] = IF d = c THEN r ELSE request[d]
    BY <1>1, CanvasFacts
  <2>2. PICK x : x = request'[d]
    OBVIOUS
  <2>3. Canvas!IsRequest(x)
    BY <2>1, <2>2, CanvasFacts
  <2>4. Canvas!IsRequest(x)'
    BY <1>1, <2>3, CanvasStillRequest
  <2> QED BY <2>2, <2>4
<1>3. request' \in [Browser -> Canvas!Range(request')]
  BY <1>1, CanvasFacts DEF Canvas!Range
<1>4. Canvas!TypeOK'
  BY <1>1, <1>2, <1>3 DEF Canvas!LocalWorkspaceInv, Canvas!TypeOK, Canvas!Stream
<1>5. Canvas!LedgerTellsWorkspace'
  BY <1>1 DEF Canvas!LocalWorkspaceInv, Canvas!LedgerTellsWorkspace, Canvas!RoleTold,
     Canvas!Leaves, Canvas!About, Canvas!Tells, Canvas!Manages
<1>6. Canvas!StreamsFollowLedger'
  BY <1>1 DEF Canvas!LocalWorkspaceInv, Canvas!StreamsFollowLedger
<1> QED BY <1>4, <1>5, <1>6 DEF Canvas!LocalWorkspaceInv

LEMMA CanvasStreamStep ==
    ASSUME Canvas!LocalWorkspaceInv, NEW u \in Follower, NEW s \in Canvas!Stream,
           Canvas!OnStream(u, s),
           s.step = "open" => s.sent \o s.queue = SubSeq(audit, s.since + 1, Len(audit))
    PROVE  Canvas!LocalWorkspaceInv'
<1>1. /\ UNCHANGED <<canvasRole, canvasVersion, canvasSnapshot, canvasRevisions, audit, request>>
      /\ canvasStream' = [canvasStream EXCEPT ![u] = s]
  BY DEF Canvas!document, Canvas!OnStream
<1>2. canvasStream' \in [Follower -> Canvas!Stream]
  BY <1>1, CanvasFacts
<1>3. Canvas!TypeOK'
  BY <1>1, <1>2 DEF Canvas!LocalWorkspaceInv, Canvas!TypeOK, Canvas!Stream, Canvas!IsRequest
<1>4. Canvas!LedgerTellsWorkspace'
  BY <1>1 DEF Canvas!LocalWorkspaceInv, Canvas!LedgerTellsWorkspace, Canvas!RoleTold,
     Canvas!Leaves, Canvas!About, Canvas!Tells, Canvas!Manages
<1>5. ASSUME NEW v \in Follower, canvasStream'[v].step = "open"
      PROVE  canvasStream'[v].sent \o canvasStream'[v].queue = SubSeq(audit, canvasStream'[v].since + 1, Len(audit))
  <2>1. CASE v = u
    BY <1>1, <1>5, <2>1, CanvasFacts
  <2>2. CASE v # u
    BY <1>1, <1>5, <2>2, CanvasFacts DEF Canvas!LocalWorkspaceInv, Canvas!StreamsFollowLedger
  <2> QED BY <2>1, <2>2
<1>6. Canvas!StreamsFollowLedger'
  BY <1>1, <1>5 DEF Canvas!StreamsFollowLedger
<1> QED BY <1>3, <1>4, <1>6 DEF Canvas!LocalWorkspaceInv

LEMMA CanvasSubscribeInv ==
    ASSUME Canvas!LocalWorkspaceInv, NEW u \in Follower, Canvas!Subscribe(u)
    PROVE  Canvas!LocalWorkspaceInv'
<1> DEFINE s == [step |-> "open", since |-> Len(audit), queue |-> <<>>, sent |-> <<>>]
<1>1. s \in Canvas!Stream
  BY CanvasFacts DEF Canvas!Stream
<1>2. s.sent \o s.queue = SubSeq(audit, s.since + 1, Len(audit))
  <2>1. SubSeq(audit, Len(audit) + 1, Len(audit)) = <<>>
    BY CanvasFacts, SubSeqEmpty
  <2>2. <<>> \o <<>> = <<>>
    BY ConcatEmptySeq
  <2> QED BY <2>1, <2>2
<1>3. Canvas!OnStream(u, s)
  BY DEF Canvas!Subscribe
<1> HIDE DEF s
<1> QED BY <1>1, <1>2, <1>3, CanvasStreamStep

LEMMA CanvasMoved ==
    ASSUME NEW S, NEW p \in Seq(S), NEW q \in Seq(S), q # <<>>
    PROVE  Append(p, Head(q)) \o Tail(q) = p \o q
  OBVIOUS

LEMMA CanvasDeliverInv ==
    ASSUME Canvas!LocalWorkspaceInv, NEW u \in Follower, Canvas!Deliver(u)
    PROVE  Canvas!LocalWorkspaceInv'
<1>1. PICK m \in 0..Len(audit), q \in Seq(Canvas!LedgerEntry), p \in Seq(Canvas!LedgerEntry) :
           /\ canvasStream[u] = [step |-> "open", since |-> m, queue |-> q, sent |-> p]
           /\ p \o q = SubSeq(audit, m + 1, Len(audit))
  BY CanvasStreamFacts DEF Canvas!Deliver
<1>2. q # <<>>
  BY <1>1 DEF Canvas!Deliver
<1>3. PICK e, t : e = Head(q) /\ t = Tail(q)
  OBVIOUS
<1>4. e \in Canvas!LedgerEntry /\ t \in Seq(Canvas!LedgerEntry) /\ Append(p, e) \in Seq(Canvas!LedgerEntry)
  BY <1>2, <1>3
<1> DEFINE s == [step |-> "open", since |-> m, queue |-> t, sent |-> Append(p, e)]
<1>5. s \in Canvas!Stream
  BY <1>4 DEF Canvas!Stream
<1>6. Append(p, e) \o t = p \o q
  BY <1>2, <1>3, CanvasMoved
<1>7. s.sent \o s.queue = SubSeq(audit, s.since + 1, Len(audit))
  BY <1>1, <1>6
<1>8. Canvas!OnStream(u, s)
  <2>1. canvasStream[u].since = m /\ canvasStream[u].queue = q /\ canvasStream[u].sent = p
    BY <1>1
  <2> QED BY <1>3, <2>1 DEF Canvas!Deliver
<1> HIDE DEF s
<1> QED BY <1>5, <1>7, <1>8, CanvasStreamStep

LEMMA CanvasStreamInv ==
    ASSUME Canvas!LocalWorkspaceInv, NEW u \in Follower,
           Canvas!Admit(u) \/ Canvas!Subscribe(u) \/ Canvas!Deliver(u) \/ Canvas!End(u)
    PROVE  Canvas!LocalWorkspaceInv'
<1>1. Canvas!NoStream \in Canvas!Stream /\ [step |-> "admitted"] \in Canvas!Stream
  BY DEF Canvas!Stream
<1>2. CASE Canvas!Admit(u)
  <2>1. Canvas!OnStream(u, [step |-> "admitted"]) /\ [step |-> "admitted"].step # "open"
    BY <1>2 DEF Canvas!Admit
  <2> QED BY <1>1, <2>1, CanvasStreamStep
<1>3. CASE Canvas!End(u)
  <2>1. Canvas!OnStream(u, Canvas!NoStream) /\ Canvas!NoStream.step # "open"
    BY <1>3 DEF Canvas!End, Canvas!NoStream
  <2> QED BY <1>1, <2>1, CanvasStreamStep
<1> QED BY <1>2, <1>3, CanvasSubscribeInv, CanvasDeliverInv

-----------------------------------------------------------------------------
(* What a request that is at work is.                                      *)
LEMMA CanvasRequestFacts ==
    ASSUME Canvas!LocalWorkspaceInv, NEW c \in Browser, request[c].step # "idle"
    PROVE  \E u \in CanvasUser, v \in 1..canvasVersion : \E step \in {"loaded", "sent", "allowed"} :
              \E q \in IF step = "loaded" THEN {Canvas!Nothing} ELSE Canvas!Asks(v, canvasRevisions[v]) :
                 request[c] = [step |-> step, actor |-> u, base |-> v, seen |-> canvasRevisions[v],
                               asks |-> q]
<1>1. Canvas!IsRequest(request[c]) /\ request[c] # Canvas!NoRequest
  BY CanvasFacts DEF Canvas!NoRequest
<1> QED BY <1>1 DEF Canvas!IsRequest

LEMMA CanvasStepRequest ==
    ASSUME Canvas!LocalWorkspaceInv, NEW c \in Browser, NEW step \in {"sent", "allowed"},
           NEW u \in CanvasUser, NEW v \in 1..canvasVersion,
           NEW q \in Canvas!Asks(v, canvasRevisions[v])
    PROVE  Canvas!IsRequest([step |-> step, actor |-> u, base |-> v, seen |-> canvasRevisions[v], asks |-> q])
  BY DEF Canvas!IsRequest

(* What is at work in a request of which the step is known.                *)
LEMMA CanvasAtStep ==
    ASSUME Canvas!LocalWorkspaceInv, NEW c \in Browser, request[c].step \in {"sent", "allowed"}
    PROVE  \E u \in CanvasUser, v \in 1..canvasVersion : \E q \in Canvas!Asks(v, canvasRevisions[v]) :
              request[c] = [step |-> request[c].step, actor |-> u, base |-> v,
                            seen |-> canvasRevisions[v], asks |-> q]
<1>1. PICK u \in CanvasUser, v \in 1..canvasVersion, step \in {"loaded", "sent", "allowed"} :
         \E q \in IF step = "loaded" THEN {Canvas!Nothing} ELSE Canvas!Asks(v, canvasRevisions[v]) :
            request[c] = [step |-> step, actor |-> u, base |-> v, seen |-> canvasRevisions[v],
                          asks |-> q]
  <2>1. request[c].step # "idle"
    OBVIOUS
  <2> QED BY <2>1, CanvasRequestFacts
<1>2. PICK q \in IF step = "loaded" THEN {Canvas!Nothing} ELSE Canvas!Asks(v, canvasRevisions[v]) :
         request[c] = [step |-> step, actor |-> u, base |-> v, seen |-> canvasRevisions[v], asks |-> q]
  BY <1>1
<1>3. step = request[c].step /\ step # "loaded"
  BY <1>2
<1> QED BY <1>2, <1>3

LEMMA CanvasLoadInv ==
    ASSUME Canvas!LocalWorkspaceInv, NEW c \in Browser, Canvas!Load(c)
    PROVE  Canvas!LocalWorkspaceInv'
<1>1. PICK u \in BrowserUser[c] :
         Canvas!Becomes(c, [step |-> "loaded", actor |-> u, base |-> canvasVersion, seen |-> canvasSnapshot,
                     asks |-> Canvas!Nothing])
  BY DEF Canvas!Load
<1>2. u \in CanvasUser /\ canvasVersion \in 1..canvasVersion /\ canvasSnapshot = canvasRevisions[canvasVersion]
  BY CanvasFacts, WebPlaneAssumptions DEF WebPlaneAssumptions, Canvas!LocalWorkspaceAssumption
<1>3. Canvas!IsRequest([step |-> "loaded", actor |-> u, base |-> canvasVersion, seen |-> canvasSnapshot,
                 asks |-> Canvas!Nothing])
  BY <1>2 DEF Canvas!IsRequest
<1> QED BY <1>1, <1>3, CanvasRequestStep DEF Canvas!Load

LEMMA CanvasSendInv ==
    ASSUME Canvas!LocalWorkspaceInv, NEW c \in Browser, Canvas!Send(c)
    PROVE  Canvas!LocalWorkspaceInv'
<1>1. PICK u \in CanvasUser, v \in 1..canvasVersion :
         request[c].actor = u /\ request[c].base = v /\ request[c].seen = canvasRevisions[v]
  <2>1. request[c].step # "idle"
    BY DEF Canvas!Send
  <2>2. PICK u \in CanvasUser, v \in 1..canvasVersion, step \in {"loaded", "sent", "allowed"} :
         \E q \in IF step = "loaded" THEN {Canvas!Nothing} ELSE Canvas!Asks(v, canvasRevisions[v]) :
            request[c] = [step |-> step, actor |-> u, base |-> v, seen |-> canvasRevisions[v],
                          asks |-> q]
    BY <2>1, CanvasRequestFacts
  <2> QED BY <2>2
<1>2. PICK q \in Canvas!Asks(v, canvasRevisions[v]) :
         Canvas!Becomes(c, [step |-> "sent", actor |-> u, base |-> v, seen |-> canvasRevisions[v], asks |-> q])
  BY <1>1 DEF Canvas!Send
<1>3. Canvas!IsRequest([step |-> "sent", actor |-> u, base |-> v, seen |-> canvasRevisions[v], asks |-> q])
  BY CanvasStepRequest
<1> QED BY <1>2, <1>3, CanvasRequestStep DEF Canvas!Send

LEMMA CanvasAuthoriseInv ==
    ASSUME Canvas!LocalWorkspaceInv, NEW c \in Browser, Canvas!Authorise(c)
    PROVE  Canvas!LocalWorkspaceInv'
<1>1. PICK u \in CanvasUser, v \in 1..canvasVersion : \E q \in Canvas!Asks(v, canvasRevisions[v]) :
         request[c] = [step |-> "sent", actor |-> u, base |-> v, seen |-> canvasRevisions[v], asks |-> q]
  BY CanvasAtStep DEF Canvas!Authorise
<1>2. PICK q \in Canvas!Asks(v, canvasRevisions[v]) :
         request[c] = [step |-> "sent", actor |-> u, base |-> v, seen |-> canvasRevisions[v], asks |-> q]
  BY <1>1
<1>3. Canvas!IsRequest([step |-> "allowed", actor |-> u, base |-> v, seen |-> canvasRevisions[v], asks |-> q])
  BY CanvasStepRequest
<1>4. Canvas!Becomes(c, [step |-> "allowed", actor |-> u, base |-> v, seen |-> canvasRevisions[v], asks |-> q])
  BY <1>2 DEF Canvas!Authorise
<1> QED BY <1>3, <1>4, CanvasRequestStep DEF Canvas!Authorise

LEMMA CanvasGiveUpInv ==
    ASSUME Canvas!LocalWorkspaceInv, NEW c \in Browser, Canvas!Refuse(c) \/ Canvas!Conflict(c)
    PROVE  Canvas!LocalWorkspaceInv'
<1>1. Canvas!IsRequest(Canvas!NoRequest)
  BY DEF Canvas!IsRequest
<1>2. Canvas!Becomes(c, Canvas!NoRequest) /\ UNCHANGED <<canvasRole, Canvas!document, audit, canvasStream>>
  BY DEF Canvas!Refuse, Canvas!Conflict
<1> QED BY <1>1, <1>2, CanvasRequestStep

(* What is common to the steps that record an entry.                       *)
LEMMA CanvasCommitFacts ==
    ASSUME Canvas!LocalWorkspaceInv, NEW c \in Browser, NEW e \in Canvas!LedgerEntry, Canvas!Commit(c,
           e),
           \/ UNCHANGED <<canvasVersion, canvasRevisions>>
           \/ \E s : canvasRevisions' = Append(canvasRevisions, s) /\ canvasVersion' = canvasVersion + 1
    PROVE  /\ CanvasRecorded(e)
           /\ request' \in [Browser -> Canvas!Range(request')] /\ \A d \in Browser : Canvas!IsRequest(request[d])'
           /\ canvasStream' \in [Follower -> Canvas!Stream'] /\ Canvas!StreamsFollowLedger'
           /\ Len(audit') <= MaxCanvasChanges
<1>1. CanvasRecorded(e) /\ Canvas!Publish(e) /\ request' = [request EXCEPT ![c] = Canvas!NoRequest]
  BY DEF CanvasRecorded, Canvas!Commit, Canvas!Becomes
<1>2. ASSUME NEW d \in Browser PROVE Canvas!IsRequest(request[d])'
  <2>1. request'[d] = IF d = c THEN Canvas!NoRequest ELSE request[d]
    BY <1>1, CanvasFacts
  <2>2. PICK x : x = request'[d]
    OBVIOUS
  <2>3. Canvas!IsRequest(x)
    <3>1. Canvas!IsRequest(Canvas!NoRequest)
      BY DEF Canvas!IsRequest
    <3> QED BY <2>1, <2>2, <3>1, CanvasFacts
  <2>4. Canvas!IsRequest(x)'
    BY <2>3, CanvasStillRequest
  <2> QED BY <2>2, <2>4
<1>3. request' \in [Browser -> Canvas!Range(request')]
  BY <1>1, CanvasFacts DEF Canvas!Range
<1>4. Len(audit') <= MaxCanvasChanges
  BY <1>1, CanvasAppended, WebPlaneAssumptions DEF Canvas!Commit, WebPlaneAssumptions, Canvas!LocalWorkspaceAssumption
<1> QED BY <1>1, <1>2, <1>3, <1>4, CanvasPublishStreams

LEMMA CanvasWriteInv ==
    ASSUME Canvas!LocalWorkspaceInv, NEW c \in Browser, NEW s, NEW e \in Canvas!LedgerEntry,
           Canvas!Write(c, s, e),
           Canvas!OfDocument(e), e.version = canvasVersion + 1,
           e.action = "operations" => s = Canvas!Edited(canvasSnapshot, e.batch),
           e.action = "rolled_back" => e.from \in 1..canvasVersion /\ s = canvasRevisions[e.from]
    PROVE  Canvas!LocalWorkspaceInv'
<1>1. /\ UNCHANGED canvasRole /\ canvasVersion' = canvasVersion + 1 /\ canvasSnapshot' = s
      /\ canvasRevisions' = Append(canvasRevisions, s) /\ Canvas!Commit(c, e)
  BY DEF Canvas!Write
<1>2. /\ CanvasRecorded(e)
      /\ request' \in [Browser -> Canvas!Range(request')] /\ \A d \in Browser : Canvas!IsRequest(request[d])'
      /\ canvasStream' \in [Follower -> Canvas!Stream'] /\ Canvas!StreamsFollowLedger'
      /\ Len(audit') <= MaxCanvasChanges
  BY <1>1, CanvasCommitFacts
<1> DEFINE n == Len(audit) + 1
<1>3. /\ audit' \in Seq(Canvas!LedgerEntry) /\ Len(audit') = n /\ audit'[n] = e
      /\ DOMAIN audit' = DOMAIN audit \cup {n} /\ DOMAIN audit = 1..Len(audit) /\ Len(audit) \in Nat
      /\ \A i \in DOMAIN audit : audit'[i] = audit[i]
  BY <1>2, CanvasAppended
<1>4. /\ canvasRevisions' \in [1..canvasVersion' -> Canvas!Range(canvasRevisions')]
      /\ \A v \in 1..canvasVersion : canvasRevisions'[v] = canvasRevisions[v]
      /\ canvasRevisions'[canvasVersion + 1] = s
  BY <1>1, CanvasRevised
<1>5. canvasVersion \in Nat \ {0} /\ canvasVersion <= Len(audit) + 1 /\ canvasSnapshot = canvasRevisions[canvasVersion]
  BY CanvasFacts
<1>6. Canvas!TypeOK'
  <2>1. canvasRole' \in [CanvasUser -> Canvas!Roles \cup {"none"}] /\ canvasVersion' \in 1..(Len(audit') + 1)
    BY <1>1, <1>3, <1>5, CanvasFacts
  <2> QED BY <1>2, <1>3, <1>4, <2>1 DEF Canvas!TypeOK
<1>7. ASSUME NEW i \in DOMAIN audit, Canvas!OfDocument(audit[i]), NEW x, x = audit[i]
      PROVE  x.version \in 2..canvasVersion /\ Canvas!Tells(x)'
  <2>1. x.version \in 2..canvasVersion /\ Canvas!Tells(x) /\ x \in Canvas!LedgerEntry
    BY <1>7, CanvasFacts DEF Canvas!LocalWorkspaceInv, Canvas!LedgerTellsWorkspace
  <2>2. x.version \in 1..canvasVersion /\ x.version - 1 \in 1..canvasVersion
    BY <1>5, <2>1
  <2>3. x.action = "rolled_back" => x.from \in Nat \ {0}
    BY <2>1 DEF Canvas!LedgerEntry
  <2>4. x.action = "rolled_back" => x.from \in 1..canvasVersion
    BY <1>5, <2>1, <2>2, <2>3 DEF Canvas!Tells
  <2>5. Canvas!Tells(x)'
    BY <1>4, <2>1, <2>2, <2>4 DEF Canvas!Tells
  <2> QED BY <2>1, <2>5
<1>8. Canvas!Tells(e)'
  <2>1. e.version - 1 = canvasVersion /\ canvasRevisions'[canvasVersion] = canvasRevisions[canvasVersion]
    BY <1>4, <1>5
  <2>2. e.action = "rolled_back" => e.from < e.version /\ canvasRevisions'[e.from] = canvasRevisions[e.from]
    BY <1>4, <1>5
  <2> QED BY <1>4, <1>5, <2>1, <2>2 DEF Canvas!Tells
<1>9. Canvas!LedgerTellsWorkspace'
  <2> DEFINE told == {i \in DOMAIN audit : Canvas!OfDocument(audit[i])}
  <2>1. told' = told \cup {n}
    BY <1>3
  <2>2. ASSUME NEW i \in told'
        PROVE  audit'[i].version \in 2..canvasVersion' /\ Canvas!Tells(audit[i])'
    <3>1. PICK x : x = audit'[i]
      OBVIOUS
    <3>2. CASE i = n
      BY <1>1, <1>3, <1>5, <1>8, <3>1, <3>2
    <3>3. CASE i # n
      <4>1. i \in DOMAIN audit /\ Canvas!OfDocument(audit[i]) /\ x = audit[i]
        BY <1>3, <2>1, <3>1, <3>3
      <4>2. x.version \in 2..canvasVersion /\ Canvas!Tells(x)'
        BY <1>7, <4>1
      <4> QED BY <1>1, <1>5, <3>1, <4>2
    <3> QED BY <3>2, <3>3
  <2>3. \A v \in 2..canvasVersion' : \E i \in told' : audit'[i].version = v
    <3>1. ASSUME NEW v \in 2..canvasVersion PROVE \E i \in told : audit[i].version = v
      BY DEF Canvas!LocalWorkspaceInv, Canvas!LedgerTellsWorkspace
    <3>2. audit'[n].version = canvasVersion'
      BY <1>1, <1>3
    <3>3. ASSUME NEW v \in 2..canvasVersion' PROVE v = canvasVersion' \/ v \in 2..canvasVersion
      BY <1>1, <1>5
    <3> QED BY <1>3, <2>1, <3>1, <3>2, <3>3
  <2>4. \A i, j \in told' : i < j => audit'[i].version < audit'[j].version
    <3>1. \A i, j \in told : i < j => audit[i].version < audit[j].version
      BY DEF Canvas!LocalWorkspaceInv, Canvas!LedgerTellsWorkspace
    <3>2. \A i \in told : i \in DOMAIN audit /\ audit'[i] = audit[i] /\ audit[i].version \in 2..canvasVersion
      BY <1>3, <1>7
    <3>3. audit'[n].version = canvasVersion + 1
      BY <1>3
    <3>4. ASSUME NEW i \in told', NEW j \in told', i < j
          PROVE  audit'[i].version < audit'[j].version
      <4>1. CASE i \in told /\ j \in told
        BY <3>1, <3>2, <3>4, <4>1
      <4>2. CASE i \in told /\ j = n
        BY <1>5, <3>2, <3>3, <4>2
      <4>3. i # n
        BY <1>3, <2>1, <3>4
      <4> QED BY <2>1, <4>1, <4>2, <4>3
    <3> QED BY <3>4
  <2>5. ASSUME NEW u \in CanvasUser PROVE Canvas!RoleTold(u)'
    BY <1>1, <1>2, CanvasToldStill
  <2>6. \E u \in CanvasUser : Canvas!Manages(u)'
    BY <1>1 DEF Canvas!LocalWorkspaceInv, Canvas!LedgerTellsWorkspace, Canvas!Manages
  <2>7. canvasSnapshot' = canvasRevisions'[canvasVersion']
    BY <1>1, <1>4
  <2> QED BY <2>2, <2>3, <2>4, <2>5, <2>6, <2>7 DEF Canvas!LedgerTellsWorkspace
<1> QED BY <1>2, <1>6, <1>9 DEF Canvas!LocalWorkspaceInv

(* What an allowed request asks for.                                       *)
LEMMA CanvasAskFacts ==
    ASSUME Canvas!LocalWorkspaceInv, NEW c \in Browser, request[c].step = "allowed"
    PROVE  /\ request[c].actor \in CanvasUser /\ request[c].base \in 1..canvasVersion
           /\ request[c].asks \in Canvas!Asks(request[c].base, canvasRevisions[request[c].base])
<1>1. PICK u \in CanvasUser, v \in 1..canvasVersion : \E q \in Canvas!Asks(v, canvasRevisions[v]) :
         request[c] = [step |-> request[c].step, actor |-> u, base |-> v, seen |-> canvasRevisions[v],
                       asks |-> q]
  BY CanvasAtStep
<1>2. PICK q \in Canvas!Asks(v, canvasRevisions[v]) :
         request[c] = [step |-> request[c].step, actor |-> u, base |-> v, seen |-> canvasRevisions[v],
                       asks |-> q]
  BY <1>1
<1>3. request[c].actor = u /\ request[c].base = v /\ request[c].asks = q
  BY <1>2
<1> QED BY <1>3

LEMMA CanvasSaveInv ==
    ASSUME Canvas!LocalWorkspaceInv, NEW c \in Browser,
           Canvas!Save(c) \/ Canvas!Rollback(c) \/ Canvas!Operate(c)
    PROVE  Canvas!LocalWorkspaceInv'
<1> DEFINE u == request[c].actor
<1>1. u \in CanvasUser /\ canvasVersion + 1 \in Nat
  BY CanvasAskFacts, CanvasFacts DEF Canvas!Save, Canvas!Rollback, Canvas!Operate,
     Canvas!Allowed
<1>2. CASE Canvas!Save(c)
  <2> DEFINE e == [action |-> "saved", actor |-> u, version |-> canvasVersion + 1]
  <2>1. e \in Canvas!LedgerEntry
    BY <1>1 DEF Canvas!LedgerEntry
  <2>2. Canvas!Write(c, request[c].asks.content, e)
    BY <1>2 DEF Canvas!Save
  <2>3. Canvas!OfDocument(e) /\ e.version = canvasVersion + 1 /\ e.action = "saved"
    BY DEF Canvas!OfDocument
  <2> HIDE DEF e
  <2> QED BY <2>1, <2>2, <2>3, CanvasWriteInv
<1>3. CASE Canvas!Rollback(c)
  <2>1. PICK v : v = request[c].asks.target
    OBVIOUS
  <2> DEFINE e == [action |-> "rolled_back", actor |-> u, version |-> canvasVersion + 1, from |-> v]
  <2>2. v \in 1..canvasVersion /\ Canvas!Write(c, canvasRevisions[v], e)
    BY <1>3, <2>1, CanvasFacts DEF Canvas!Rollback
  <2>3. e \in Canvas!LedgerEntry
    BY <1>1, <2>2, CanvasFacts DEF Canvas!LedgerEntry
  <2>4. Canvas!OfDocument(e) /\ e.version = canvasVersion + 1 /\ e.action = "rolled_back" /\ e.from = v
    BY DEF Canvas!OfDocument
  <2> HIDE DEF e
  <2> QED BY <2>2, <2>3, <2>4, CanvasWriteInv
<1>4. CASE Canvas!Operate(c)
  <2>1. PICK b : b = request[c].asks.batch
    OBVIOUS
  <2> DEFINE e == [action |-> "operations", actor |-> u, version |-> canvasVersion + 1, batch |-> b]
  <2>2. Canvas!Write(c, Canvas!Edited(canvasSnapshot, b), e)
    BY <1>4, <2>1 DEF Canvas!Operate
  <2>3. b \in CanvasBatch
    BY <1>4, <2>1, CanvasAskFacts DEF Canvas!Operate, Canvas!Allowed, Canvas!Asks
  <2>4. e \in Canvas!LedgerEntry
    BY <1>1, <2>3 DEF Canvas!LedgerEntry
  <2>5. Canvas!OfDocument(e) /\ e.version = canvasVersion + 1 /\ e.action = "operations" /\ e.batch = b
    BY DEF Canvas!OfDocument
  <2> HIDE DEF e
  <2> QED BY <2>2, <2>4, <2>5, CanvasWriteInv
<1> QED BY <1>2, <1>3, <1>4

LEMMA CanvasChangeMemberInv ==
    ASSUME Canvas!LocalWorkspaceInv, NEW c \in Browser, Canvas!ChangeMember(c)
    PROVE  Canvas!LocalWorkspaceInv'
<1>1. PICK m : m = request[c].asks.change
  OBVIOUS
<1> DEFINE e == [action |-> "member", actor |-> request[c].actor, user |-> m.user,
                 was |-> canvasRole[m.user], becomes |-> m.becomes]
<1>2. /\ Canvas!KeepsOwner(m.user, m.becomes) /\ canvasRole' = [canvasRole EXCEPT ![m.user] = m.becomes]
      /\ Canvas!Commit(c, e) /\ UNCHANGED <<canvasVersion, canvasSnapshot, canvasRevisions>>
  BY <1>1 DEF Canvas!ChangeMember, Canvas!document
<1>3. request[c].actor \in CanvasUser /\ m \in MemberChange
  BY <1>1, CanvasAskFacts DEF Canvas!ChangeMember, Canvas!Allowed, Canvas!Asks
<1>4. m.user \in CanvasUser /\ m.becomes \in Canvas!Roles \cup {"none"}
  BY <1>3, WebPlaneAssumptions DEF WebPlaneAssumptions, Canvas!LocalWorkspaceAssumption
<1>5. e \in Canvas!LedgerEntry
  BY <1>3, <1>4, CanvasFacts DEF Canvas!LedgerEntry
<1>6. ~Canvas!OfDocument(e) /\ e.user = m.user /\ e.was = canvasRole[m.user] /\ e.becomes = m.becomes
  BY DEF Canvas!OfDocument
<1> HIDE DEF e
<1>7. /\ CanvasRecorded(e)
      /\ request' \in [Browser -> Canvas!Range(request')] /\ \A d \in Browser : Canvas!IsRequest(request[d])'
      /\ canvasStream' \in [Follower -> Canvas!Stream'] /\ Canvas!StreamsFollowLedger'
      /\ Len(audit') <= MaxCanvasChanges
  BY <1>2, <1>5, CanvasCommitFacts
<1> DEFINE n == Len(audit) + 1
<1>8. /\ audit' \in Seq(Canvas!LedgerEntry) /\ Len(audit') = n /\ audit'[n] = e
      /\ DOMAIN audit' = DOMAIN audit \cup {n} /\ DOMAIN audit = 1..Len(audit) /\ Len(audit) \in Nat
      /\ \A i \in DOMAIN audit : audit'[i] = audit[i]
  BY <1>7, CanvasAppended
<1>9. Canvas!TypeOK'
  <2>1. canvasRole' \in [CanvasUser -> Canvas!Roles \cup {"none"}]
    BY <1>2, <1>4, CanvasFacts
  <2>2. canvasVersion' \in 1..(Len(audit') + 1)
    BY <1>2, <1>8, CanvasFacts
  <2>3. canvasRevisions' \in [1..canvasVersion' -> Canvas!Range(canvasRevisions')]
    BY <1>2 DEF Canvas!LocalWorkspaceInv, Canvas!TypeOK
  <2> QED BY <1>7, <1>8, <2>1, <2>2, <2>3 DEF Canvas!TypeOK
<1>10. Canvas!LedgerTellsWorkspace'
  <2> DEFINE told == {i \in DOMAIN audit : Canvas!OfDocument(audit[i])}
  <2>1. told' = told /\ \A i \in told : audit'[i] = audit[i]
    BY <1>6, <1>8
  <2>2. /\ \A v \in 2..canvasVersion : \E i \in told : audit[i].version = v
        /\ \A i \in told : audit[i].version \in 2..canvasVersion /\ Canvas!Tells(audit[i])
        /\ \A i, j \in told : i < j => audit[i].version < audit[j].version
    BY DEF Canvas!LocalWorkspaceInv, Canvas!LedgerTellsWorkspace
  <2>3. \A i \in told : Canvas!Tells(audit[i])'
    BY <1>2, <2>1, <2>2 DEF Canvas!Tells
  <2>4. ASSUME NEW u \in CanvasUser PROVE Canvas!RoleTold(u)'
    <3>1. CASE u = m.user
      <4>1. canvasRole'[u] = e.becomes /\ e.was = canvasRole[u] /\ e.user = u
        BY <1>2, <1>4, <1>6, <3>1, CanvasFacts
      <4> QED BY <1>6, <1>7, <4>1, CanvasToldOn
    <3>2. CASE u # m.user
      <4>1. canvasRole'[u] = canvasRole[u] /\ e.user # u
        BY <1>2, <1>4, <1>6, <3>2, CanvasFacts
      <4> QED BY <1>7, <4>1, CanvasToldStill
    <3> QED BY <3>1, <3>2
  <2>5. \E u \in CanvasUser : canvasRole'[u] = "owner"
    <3>1. PICK o \in CanvasUser : canvasRole[o] = "owner"
      BY DEF Canvas!LocalWorkspaceInv, Canvas!LedgerTellsWorkspace, Canvas!Manages
    <3> QED BY <1>2, <1>4, <3>1, CanvasFacts DEF Canvas!KeepsOwner
  <2>6. canvasSnapshot' = canvasRevisions'[canvasVersion']
    BY <1>2, CanvasFacts
  <2> QED BY <1>2, <2>1, <2>2, <2>3, <2>4, <2>5, <2>6 DEF Canvas!LedgerTellsWorkspace,
             Canvas!Manages
<1> QED BY <1>7, <1>9, <1>10 DEF Canvas!LocalWorkspaceInv

-----------------------------------------------------------------------------
LEMMA CanvasInit == ASSUME Canvas!Init PROVE Canvas!LocalWorkspaceInv
<1>1. /\ canvasRole = [u \in CanvasUser |-> IF u = Founder THEN "owner" ELSE "none"]
      /\ canvasVersion = 1 /\ canvasSnapshot = <<>> /\ canvasRevisions = <<canvasSnapshot>> /\ audit = <<>>
      /\ request = [c \in Browser |-> Canvas!NoRequest] /\ canvasStream = [u \in Follower |-> Canvas!NoStream]
  BY DEF Canvas!Init
<1>2. /\ DOMAIN canvasRevisions = 1..1 /\ canvasRevisions[1] = canvasSnapshot
      /\ audit \in Seq(Canvas!LedgerEntry) /\ Len(audit) = 0 /\ DOMAIN audit = {}
  BY <1>1
<1>3. Canvas!TypeOK
  <2>1. canvasRevisions \in [1..canvasVersion -> Canvas!Range(canvasRevisions)]
    BY <1>1, <1>2 DEF Canvas!Range
  <2>2. request \in [Browser -> Canvas!Range(request)] /\ \A c \in Browser : Canvas!IsRequest(request[c])
    BY <1>1 DEF Canvas!Range, Canvas!IsRequest
  <2>3. canvasStream \in [Follower -> Canvas!Stream]
    BY <1>1 DEF Canvas!Stream
  <2>4. canvasRole \in [CanvasUser -> Canvas!Roles \cup {"none"}]
    BY <1>1 DEF Canvas!Roles
  <2> QED BY <1>1, <1>2, <2>1, <2>2, <2>3, <2>4, WebPlaneAssumptions DEF Canvas!TypeOK, WebPlaneAssumptions, Canvas!LocalWorkspaceAssumption
<1>4. Canvas!LedgerTellsWorkspace
  <2>1. \A u \in CanvasUser : Canvas!RoleTold(u)
    BY <1>1, <1>2 DEF Canvas!RoleTold, Canvas!Leaves, Canvas!About
  <2>2. Canvas!Manages(Founder) /\ Founder \in CanvasUser
    BY <1>1, WebPlaneAssumptions DEF Canvas!Manages, WebPlaneAssumptions, Canvas!LocalWorkspaceAssumption
  <2> QED BY <1>1, <1>2, <2>1, <2>2 DEF Canvas!LedgerTellsWorkspace
<1>5. Canvas!StreamsFollowLedger
  BY <1>1 DEF Canvas!StreamsFollowLedger, Canvas!NoStream
<1> QED BY <1>3, <1>4, <1>5 DEF Canvas!LocalWorkspaceInv

LEMMA CanvasStep ==
    ASSUME Canvas!LocalWorkspaceInv, Canvas!Next \/ UNCHANGED Canvas!vars
    PROVE  Canvas!LocalWorkspaceInv'
<1>1. CASE UNCHANGED Canvas!vars
  <2>1. UNCHANGED <<canvasRole, canvasVersion, canvasSnapshot, canvasRevisions, audit, request, canvasStream>>
    BY <1>1 DEF Canvas!vars, Canvas!document
  <2>2. ASSUME NEW c \in Browser PROVE Canvas!IsRequest(request[c])'
    <3>1. PICK x : x = request[c]
      OBVIOUS
    <3>2. Canvas!IsRequest(x)'
      BY <2>1, <3>1, CanvasFacts, CanvasStillRequest
    <3> QED BY <2>1, <3>1, <3>2
  <2>3. Canvas!TypeOK'
    BY <2>1, <2>2 DEF Canvas!LocalWorkspaceInv, Canvas!TypeOK, Canvas!Stream
  <2>4. Canvas!LedgerTellsWorkspace'
    BY <2>1 DEF Canvas!LocalWorkspaceInv, Canvas!LedgerTellsWorkspace, Canvas!RoleTold,
       Canvas!Leaves, Canvas!About, Canvas!Tells, Canvas!Manages
  <2>5. Canvas!StreamsFollowLedger'
    BY <2>1 DEF Canvas!LocalWorkspaceInv, Canvas!StreamsFollowLedger
  <2> QED BY <2>3, <2>4, <2>5 DEF Canvas!LocalWorkspaceInv
<1>2. CASE Canvas!Next
  <2>1. CASE \E c \in Browser :
               \/ Canvas!Load(c) \/ Canvas!Send(c) \/ Canvas!Authorise(c) \/ Canvas!Refuse(c) \/ Canvas!Conflict(c)
               \/ Canvas!Save(c) \/ Canvas!Rollback(c) \/ Canvas!Operate(c) \/ Canvas!ChangeMember(c)
    BY <2>1, CanvasLoadInv, CanvasSendInv, CanvasAuthoriseInv, CanvasGiveUpInv, CanvasSaveInv,
       CanvasChangeMemberInv
  <2>2. CASE \E u \in Follower : Canvas!Admit(u) \/ Canvas!Subscribe(u) \/ Canvas!Deliver(u) \/ Canvas!End(u)
    BY <2>2, CanvasStreamInv
  <2> QED BY <1>2, <2>1, <2>2 DEF Canvas!Next
<1> QED BY <1>1, <1>2

LEMMA CanvasKeepsEdits ==
    ASSUME Canvas!LocalWorkspaceInv, Canvas!Next \/ UNCHANGED Canvas!vars
    PROVE  Canvas!KeepsEdits
<1> SUFFICES ASSUME canvasVersion' # canvasVersion PROVE Canvas!KeepsEdits
  BY DEF Canvas!KeepsEdits
<1>1. PICK c \in Browser : Canvas!Save(c) \/ Canvas!Rollback(c) \/ Canvas!Operate(c)
  BY DEF Canvas!Next, Canvas!vars, Canvas!document, Canvas!Load, Canvas!Send, Canvas!Authorise,
     Canvas!Refuse, Canvas!Conflict, Canvas!ChangeMember, Canvas!Admit,
         Canvas!Subscribe, Canvas!Deliver, Canvas!End, Canvas!OnStream
<1>2. /\ request[c].base \in 1..canvasVersion
      /\ request[c].asks \in Canvas!Asks(request[c].base, canvasRevisions[request[c].base])
  BY <1>1, CanvasAskFacts DEF Canvas!Save, Canvas!Rollback, Canvas!Operate, Canvas!Allowed
<1>3. CASE Canvas!Save(c)
  <2>1. canvasSnapshot' = request[c].asks.content /\ request[c].asks.kind = "save" /\ canvasVersion = request[c].base
    BY <1>3 DEF Canvas!Save, Canvas!Write, Canvas!Allowed, Canvas!IsCurrent
  <2>2. request[c].asks \in Canvas!Asks(canvasVersion, canvasSnapshot)
    BY <1>2, <2>1, CanvasFacts
  <2>3. \E b \in CanvasBatch : canvasSnapshot' = Canvas!Unchecked(canvasSnapshot, b)
    BY <2>1, <2>2 DEF Canvas!Asks
  <2> QED BY <2>3 DEF Canvas!KeepsEdits
<1>4. CASE Canvas!Rollback(c)
  <2>1. \E v \in DOMAIN canvasRevisions : canvasSnapshot' = canvasRevisions[v]
    BY <1>4 DEF Canvas!Rollback, Canvas!Write
  <2> QED BY <2>1 DEF Canvas!KeepsEdits
<1>5. CASE Canvas!Operate(c)
  <2>1. PICK b : b = request[c].asks.batch /\ Canvas!Edited(canvasSnapshot, b) # NoneYet
                 /\ canvasSnapshot' = Canvas!Edited(canvasSnapshot, b)
    BY <1>5 DEF Canvas!Operate, Canvas!Write
  <2>2. b \in CanvasBatch
    BY <1>2, <1>5, <2>1 DEF Canvas!Operate, Canvas!Allowed, Canvas!Asks
  <2>3. canvasSnapshot' = Canvas!Unchecked(canvasSnapshot, b)
    BY <2>1 DEF Canvas!Edited
  <2> QED BY <2>2, <2>3 DEF Canvas!KeepsEdits
<1> QED BY <1>1, <1>3, <1>4, <1>5

-----------------------------------------------------------------------------
LEMMA EditorFirstPart ==
    ASSUME NEW S, NEW s \in Seq(S), NEW m \in 0..Len(s)
    PROVE  /\ SubSeq(s, 1, m) \in Seq(S) /\ Len(SubSeq(s, 1, m)) = m
           /\ \A i \in 1..m : SubSeq(s, 1, m)[i] = s[i]
OBVIOUS

LEMMA EditorLastPart ==
    ASSUME NEW S, NEW s \in Seq(S), NEW m \in 1..Len(s)
    PROVE  /\ SubSeq(s, m, Len(s)) \in Seq(S) /\ Len(SubSeq(s, m, Len(s))) = Len(s) - m + 1
           /\ SubSeq(s, m, Len(s))[Len(s) - m + 1] = s[Len(s)]
OBVIOUS

\* The last change goes on top of those that can be undone.
LEMMA EditorPushed ==
    ASSUME Editor!CanvasEditorAssumption, NEW S, NEW s \in Seq(S), NEW x \in S, NEW t,
           t = Editor!Last50(Append(s, x))
    PROVE  t \in Seq(S) /\ Len(t) <= Keep /\ \E i \in DOMAIN t : t[i] = x
<1> DEFINE a == Append(s, x)
           m == IF Len(a) > Keep THEN Len(a) - Keep + 1 ELSE 1
<1>1. a \in Seq(S) /\ Len(a) = Len(s) + 1 /\ a[Len(a)] = x /\ Len(s) \in Nat
  OBVIOUS
<1>2. Keep \in Nat \ {0}
  BY DEF Editor!CanvasEditorAssumption
<1>3. m \in 1..Len(a) /\ Len(a) - m + 1 <= Keep /\ Len(a) - m + 1 \in Nat \ {0}
  BY <1>1, <1>2
<1>4. t = SubSeq(a, m, Len(a))
  BY DEF Editor!Last50
<1> HIDE DEF a, m
<1>5. t \in Seq(S) /\ Len(t) = Len(a) - m + 1 /\ t[Len(a) - m + 1] = x
  BY <1>1, <1>3, <1>4, EditorLastPart
<1>6. DOMAIN t = 1..Len(t)
  BY <1>5
<1> QED BY <1>3, <1>5, <1>6

\* The newest entry of the history comes first.
LEMMA EditorNoted ==
    ASSUME Editor!CanvasEditorAssumption, NEW S, NEW s \in Seq(S), NEW x \in S, NEW t,
           t = Editor!First50(<<x>> \o s)
    PROVE  t \in Seq(S) /\ Len(t) <= Keep /\ t # <<>>
<1> DEFINE a == <<x>> \o s
           m == IF Len(a) > Keep THEN Keep ELSE Len(a)
<1>1. a \in Seq(S) /\ Len(a) = Len(s) + 1 /\ Len(s) \in Nat
  <2>1. <<x>> \in Seq(S) /\ Len(<<x>>) = 1
    OBVIOUS
  <2> QED BY <2>1
<1>2. Keep \in Nat \ {0}
  BY DEF Editor!CanvasEditorAssumption
<1>3. m \in 0..Len(a) /\ m <= Keep /\ m >= 1
  BY <1>1, <1>2
<1>4. t = SubSeq(a, 1, m)
  <2>1. t = SubSeq(a, 1, IF Len(a) > Keep THEN Keep ELSE Len(a))
    BY DEF Editor!First50
  <2> QED BY <2>1
<1> HIDE DEF a, m
<1>5. t \in Seq(S) /\ Len(t) = m
  BY <1>1, <1>3, <1>4, EditorFirstPart
<1>6. t # <<>>
  BY <1>3, <1>5
<1> QED BY <1>3, <1>5, <1>6

LEMMA EditorPopped ==
    ASSUME NEW S, NEW s \in Seq(S), s # <<>>
    PROVE  Editor!Last(s) \in S /\ Editor!Front(s) \in Seq(S) /\ Len(Editor!Front(s)) <= Len(s)
<1>1. Len(s) \in Nat \ {0}
  OBVIOUS
<1>2. Editor!Last(s) = s[Len(s)] /\ Editor!Front(s) = SubSeq(s, 1, Len(s) - 1)
  BY DEF Editor!Last, Editor!Front
<1>3. Len(s) - 1 \in 0..Len(s)
  BY <1>1
<1>4. Editor!Front(s) \in Seq(S) /\ Len(Editor!Front(s)) = Len(s) - 1
  BY <1>2, <1>3, EditorFirstPart
<1>5. s[Len(s)] \in S
  BY <1>1
<1> QED BY <1>1, <1>2, <1>4, <1>5

LEMMA EditorSeqWidens == ASSUME NEW S, NEW T, S \subseteq T, NEW s \in Seq(S) PROVE s \in Seq(T)
<1>1. s \in [1..Len(s) -> S] /\ Len(s) \in Nat
  OBVIOUS
<1>2. s \in [1..Len(s) -> T]
  BY <1>1
<1> QED BY <1>1, <1>2

-----------------------------------------------------------------------------
EditorCanvasComment == [on : Editor!Id \cup {NoneYet}, look : Editor!Look]
EditorCanvasState ==
    [widgets : UNION {[ids -> Editor!CanvasWidget] : ids \in SUBSET Editor!Id},
     links : SUBSET (Editor!Id \X Editor!Id),
     comments : UNION {[ks -> EditorCanvasComment] : ks \in SUBSET (1..MaxComments)},
     view : Editor!Look]

\* A canvas is what its widgets, connectors, comments and view are.
EditorCanvasof(ws, ls, cs, v) == [widgets |-> ws, links |-> ls, comments |-> cs, view |-> v]

LEMMA EditorOpened ==
    ASSUME NEW d \in EditorCanvasState
    PROVE  /\ d = EditorCanvasof(d.widgets, d.links, d.comments, d.view)
           /\ DOMAIN d.widgets \subseteq Editor!Id /\ d.widgets \in [DOMAIN d.widgets -> Editor!CanvasWidget]
           /\ d.links \subseteq Editor!Id \X Editor!Id
           /\ DOMAIN d.comments \subseteq 1..MaxComments
           /\ d.comments \in [DOMAIN d.comments -> EditorCanvasComment]
           /\ d.view \in Editor!Look
<1>1. PICK ids \in SUBSET Editor!Id : d.widgets \in [ids -> Editor!CanvasWidget]
  BY DEF EditorCanvasState
<1>2. PICK ks \in SUBSET (1..MaxComments) : d.comments \in [ks -> EditorCanvasComment]
  BY DEF EditorCanvasState
<1>3. d.links \subseteq Editor!Id \X Editor!Id /\ d.view \in Editor!Look /\ d = EditorCanvasof(d.widgets, d.links, d.comments, d.view)
  BY DEF EditorCanvasState, EditorCanvasof
<1> QED BY <1>1, <1>2, <1>3

LEMMA EditorClosed ==
    ASSUME NEW ws, NEW ls, NEW cs, NEW v,
           DOMAIN ws \subseteq Editor!Id, ws \in [DOMAIN ws -> Editor!CanvasWidget], ls \subseteq Editor!Id \X Editor!Id,
           DOMAIN cs \subseteq 1..MaxComments, cs \in [DOMAIN cs -> EditorCanvasComment], v \in Editor!Look
    PROVE  /\ EditorCanvasof(ws, ls, cs, v) \in EditorCanvasState
           /\ EditorCanvasof(ws, ls, cs, v).widgets = ws /\ EditorCanvasof(ws, ls, cs, v).links = ls
           /\ EditorCanvasof(ws, ls, cs, v).comments = cs /\ EditorCanvasof(ws, ls, cs, v).view = v
<1>1. ws \in UNION {[ds -> Editor!CanvasWidget] : ds \in SUBSET Editor!Id}
  OBVIOUS
<1>2. cs \in UNION {[ds -> EditorCanvasComment] : ds \in SUBSET (1..MaxComments)}
  OBVIOUS
<1> QED BY <1>1, <1>2 DEF EditorCanvasState, EditorCanvasof

LEMMA EditorCanvasIs == ASSUME NEW d, Editor!IsCanvas(d) PROVE d \in EditorCanvasState
<1>1. d = EditorCanvasof(d.widgets, d.links, d.comments, d.view)
  BY DEF Editor!IsCanvas, EditorCanvasof
<1>2. EditorCanvasof(d.widgets, d.links, d.comments, d.view) \in EditorCanvasState
  BY EditorClosed DEF Editor!IsCanvas, EditorCanvasComment
<1> QED BY <1>1, <1>2

LEMMA EditorEmptyIs == Editor!EmptyCanvas \in EditorCanvasState /\ Editor!HasEnds(Editor!EmptyCanvas)
<1>1. <<>> \in [{} -> Editor!CanvasWidget] /\ <<>> \in [{} -> EditorCanvasComment]
  OBVIOUS
<1>2. {} \in SUBSET Editor!Id /\ {} \in SUBSET (1..MaxComments) /\ {} \in SUBSET (Editor!Id \X Editor!Id) /\ 0 \in Editor!Look
  BY DEF Editor!Look
<1>3. Editor!EmptyCanvas = EditorCanvasof(<<>>, {}, <<>>, 0)
  BY DEF Editor!EmptyCanvas, EditorCanvasof
<1>4. Editor!EmptyCanvas \in EditorCanvasState
  BY <1>1, <1>2, <1>3, EditorClosed
<1>5. Editor!HasEnds(Editor!EmptyCanvas)
  BY <1>1 DEF Editor!HasEnds, Editor!EmptyCanvas
<1> QED BY <1>4, <1>5

\* Some widgets look, say or hold something else.
LEMMA EditorChangedIs ==
    ASSUME NEW d \in EditorCanvasState, NEW ids,
           NEW to \in [Editor!CanvasWidget -> Editor!CanvasWidget]
    PROVE  Editor!Changed(d, ids, to) \in EditorCanvasState /\ (Editor!HasEnds(d) => Editor!HasEnds(Editor!Changed(d, ids, to)))
<1> DEFINE ws == [w \in DOMAIN d.widgets |-> IF w \in ids THEN to[d.widgets[w]] ELSE d.widgets[w]]
<1>1. /\ DOMAIN d.widgets \subseteq Editor!Id /\ d.widgets \in [DOMAIN d.widgets -> Editor!CanvasWidget]
      /\ d.links \subseteq Editor!Id \X Editor!Id /\ d.view \in Editor!Look
      /\ DOMAIN d.comments \subseteq 1..MaxComments /\ d.comments \in [DOMAIN d.comments -> EditorCanvasComment]
  BY EditorOpened
<1>2. ws \in [DOMAIN d.widgets -> Editor!CanvasWidget]
  BY <1>1
<1>3. Editor!Changed(d, ids, to) = EditorCanvasof(ws, d.links, d.comments, d.view)
  BY EditorOpened DEF Editor!Changed, EditorCanvasof
<1> HIDE DEF ws
<1>4. /\ Editor!Changed(d, ids, to) \in EditorCanvasState /\ Editor!Changed(d, ids, to).widgets = ws
      /\ Editor!Changed(d, ids, to).links = d.links /\ Editor!Changed(d, ids, to).comments = d.comments
  BY <1>1, <1>2, <1>3, EditorClosed
<1> QED BY <1>2, <1>4 DEF Editor!HasEnds

LEMMA EditorWithoutIs ==
    ASSUME NEW d \in EditorCanvasState, NEW ids
    PROVE  Editor!Without(d, ids) \in EditorCanvasState /\ (Editor!HasEnds(d) => Editor!HasEnds(Editor!Without(d, ids)))
<1> DEFINE ws == [w \in DOMAIN d.widgets \ ids |-> d.widgets[w]]
           ls == {l \in d.links : l[1] \notin ids /\ l[2] \notin ids}
           ks == {j \in DOMAIN d.comments : d.comments[j].on \notin ids}
           cs == [k \in ks |-> d.comments[k]]
<1>1. /\ DOMAIN d.widgets \subseteq Editor!Id /\ d.widgets \in [DOMAIN d.widgets -> Editor!CanvasWidget]
      /\ d.links \subseteq Editor!Id \X Editor!Id /\ d.view \in Editor!Look
      /\ DOMAIN d.comments \subseteq 1..MaxComments /\ d.comments \in [DOMAIN d.comments -> EditorCanvasComment]
  BY EditorOpened
<1>2. ws \in [DOMAIN d.widgets \ ids -> Editor!CanvasWidget] /\ DOMAIN d.widgets \ ids \in SUBSET Editor!Id
  BY <1>1
<1>3. cs \in [ks -> EditorCanvasComment] /\ ks \in SUBSET (1..MaxComments)
  BY <1>1
<1>4. ls \in SUBSET (Editor!Id \X Editor!Id)
  BY <1>1
<1>5. Editor!Without(d, ids) = EditorCanvasof(ws, ls, cs, d.view)
  <2>1. d = EditorCanvasof(d.widgets, d.links, d.comments, d.view)
    BY EditorOpened
  <2>2. Editor!Without(d, ids) = [d EXCEPT !.widgets = ws, !.links = ls, !.comments = cs]
    BY DEF Editor!Without
  <2> HIDE DEF ws, ls, cs
  <2>3. [d EXCEPT !.widgets = ws, !.links = ls, !.comments = cs] =
          [[[d EXCEPT !.widgets = ws] EXCEPT !.links = ls] EXCEPT !.comments = cs]
    OBVIOUS
  <2>4. [d EXCEPT !.widgets = ws] = EditorCanvasof(ws, d.links, d.comments, d.view)
    BY <2>1 DEF EditorCanvasof
  <2>5. [EditorCanvasof(ws, d.links, d.comments, d.view) EXCEPT !.links = ls] = EditorCanvasof(ws, ls, d.comments, d.view)
    BY DEF EditorCanvasof
  <2>6. [EditorCanvasof(ws, ls, d.comments, d.view) EXCEPT !.comments = cs] = EditorCanvasof(ws, ls, cs, d.view)
    BY DEF EditorCanvasof
  <2> QED BY ONLY <2>2, <2>3, <2>4, <2>5, <2>6
<1>6. \A l \in ls : l \in d.links /\ l[1] \notin ids /\ l[2] \notin ids
  OBVIOUS
<1>7. \A k \in ks : k \in DOMAIN d.comments /\ cs[k] = d.comments[k] /\ d.comments[k].on \notin ids
  OBVIOUS
<1>8. DOMAIN ws = DOMAIN d.widgets \ ids /\ DOMAIN cs = ks
  OBVIOUS
<1> HIDE DEF ws, ls, cs, ks
<1>9. /\ Editor!Without(d, ids) \in EditorCanvasState /\ Editor!Without(d, ids).widgets = ws
      /\ Editor!Without(d, ids).links = ls /\ Editor!Without(d, ids).comments = cs
  BY <1>1, <1>2, <1>3, <1>4, <1>5, EditorClosed
<1> QED BY <1>6, <1>7, <1>8, <1>9 DEF Editor!HasEnds

\* New widgets.
LEMMA EditorWithIs ==
    ASSUME NEW d \in EditorCanvasState, NEW new \in Seq(Editor!CanvasWidget),
           editorCount.widgets \in Nat, MaxWidgets \in Nat,
           editorCount.widgets + Len(new) <= MaxWidgets
    PROVE  Editor!With(d, new) \in EditorCanvasState /\ (Editor!HasEnds(d) => Editor!HasEnds(Editor!With(d, new)))
<1> DEFINE ids == DOMAIN d.widgets \cup (editorCount.widgets + 1 .. editorCount.widgets + Len(new))
           ws == [w \in ids |-> IF w \in DOMAIN d.widgets THEN d.widgets[w] ELSE new[w - editorCount.widgets]]
<1>1. /\ DOMAIN d.widgets \subseteq Editor!Id /\ d.widgets \in [DOMAIN d.widgets -> Editor!CanvasWidget]
      /\ d.links \subseteq Editor!Id \X Editor!Id /\ d.view \in Editor!Look
      /\ DOMAIN d.comments \subseteq 1..MaxComments /\ d.comments \in [DOMAIN d.comments -> EditorCanvasComment]
  BY EditorOpened
<1>2. Len(new) \in Nat /\ \A i \in 1..Len(new) : new[i] \in Editor!CanvasWidget
  OBVIOUS
<1>3. \A w \in (editorCount.widgets + 1 .. editorCount.widgets + Len(new)) : w \in Editor!Id /\ w - editorCount.widgets \in 1..Len(new)
  BY <1>2 DEF Editor!Id
<1>4. ids \in SUBSET Editor!Id
  BY <1>1, <1>3
<1>5. ws \in [ids -> Editor!CanvasWidget]
  <2> SUFFICES ASSUME NEW w \in ids
               PROVE  (IF w \in DOMAIN d.widgets THEN d.widgets[w] ELSE new[w - editorCount.widgets]) \in Editor!CanvasWidget
    OBVIOUS
  <2>1. CASE w \in DOMAIN d.widgets
    BY <1>1, <2>1
  <2>2. CASE w \notin DOMAIN d.widgets
    BY <1>2, <1>3, <2>2
  <2> QED BY <2>1, <2>2
<1>6. Editor!With(d, new) = EditorCanvasof(ws, d.links, d.comments, d.view)
  BY EditorOpened DEF Editor!With, EditorCanvasof
<1>7. DOMAIN ws = ids /\ DOMAIN d.widgets \subseteq ids
  OBVIOUS
<1> HIDE DEF ws, ids
<1>8. /\ Editor!With(d, new) \in EditorCanvasState /\ Editor!With(d, new).widgets = ws
      /\ Editor!With(d, new).links = d.links /\ Editor!With(d, new).comments = d.comments
  BY <1>1, <1>4, <1>5, <1>6, EditorClosed
<1> QED BY <1>7, <1>8 DEF Editor!HasEnds

\* Its connectors, its comments or its view are others.
LEMMA EditorOthersIs ==
    ASSUME NEW d \in EditorCanvasState, NEW ls \in SUBSET (Editor!Id \X Editor!Id),
           NEW ks \in SUBSET (1..MaxComments),
           NEW cs \in [ks -> EditorCanvasComment], NEW v \in Editor!Look
    PROVE  /\ [d EXCEPT !.links = ls] \in EditorCanvasState /\ [d EXCEPT !.comments = cs] \in EditorCanvasState
           /\ [d EXCEPT !.view = v] \in EditorCanvasState
           /\ Editor!HasEnds(d) /\ (\A l \in ls : {l[1], l[2]} \subseteq DOMAIN d.widgets) =>
                 Editor!HasEnds([d EXCEPT !.links = ls])
           /\ Editor!HasEnds(d) /\ (\A k \in ks : cs[k].on \in DOMAIN d.widgets \cup {NoneYet}) =>
                 Editor!HasEnds([d EXCEPT !.comments = cs])
           /\ Editor!HasEnds(d) => Editor!HasEnds([d EXCEPT !.view = v])
<1>1. /\ DOMAIN d.widgets \subseteq Editor!Id /\ d.widgets \in [DOMAIN d.widgets -> Editor!CanvasWidget]
      /\ d.links \subseteq Editor!Id \X Editor!Id /\ d.view \in Editor!Look
      /\ DOMAIN d.comments \subseteq 1..MaxComments /\ d.comments \in [DOMAIN d.comments -> EditorCanvasComment]
      /\ d = EditorCanvasof(d.widgets, d.links, d.comments, d.view)
  BY EditorOpened
<1>2. /\ [d EXCEPT !.links = ls] = EditorCanvasof(d.widgets, ls, d.comments, d.view)
      /\ [d EXCEPT !.comments = cs] = EditorCanvasof(d.widgets, d.links, cs, d.view)
      /\ [d EXCEPT !.view = v] = EditorCanvasof(d.widgets, d.links, d.comments, v)
  BY <1>1 DEF EditorCanvasof
<1>3. /\ [d EXCEPT !.links = ls] \in EditorCanvasState /\ [d EXCEPT !.links = ls].widgets = d.widgets
      /\ [d EXCEPT !.links = ls].links = ls /\ [d EXCEPT !.links = ls].comments = d.comments
  BY <1>1, <1>2, EditorClosed
<1>4. /\ [d EXCEPT !.comments = cs] \in EditorCanvasState /\ [d EXCEPT !.comments = cs].widgets = d.widgets
      /\ [d EXCEPT !.comments = cs].links = d.links /\ [d EXCEPT !.comments = cs].comments = cs
  BY <1>1, <1>2, EditorClosed
<1>5. /\ [d EXCEPT !.view = v] \in EditorCanvasState /\ [d EXCEPT !.view = v].widgets = d.widgets
      /\ [d EXCEPT !.view = v].links = d.links /\ [d EXCEPT !.view = v].comments = d.comments
  BY <1>1, <1>2, EditorClosed
<1>6. DOMAIN cs = ks
  OBVIOUS
<1> QED BY <1>3, <1>4, <1>5, <1>6 DEF Editor!HasEnds
-----------------------------------------------------------------------------
(* The canvas and every copy of it that can come back is a canvas, and it  *)
(* joins and annotates its own widgets, but for a stray connector.         *)
EditorFine == {c \in EditorCanvasState : stray \/ Editor!HasEnds(c)}
EditorGestureIsFine ==
    /\ gesture = [kind |-> gesture.kind, of |-> gesture.of, before |-> gesture.before, moved |-> gesture.moved]
    /\ gesture.before \in EditorFine /\ gesture.moved \in BOOLEAN
EditorCore ==
    /\ open \in BOOLEAN /\ stray \in BOOLEAN
    /\ canvas \in EditorFine /\ Editor!loadCanvas \in EditorFine
    /\ undoStack \in Seq(EditorFine) /\ redoStack \in Seq(EditorFine) /\ historyEntries \in Seq(EditorFine)
    /\ Len(undoStack) <= Keep /\ Len(redoStack) <= Keep /\ Len(historyEntries) <= Keep
    /\ gesture # NoneYet => EditorGestureIsFine
    /\ Editor!SavedIsStored

EditorTools == [name : {"select", "hand", "connector", "comment"}, source : Editor!Id \cup {NoneYet}]
EditorCounts == [widgets : 0..MaxWidgets, comments : 0..MaxComments, acts : Nat, picks : Nat, saves : Nat]
EditorSide ==
    /\ tool \in EditorTools /\ clipboard \subseteq Editor!CanvasWidget /\ IsFiniteSet(clipboard)
    /\ editorLate \subseteq [of : Editor!Id, data : Editor!Data] /\ editorCount \in EditorCounts

EditorInv == EditorCore /\ EditorSide

LEMMA EditorFineIs ==
    ASSUME NEW c \in EditorFine, NEW d \in EditorCanvasState,
           Editor!HasEnds(c) => Editor!HasEnds(d)
    PROVE  d \in EditorFine
BY DEF EditorFine

LEMMA EditorFineWidens ==
    ASSUME stray => stray'
    PROVE  EditorFine \subseteq EditorFine' /\ Seq(EditorFine) \subseteq Seq(EditorFine')
<1>1. EditorCanvasState' = EditorCanvasState
  BY DEF EditorCanvasState
<1>2. \A c : Editor!HasEnds(c) <=> Editor!HasEnds(c)'
  BY DEF Editor!HasEnds
<1>3. EditorFine \subseteq EditorFine'
  BY <1>1, <1>2 DEF EditorFine
<1> QED BY <1>3, EditorSeqWidens

\* A change that is recorded.
LEMMA EditorMutates ==
    ASSUME Editor!CanvasEditorAssumption, EditorInv, NEW d, Editor!mutateCanvas(d),
           d \in EditorFine', stray' \in BOOLEAN,
           stray => stray', UNCHANGED <<open, stored, gesture>>
    PROVE  EditorCore' /\ Editor!ChangesCanBeUndone
<1>1. /\ canvas' = d /\ timer' = "running" /\ redoStack' = <<>>
      /\ undoStack' = Editor!Last50(Append(undoStack, canvas))
      /\ historyEntries' = Editor!First50(<<d>> \o historyEntries)
  BY DEF Editor!mutateCanvas, Editor!setCanvasDirect, Editor!recordChange
<1>2. EditorFine \subseteq EditorFine' /\ Seq(EditorFine) \subseteq Seq(EditorFine')
  BY EditorFineWidens
<1>3. canvas \in EditorFine' /\ undoStack \in Seq(EditorFine') /\ historyEntries \in Seq(EditorFine') /\ Editor!loadCanvas' \in EditorFine'
  BY <1>2 DEF EditorInv, EditorCore, Editor!loadCanvas
<1>4. undoStack' \in Seq(EditorFine') /\ Len(undoStack') <= Keep /\ \E i \in DOMAIN undoStack' : undoStack'[i] = canvas
  BY <1>1, <1>3, EditorPushed
<1>5. historyEntries' \in Seq(EditorFine') /\ Len(historyEntries') <= Keep
  BY <1>1, <1>3, EditorNoted
<1>6. redoStack' \in Seq(EditorFine') /\ Len(redoStack') <= Keep
  BY <1>1 DEF Editor!CanvasEditorAssumption
<1>7. (gesture # NoneYet => EditorGestureIsFine)'
  BY <1>2 DEF EditorInv, EditorCore, EditorGestureIsFine
<1>8. Editor!SavedIsStored'
  BY <1>1 DEF Editor!SavedIsStored
<1>9. EditorCore'
  BY <1>1, <1>3, <1>4, <1>5, <1>6, <1>7, <1>8 DEF EditorInv, EditorCore
<1>10. \E k \in Editor!Kept' : Editor!Content(k) = Editor!Content(canvas)
  BY <1>4 DEF Editor!Kept, Editor!Range
<1>11. Editor!ChangesCanBeUndone
  BY <1>10 DEF Editor!ChangesCanBeUndone
<1> QED BY <1>9, <1>11

\* Nothing of the canvas and of its copies changes.
LEMMA EditorKeepsAll ==
    ASSUME EditorInv, UNCHANGED <<open, canvas, stored, timer, stray, undoStack, redoStack,
           historyEntries>>,
           \/ gesture' = gesture
           \/ /\ gesture = NoneYet
              /\ \E kind, of : gesture' = [kind |-> kind, of |-> of, before |-> canvas, moved |-> FALSE]
    PROVE  EditorCore' /\ Editor!ChangesCanBeUndone
<1>1. EditorFine' = EditorFine
  BY EditorFineWidens DEF EditorFine, Editor!HasEnds, EditorCanvasState
<1>2. (gesture # NoneYet => EditorGestureIsFine)'
  <2>1. CASE gesture' = gesture
    BY <1>1, <2>1 DEF EditorInv, EditorCore, EditorGestureIsFine
  <2>2. CASE gesture' # gesture
    <3>1. PICK kind, of : gesture' = [kind |-> kind, of |-> of, before |-> canvas, moved |-> FALSE]
      BY <2>2
    <3> QED BY <1>1, <3>1 DEF EditorInv, EditorCore, EditorGestureIsFine
  <2> QED BY <2>1, <2>2
<1>3. Editor!SavedIsStored' /\ Editor!loadCanvas' = Editor!loadCanvas
  BY DEF EditorInv, EditorCore, Editor!SavedIsStored, Editor!loadCanvas
<1>4. EditorCore'
  BY <1>1, <1>2, <1>3 DEF EditorInv, EditorCore
<1>5. Editor!ChangesCanBeUndone
  BY DEF Editor!ChangesCanBeUndone
<1> QED BY <1>4, <1>5

-----------------------------------------------------------------------------
(* What a widget becomes.                                                  *)
EditorTos == [Editor!CanvasWidget -> Editor!CanvasWidget]

LEMMA EditorToLooks == ASSUME NEW look \in Editor!Look PROVE [v \in Editor!CanvasWidget |-> [v EXCEPT !.look = look]] \in EditorTos
BY DEF EditorTos, Editor!CanvasWidget

LEMMA EditorToOther == [v \in Editor!CanvasWidget |-> [v EXCEPT !.look = 1 - @]] \in EditorTos
<1>1. \A v \in Editor!CanvasWidget : 1 - v.look \in Editor!Look
  BY DEF Editor!CanvasWidget, Editor!Look
<1> QED BY <1>1 DEF EditorTos, Editor!CanvasWidget

LEMMA EditorToLocks == [v \in Editor!CanvasWidget |-> [v EXCEPT !.locked = ~@]] \in EditorTos
<1>1. ASSUME NEW v \in Editor!CanvasWidget
      PROVE  [v EXCEPT !.locked = ~@] \in Editor!CanvasWidget
  BY DEF Editor!CanvasWidget
<1> QED BY <1>1 DEF EditorTos

LEMMA EditorToData == ASSUME NEW data \in Editor!Data PROVE [v \in Editor!CanvasWidget |-> [v EXCEPT !.data = data]] \in EditorTos
BY DEF EditorTos, Editor!CanvasWidget

LEMMA EditorToText == ASSUME NEW text \in 0..1 PROVE [v \in Editor!CanvasWidget |-> [v EXCEPT !.data.text = text]] \in EditorTos
<1>1. ASSUME NEW v \in Editor!CanvasWidget
      PROVE  [v EXCEPT !.data.text = text] \in Editor!CanvasWidget
  BY DEF Editor!CanvasWidget, Editor!Data
<1> QED BY <1>1 DEF EditorTos

LEMMA EditorToCard ==
    ASSUME NEW card \in {"idle", "loading", "ready"}
    PROVE  [v \in Editor!CanvasWidget |-> [v EXCEPT !.data.card = card]] \in EditorTos
<1>1. ASSUME NEW v \in Editor!CanvasWidget
      PROVE  [v EXCEPT !.data.card = card] \in Editor!CanvasWidget
  BY DEF Editor!CanvasWidget, Editor!Data
<1> QED BY <1>1 DEF EditorTos

LEMMA EditorMoves ==
    ASSUME NEW g, g.before \in EditorFine, NEW look \in Editor!Look
    PROVE  Editor!Moved(g, look) \in EditorFine
<1> DEFINE b == g.before
           to == [v \in Editor!CanvasWidget |-> [v EXCEPT !.look = look]]
           cs == [k \in DOMAIN b.comments |->
                    IF k \in g.of THEN [b.comments[k] EXCEPT !.look = look] ELSE b.comments[k]]
<1>1. b \in EditorCanvasState /\ b \in EditorFine
  BY DEF EditorFine
<1>2. CASE g.kind = "widgets"
  <2>1. Editor!Moved(g, look) = Editor!Changed(b, g.of, to)
    BY <1>2 DEF Editor!Moved
  <2>2. to \in [Editor!CanvasWidget -> Editor!CanvasWidget]
    BY EditorToLooks DEF EditorTos
  <2> HIDE DEF to, b
  <2> QED BY <1>1, <2>1, <2>2, EditorChangedIs, EditorFineIs
<1>3. CASE g.kind = "comment"
  <2>1. Editor!Moved(g, look) = [b EXCEPT !.comments = cs]
    BY <1>3 DEF Editor!Moved
  <2>2. DOMAIN b.comments \subseteq 1..MaxComments /\ b.comments \in [DOMAIN b.comments -> EditorCanvasComment]
    BY <1>1, EditorOpened
  <2>3. \A k \in DOMAIN b.comments : cs[k] \in EditorCanvasComment /\ cs[k].on = b.comments[k].on
    BY <2>2 DEF EditorCanvasComment
  <2>4. cs \in [DOMAIN b.comments -> EditorCanvasComment]
    BY <2>3
  <2>5. Editor!HasEnds(b) => \A k \in DOMAIN b.comments : cs[k].on \in DOMAIN b.widgets \cup {NoneYet}
    BY <2>3 DEF Editor!HasEnds
  <2> HIDE DEF cs, b
  <2>6. [b EXCEPT !.comments = cs] \in EditorCanvasState /\ (Editor!HasEnds(b) => Editor!HasEnds([b EXCEPT !.comments = cs]))
    BY <1>1, <2>2, <2>4, <2>5, EditorOthersIs DEF Editor!Look
  <2> QED BY <1>1, <2>1, <2>6, EditorFineIs
<1>4. CASE g.kind \notin {"widgets", "comment"}
  <2>1. Editor!Moved(g, look) = [b EXCEPT !.view = look]
    BY <1>4 DEF Editor!Moved
  <2> HIDE DEF b
  <2>2. DOMAIN b.comments \subseteq 1..MaxComments /\ b.comments \in [DOMAIN b.comments -> EditorCanvasComment]
        /\ b.links \subseteq Editor!Id \X Editor!Id
    BY <1>1, EditorOpened
  <2>3. [b EXCEPT !.view = look] \in EditorCanvasState /\ (Editor!HasEnds(b) => Editor!HasEnds([b EXCEPT !.view = look]))
    BY <1>1, <2>2, EditorOthersIs
  <2> QED BY <1>1, <2>1, <2>3, EditorFineIs
<1> QED BY <1>2, <1>3, <1>4
-----------------------------------------------------------------------------
LEMMA EditorTickIs ==
    ASSUME editorCount \in EditorCounts, Editor!Tick
    PROVE  editorCount' \in EditorCounts
BY DEF EditorCounts, Editor!Tick

LEMMA EditorPickIs ==
    ASSUME editorCount \in EditorCounts, Editor!Pick
    PROVE  editorCount' \in EditorCounts
BY DEF EditorCounts, Editor!Pick

LEMMA EditorFineChanged ==
    ASSUME canvas \in EditorFine, NEW ids, NEW to \in EditorTos
    PROVE  Editor!Changed(canvas, ids, to) \in EditorFine
<1>1. canvas \in EditorCanvasState
  BY DEF EditorFine
<1>2. to \in [Editor!CanvasWidget -> Editor!CanvasWidget]
  BY DEF EditorTos
<1> QED BY <1>1, <1>2, EditorChangedIs, EditorFineIs

LEMMA EditorFineWithout == ASSUME canvas \in EditorFine, NEW ids PROVE Editor!Without(canvas, ids) \in EditorFine
<1>1. canvas \in EditorCanvasState
  BY DEF EditorFine
<1> QED BY <1>1, EditorWithoutIs, EditorFineIs

\* A change of the canvas that adds no stray connector.
LEMMA EditorMutatesFine ==
    ASSUME Editor!CanvasEditorAssumption, EditorInv, NEW d \in EditorFine,
           Editor!mutateCanvas(d),
           UNCHANGED <<open, stored, gesture, stray>>
    PROVE  EditorCore' /\ Editor!ChangesCanBeUndone
<1>1. EditorFine \subseteq EditorFine' /\ stray' \in BOOLEAN
  BY EditorFineWidens DEF EditorInv, EditorCore
<1> QED BY <1>1, EditorMutates

LEMMA EditorMakeIs ==
    ASSUME Editor!CanvasEditorAssumption, EditorInv, NEW new \in Seq(Editor!CanvasWidget),
           Editor!Make(new),
           UNCHANGED <<open, stored, gesture, stray>>
    PROVE  EditorCore' /\ Editor!ChangesCanBeUndone /\ editorCount' \in EditorCounts
<1>1. editorCount \in EditorCounts /\ canvas \in EditorFine /\ canvas \in EditorCanvasState
  BY DEF EditorInv, EditorCore, EditorSide, EditorFine
<1>2. editorCount.widgets \in Nat /\ MaxWidgets \in Nat /\ editorCount.widgets + Len(new) <= MaxWidgets /\ Len(new) \in Nat
  BY <1>1 DEF EditorCounts, Editor!Make, Editor!CanvasEditorAssumption
<1>3. Editor!With(canvas, new) \in EditorFine
  BY <1>1, <1>2, EditorWithIs, EditorFineIs
<1>4. Editor!mutateCanvas(Editor!With(canvas, new))
  BY DEF Editor!Make
<1>5. editorCount' = [editorCount EXCEPT !.acts = @ + 1, !.widgets = @ + Len(new)]
  BY DEF Editor!Make
<1>6. editorCount.widgets + Len(new) \in 0..MaxWidgets
  BY <1>2
<1>7. editorCount' \in EditorCounts
  <2>1. [editorCount EXCEPT !.acts = @ + 1, !.widgets = @ + Len(new)] =
          [[editorCount EXCEPT !.acts = @ + 1] EXCEPT !.widgets = @ + Len(new)]
    BY <1>1 DEF EditorCounts
  <2>2. [editorCount EXCEPT !.acts = @ + 1] \in EditorCounts /\ [editorCount EXCEPT !.acts = @ + 1].widgets = editorCount.widgets
    BY <1>1 DEF EditorCounts
  <2>3. ASSUME NEW n \in EditorCounts, n.widgets = editorCount.widgets
        PROVE  [n EXCEPT !.widgets = @ + Len(new)] \in EditorCounts
    BY <1>6, <2>3 DEF EditorCounts
  <2> QED BY <1>5, <2>1, <2>2, <2>3
<1> QED BY <1>3, <1>4, <1>7, EditorMutatesFine

LEMMA EditorNewWidgetIs == Editor!NewWidget \in Editor!CanvasWidget /\ <<Editor!NewWidget>> \in Seq(Editor!CanvasWidget)
<1>1. Editor!NewWidget \in Editor!CanvasWidget
  BY DEF Editor!NewWidget, Editor!CanvasWidget, Editor!Look, Editor!Data
<1> QED BY <1>1

LEMMA EditorToolIs == ASSUME tool \in EditorTools, tool' = [tool EXCEPT !.name = "select"] PROVE tool' \in EditorTools
BY DEF EditorTools

LEMMA EditorFileIs ==
    ASSUME NEW data \in Editor!Data
    PROVE  [data EXCEPT !.file = TRUE] \in Editor!Data /\ [data EXCEPT !.card = "ready"] \in Editor!Data
BY DEF Editor!Data

LEMMA EditorLateIs ==
    ASSUME editorLate \subseteq [of : Editor!Id, data : Editor!Data], NEW w \in Editor!Id,
           NEW data \in Editor!Data
    PROVE  editorLate \cup {[of |-> w, data |-> data]} \subseteq [of : Editor!Id, data : Editor!Data]
OBVIOUS

LEMMA EditorAddWidgetInv ==
    ASSUME Editor!CanvasEditorAssumption, EditorInv, Editor!addWidget \/ Editor!dropFiles
    PROVE  EditorInv' /\ Editor!ChangesCanBeUndone
<1>1. /\ Editor!Make(<<Editor!NewWidget>>) /\ tool' = [tool EXCEPT !.name = "select"]
      /\ UNCHANGED <<open, stored, gesture, clipboard, stray>>
      /\ \/ editorLate' = editorLate
         \/ editorLate' = editorLate \cup {[of |-> editorCount.widgets + 1, data |-> [Editor!NewWidget.data EXCEPT !.file = TRUE]]}
  BY DEF Editor!addWidget, Editor!dropFiles
<1>2. EditorCore' /\ Editor!ChangesCanBeUndone /\ editorCount' \in EditorCounts
  BY <1>1, EditorMakeIs, EditorNewWidgetIs
<1>3. tool' \in EditorTools
  BY <1>1, EditorToolIs DEF EditorInv, EditorSide
<1>4. editorCount.widgets + 1 \in Editor!Id
  <2>1. editorCount \in EditorCounts /\ editorCount.widgets + Len(<<Editor!NewWidget>>) <= MaxWidgets /\ MaxWidgets \in Nat
    BY <1>1 DEF EditorInv, EditorSide, Editor!Make, Editor!CanvasEditorAssumption
  <2>2. Len(<<Editor!NewWidget>>) = 1
    OBVIOUS
  <2> QED BY <2>1, <2>2 DEF EditorCounts, Editor!Id
<1>5. [Editor!NewWidget.data EXCEPT !.file = TRUE] \in Editor!Data
  <2>1. PICK data : data = Editor!NewWidget.data
    OBVIOUS
  <2>2. data \in Editor!Data
    BY <2>1, EditorNewWidgetIs DEF Editor!CanvasWidget
  <2> QED BY <2>1, <2>2, EditorFileIs
<1>6. editorLate' \subseteq [of : Editor!Id, data : Editor!Data]
  BY <1>1, <1>4, <1>5, EditorLateIs DEF EditorInv, EditorSide
<1> QED BY <1>1, <1>2, <1>3, <1>6 DEF EditorInv, EditorSide

LEMMA EditorUpdateInv ==
    ASSUME Editor!CanvasEditorAssumption, EditorInv, NEW ids, NEW to \in EditorTos,
           Editor!mutateCanvas(Editor!Changed(canvas, ids, to)),
           UNCHANGED <<open, stored, tool, gesture, clipboard, stray>>,
           editorCount' = editorCount \/ Editor!Tick, editorLate' \subseteq [of : Editor!Id, data : Editor!Data]
    PROVE  EditorInv' /\ Editor!ChangesCanBeUndone
<1>1. Editor!Changed(canvas, ids, to) \in EditorFine
  BY EditorFineChanged DEF EditorInv, EditorCore
<1>2. EditorCore' /\ Editor!ChangesCanBeUndone
  BY <1>1, EditorMutatesFine
<1>3. editorCount' \in EditorCounts
  BY EditorTickIs DEF EditorInv, EditorSide
<1> QED BY <1>2, <1>3 DEF EditorInv, EditorSide

LEMMA EditorUpdateWidgetInv ==
    ASSUME Editor!CanvasEditorAssumption, EditorInv, NEW w, NEW to \in EditorTos,
           Editor!updateWidget(w, to)
    PROVE  EditorInv' /\ Editor!ChangesCanBeUndone
<1>1. /\ Editor!mutateCanvas(Editor!Changed(canvas, {w}, to)) /\ Editor!Tick
      /\ UNCHANGED <<open, stored, tool, gesture, clipboard, stray>> /\ editorLate' = editorLate
  BY DEF Editor!updateWidget
<1> QED BY <1>1, EditorUpdateInv DEF EditorInv, EditorSide

LEMMA EditorWidgetMenuInv ==
    ASSUME Editor!CanvasEditorAssumption, EditorInv, NEW w,
           (\E text \in 0..1 : Editor!Type(w, text)) \/ Editor!Lock(w) \/ Editor!Collapse(w)
    PROVE  EditorInv' /\ Editor!ChangesCanBeUndone
<1>1. CASE \E text \in 0..1 : Editor!Type(w, text)
  <2>1. PICK text \in 0..1 : Editor!updateWidget(w, [v \in Editor!CanvasWidget |-> [v EXCEPT !.data.text = text]])
    BY <1>1 DEF Editor!Type
  <2> QED BY <2>1, EditorToText, EditorUpdateWidgetInv
<1>2. CASE Editor!Lock(w)
  BY <1>2, EditorToLocks, EditorUpdateWidgetInv DEF Editor!Lock
<1>3. CASE Editor!Collapse(w)
  BY <1>3, EditorToOther, EditorUpdateWidgetInv DEF Editor!Collapse
<1> QED BY <1>1, <1>2, <1>3

LEMMA EditorSubmitInv ==
    ASSUME Editor!CanvasEditorAssumption, EditorInv, NEW w, NEW connected \in BOOLEAN,
           Editor!submit(w, connected)
    PROVE  EditorInv' /\ Editor!ChangesCanBeUndone
<1> DEFINE card == IF connected THEN "loading" ELSE "ready"
           data == canvas.widgets[w].data
<1>1. /\ w \in Editor!There /\ Editor!Tick
      /\ Editor!mutateCanvas(Editor!Changed(canvas, {w}, [v \in Editor!CanvasWidget |-> [v EXCEPT !.data.card = card]]))
      /\ editorLate' = (IF connected THEN editorLate \cup {[of |-> w, data |-> [data EXCEPT !.card = "ready"]]} ELSE editorLate)
      /\ UNCHANGED <<open, stored, tool, gesture, clipboard, stray>>
  BY DEF Editor!submit
<1>2. card \in {"idle", "loading", "ready"}
  OBVIOUS
<1>3. w \in Editor!Id /\ data \in Editor!Data
  <2>1. canvas \in EditorCanvasState
    BY DEF EditorInv, EditorCore, EditorFine
  <2>2. DOMAIN canvas.widgets \subseteq Editor!Id /\ canvas.widgets \in [DOMAIN canvas.widgets -> Editor!CanvasWidget]
    BY <2>1, EditorOpened
  <2> QED BY <1>1, <2>2 DEF Editor!There, Editor!CanvasWidget
<1>4. [data EXCEPT !.card = "ready"] \in Editor!Data
  BY <1>3, EditorFileIs
<1>5. editorLate' \subseteq [of : Editor!Id, data : Editor!Data]
  BY <1>1, <1>3, <1>4, EditorLateIs DEF EditorInv, EditorSide
<1>6. [v \in Editor!CanvasWidget |-> [v EXCEPT !.data.card = card]] \in EditorTos
  BY <1>2, EditorToCard
<1> HIDE DEF card, data
<1> QED BY <1>1, <1>5, <1>6, EditorUpdateInv

LEMMA EditorArriveInv ==
    ASSUME Editor!CanvasEditorAssumption, EditorInv, NEW a \in editorLate, Editor!Arrive(a)
    PROVE  EditorInv' /\ Editor!ChangesCanBeUndone
<1>1. /\ editorLate' = editorLate \ {a}
      /\ Editor!mutateCanvas(Editor!Changed(canvas, {a.of}, [v \in Editor!CanvasWidget |-> [v EXCEPT !.data = a.data]]))
      /\ UNCHANGED <<open, stored, tool, gesture, clipboard, stray, editorCount>>
  BY DEF Editor!Arrive
<1>2. a.data \in Editor!Data /\ editorLate' \subseteq [of : Editor!Id, data : Editor!Data]
  BY <1>1 DEF EditorInv, EditorSide
<1> QED BY <1>1, <1>2, EditorToData, EditorUpdateInv

LEMMA EditorLayerInv ==
    ASSUME Editor!CanvasEditorAssumption, EditorInv, Editor!layerSelection
    PROVE  EditorInv' /\ Editor!ChangesCanBeUndone
<1>1. /\ Editor!mutateCanvas(Editor!Changed(canvas, selection.widgets, [v \in Editor!CanvasWidget |-> [v EXCEPT !.look = 1 - @]]))
      /\ Editor!Tick /\ editorLate' = editorLate /\ UNCHANGED <<open, stored, tool, gesture, clipboard, stray>>
  BY DEF Editor!layerSelection, Editor!updateSelected
<1> QED BY <1>1, EditorToOther, EditorUpdateInv DEF EditorInv, EditorSide

LEMMA EditorGroupInv ==
    ASSUME Editor!CanvasEditorAssumption, EditorInv, Editor!groupSelection
    PROVE  EditorInv' /\ Editor!ChangesCanBeUndone
<1>1. Editor!Make(<<Editor!NewWidget>>) /\ UNCHANGED <<open, stored, tool, gesture, clipboard, editorLate, stray>>
  BY DEF Editor!groupSelection
<1>2. EditorCore' /\ Editor!ChangesCanBeUndone /\ editorCount' \in EditorCounts
  BY <1>1, EditorMakeIs, EditorNewWidgetIs
<1> QED BY <1>1, <1>2 DEF EditorInv, EditorSide

LEMMA EditorLoadFileInv ==
    ASSUME Editor!CanvasEditorAssumption, EditorInv, NEW w, Editor!loadFile(w)
    PROVE  EditorInv' /\ Editor!ChangesCanBeUndone
<1> DEFINE data == canvas.widgets[w].data
<1>1. /\ w \in Editor!There /\ Editor!Tick /\ editorLate' = editorLate \cup {[of |-> w, data |-> [data EXCEPT !.file = TRUE]]}
      /\ UNCHANGED <<open, canvas, stored, timer, undoStack, redoStack, historyEntries, tool, gesture,
                     clipboard, stray>>
  BY DEF Editor!loadFile, Editor!UnchangedHistory
<1>2. w \in Editor!Id /\ data \in Editor!Data
  <2>1. canvas \in EditorCanvasState
    BY DEF EditorInv, EditorCore, EditorFine
  <2>2. DOMAIN canvas.widgets \subseteq Editor!Id /\ canvas.widgets \in [DOMAIN canvas.widgets -> Editor!CanvasWidget]
    BY <2>1, EditorOpened
  <2> QED BY <1>1, <2>2 DEF Editor!There, Editor!CanvasWidget
<1>3. [data EXCEPT !.file = TRUE] \in Editor!Data
  BY <1>2, EditorFileIs
<1>4. editorLate' \subseteq [of : Editor!Id, data : Editor!Data] /\ editorCount' \in EditorCounts
  BY <1>1, <1>2, <1>3, EditorTickIs, EditorLateIs DEF EditorInv, EditorSide
<1> HIDE DEF data
<1>5. EditorCore' /\ Editor!ChangesCanBeUndone
  BY <1>1, EditorKeepsAll
<1> QED BY <1>1, <1>4, <1>5 DEF EditorInv, EditorSide
-----------------------------------------------------------------------------
(* Comments, connectors, copies.                                           *)
LEMMA EditorCanvasOpened ==
    ASSUME EditorInv
    PROVE  /\ canvas \in EditorFine /\ canvas \in EditorCanvasState /\ Editor!There \subseteq Editor!Id
           /\ canvas.widgets \in [Editor!There -> Editor!CanvasWidget] /\ canvas.links \in SUBSET (Editor!Id \X Editor!Id)
           /\ canvas.view \in Editor!Look
           /\ DOMAIN canvas.comments \in SUBSET (1..MaxComments)
           /\ canvas.comments \in [DOMAIN canvas.comments -> EditorCanvasComment]
           /\ editorCount \in EditorCounts /\ tool \in EditorTools
<1>1. canvas \in EditorFine /\ canvas \in EditorCanvasState /\ editorCount \in EditorCounts /\ tool \in EditorTools
  BY DEF EditorInv, EditorCore, EditorSide, EditorFine
<1> QED BY <1>1, EditorOpened DEF Editor!There

LEMMA EditorAddCommentInv ==
    ASSUME Editor!CanvasEditorAssumption, EditorInv, NEW on \in Editor!There \cup {NoneYet},
           Editor!addComment(on)
    PROVE  EditorInv' /\ Editor!ChangesCanBeUndone
<1> DEFINE k == editorCount.comments + 1
           ks == DOMAIN canvas.comments \cup {k}
           cs == [j \in ks |-> IF j = k THEN [on |-> on, look |-> 0] ELSE canvas.comments[j]]
<1>1. /\ k <= MaxComments /\ Editor!mutateCanvas([canvas EXCEPT !.comments = cs])
      /\ tool' = [tool EXCEPT !.name = "select"]
      /\ editorCount' = [editorCount EXCEPT !.acts = @ + 1, !.comments = k]
      /\ UNCHANGED <<open, stored, gesture, clipboard, editorLate, stray>>
  BY DEF Editor!addComment
<1>2. k \in 1..MaxComments
  BY <1>1, EditorCanvasOpened DEF EditorCounts, Editor!CanvasEditorAssumption
<1>3. [on |-> on, look |-> 0] \in EditorCanvasComment
  BY EditorCanvasOpened DEF EditorCanvasComment, Editor!Look
<1>4. ks \in SUBSET (1..MaxComments) /\ cs \in [ks -> EditorCanvasComment]
  BY <1>2, <1>3, EditorCanvasOpened
<1>5. Editor!HasEnds(canvas) => \A j \in ks : cs[j].on \in Editor!There \cup {NoneYet}
  BY DEF Editor!HasEnds, Editor!There
<1>6. editorCount' \in EditorCounts
  <2>1. [editorCount EXCEPT !.acts = @ + 1, !.comments = k] = [[editorCount EXCEPT !.acts = @ + 1] EXCEPT !.comments = k]
    BY EditorCanvasOpened DEF EditorCounts
  <2>2. [editorCount EXCEPT !.acts = @ + 1] \in EditorCounts
    BY EditorCanvasOpened DEF EditorCounts
  <2>3. ASSUME NEW n \in EditorCounts PROVE [n EXCEPT !.comments = k] \in EditorCounts
    BY <1>2 DEF EditorCounts
  <2> QED BY <1>1, <2>1, <2>2, <2>3
<1> HIDE DEF cs, ks, k
<1>7. /\ [canvas EXCEPT !.comments = cs] \in EditorCanvasState
      /\ Editor!HasEnds(canvas) => Editor!HasEnds([canvas EXCEPT !.comments = cs])
  BY <1>4, <1>5, EditorCanvasOpened, EditorOthersIs DEF Editor!There
<1>8. [canvas EXCEPT !.comments = cs] \in EditorFine
  BY <1>7, EditorCanvasOpened, EditorFineIs
<1>9. EditorCore' /\ Editor!ChangesCanBeUndone
  BY <1>1, <1>8, EditorMutatesFine
<1>10. tool' \in EditorTools
  BY <1>1, EditorToolIs, EditorCanvasOpened
<1> QED BY <1>1, <1>6, <1>9, <1>10 DEF EditorInv, EditorSide

LEMMA EditorUpdateCommentInv ==
    ASSUME Editor!CanvasEditorAssumption, EditorInv, NEW k, NEW deleted \in BOOLEAN,
           Editor!updateComment(k, deleted)
    PROVE  EditorInv' /\ Editor!ChangesCanBeUndone
<1>1. PICK cs : cs = IF deleted THEN [j \in DOMAIN canvas.comments \ {k} |-> canvas.comments[j]]
                     ELSE [canvas.comments EXCEPT ![k].look = 1 - @]
  OBVIOUS
<1>2. /\ k \in DOMAIN canvas.comments /\ Editor!mutateCanvas([canvas EXCEPT !.comments = cs]) /\ Editor!Tick
      /\ UNCHANGED <<open, stored, tool, gesture, clipboard, editorLate, stray>>
  BY <1>1 DEF Editor!updateComment
<1>3. /\ DOMAIN cs \in SUBSET (1..MaxComments) /\ cs \in [DOMAIN cs -> EditorCanvasComment]
      /\ \A j \in DOMAIN cs : j \in DOMAIN canvas.comments /\ cs[j].on = canvas.comments[j].on
  <2>1. CASE deleted
    BY <1>1, <2>1, EditorCanvasOpened
  <2>2. CASE ~deleted
    <3>1. cs = [canvas.comments EXCEPT ![k].look = 1 - @]
      BY <1>1, <2>2
    <3>2. canvas.comments[k] \in EditorCanvasComment
      BY <1>2, EditorCanvasOpened
    <3>3. PICK x : x = [canvas.comments[k] EXCEPT !.look = 1 - @]
      OBVIOUS
    <3>4. x \in EditorCanvasComment /\ x.on = canvas.comments[k].on
      BY <3>2, <3>3 DEF EditorCanvasComment, Editor!Look
    <3>5. cs = [canvas.comments EXCEPT ![k] = x]
      BY <3>1, <3>3
    <3> QED BY <1>2, <3>4, <3>5, EditorCanvasOpened
  <2> QED BY <2>1, <2>2
<1>4. Editor!HasEnds(canvas) => \A j \in DOMAIN cs : cs[j].on \in Editor!There \cup {NoneYet}
  BY <1>3 DEF Editor!HasEnds, Editor!There
<1>5. /\ [canvas EXCEPT !.comments = cs] \in EditorCanvasState
      /\ Editor!HasEnds(canvas) => Editor!HasEnds([canvas EXCEPT !.comments = cs])
  BY <1>3, <1>4, EditorCanvasOpened, EditorOthersIs DEF Editor!There
<1>6. [canvas EXCEPT !.comments = cs] \in EditorFine
  BY <1>5, EditorCanvasOpened, EditorFineIs
<1>7. EditorCore' /\ Editor!ChangesCanBeUndone
  BY <1>2, <1>6, EditorMutatesFine
<1> QED BY <1>2, <1>7, EditorTickIs DEF EditorInv, EditorSide

\* Fewer connectors.
LEMMA EditorFineFewer ==
    ASSUME EditorInv, NEW ls, ls \subseteq canvas.links
    PROVE  [canvas EXCEPT !.links = ls] \in EditorFine
<1>1. ls \in SUBSET (Editor!Id \X Editor!Id)
  BY EditorCanvasOpened
<1>2. Editor!HasEnds(canvas) => \A l \in ls : {l[1], l[2]} \subseteq DOMAIN canvas.widgets
  BY DEF Editor!HasEnds
<1>3. /\ [canvas EXCEPT !.links = ls] \in EditorCanvasState
      /\ Editor!HasEnds(canvas) => Editor!HasEnds([canvas EXCEPT !.links = ls])
  BY <1>1, <1>2, EditorCanvasOpened, EditorOthersIs
<1> QED BY <1>3, EditorCanvasOpened, EditorFineIs

LEMMA EditorRemoveInv ==
    ASSUME Editor!CanvasEditorAssumption, EditorInv,
           Editor!removeSelection \/ \E w \in Editor!There : Editor!removeWidget(w)
    PROVE  EditorInv' /\ Editor!ChangesCanBeUndone
<1>1. /\ Editor!Tick /\ UNCHANGED <<open, stored, tool, gesture, clipboard, editorLate, stray>>
      /\ \/ Editor!mutateCanvas([canvas EXCEPT !.links = @ \ {selection.link}])
         \/ Editor!mutateCanvas(Editor!Without(canvas, selection.widgets))
         \/ \E w \in Editor!There : Editor!mutateCanvas(Editor!Without(canvas, {w}))
  BY DEF Editor!removeSelection, Editor!removeWidget
<1>2. PICK d \in EditorFine : Editor!mutateCanvas(d)
  <2>1. [canvas EXCEPT !.links = @ \ {selection.link}] \in EditorFine
    BY EditorFineFewer
  <2>2. \A ids : Editor!Without(canvas, ids) \in EditorFine
    BY EditorCanvasOpened, EditorFineWithout
  <2> QED BY <1>1, <2>1, <2>2
<1>3. EditorCore' /\ Editor!ChangesCanBeUndone
  BY <1>1, <1>2, EditorMutatesFine
<1> QED BY <1>1, <1>3, EditorTickIs DEF EditorInv, EditorSide

LEMMA EditorImageIsFinite ==
    ASSUME NEW S, IsFiniteSet(S), NEW f, S \subseteq DOMAIN f
    PROVE  IsFiniteSet({f[x] : x \in S})
<1> DEFINE T == {f[x] : x \in S}
           g == [x \in S |-> f[x]]
<1>1. g \in Surjection(S, T)
  BY DEF Surjection
<1> HIDE DEF g
<1> QED BY <1>1, FS_Surjection

LEMMA EditorCopiedIs ==
    ASSUME Editor!CanvasEditorAssumption, EditorInv
    PROVE  Editor!Copied \subseteq Editor!CanvasWidget /\ IsFiniteSet(Editor!Copied)
<1> DEFINE S == Editor!Present(selection.widgets)
<1>1. S \subseteq Editor!There /\ S \subseteq 1..MaxWidgets /\ Editor!There = DOMAIN canvas.widgets
  BY EditorCanvasOpened DEF Editor!Present, Editor!Id, Editor!There
<1>2. IsFiniteSet(S)
  <2>1. IsFiniteSet(1..MaxWidgets)
    BY FS_Interval DEF Editor!CanvasEditorAssumption
  <2> QED BY <1>1, <2>1, FS_Subset
<1>3. Editor!Copied = {canvas.widgets[w] : w \in S}
  BY DEF Editor!Copied
<1> HIDE DEF S
<1>4. IsFiniteSet(Editor!Copied)
  BY <1>1, <1>2, <1>3, EditorImageIsFinite
<1>5. Editor!Copied \subseteq Editor!CanvasWidget
  BY <1>1, <1>3, EditorCanvasOpened
<1> QED BY <1>4, <1>5

LEMMA EditorCopyInv ==
    ASSUME Editor!CanvasEditorAssumption, EditorInv, Editor!copySelection
    PROVE  EditorInv' /\ Editor!ChangesCanBeUndone
<1>1. /\ Editor!Pick /\ clipboard' = Editor!Copied
      /\ UNCHANGED <<open, canvas, stored, timer, undoStack, redoStack, historyEntries, tool, gesture, editorLate,
                     stray>>
  BY DEF Editor!copySelection, Editor!UnchangedHistory
<1>2. EditorCore' /\ Editor!ChangesCanBeUndone
  BY <1>1, EditorKeepsAll
<1> QED BY <1>1, <1>2, EditorCopiedIs, EditorPickIs DEF EditorInv, EditorSide

LEMMA EditorCardinality == ASSUME NEW S PROVE Editor!Cardinality(S) = Cardinality(S)
BY DEF Editor!Cardinality, Cardinality

LEMMA EditorInOrder == ASSUME NEW S, IsFiniteSet(S) PROVE Editor!SetToSeq(S) \in Seq(S)
<1> DEFINE n == Editor!Cardinality(S)
<1>1. n \in Nat /\ ExistsBijection(1..n, S)
  BY FS_CardinalityType, EditorCardinality
<1>2. PICK f : f \in Bijection(1..n, S)
  BY <1>1 DEF ExistsBijection
<1>3. f \in [1..n -> S] /\ Editor!IsInjective(f)
  BY <1>2 DEF Bijection, Injection, Surjection, IsInjective, Editor!IsInjective
<1>4. Editor!SetToSeq(S) \in [1..n -> S]
  BY <1>3 DEF Editor!SetToSeq
<1> HIDE DEF n
<1> QED BY <1>1, <1>4

LEMMA EditorPasteIs ==
    ASSUME Editor!CanvasEditorAssumption, EditorInv, NEW copies,
           copies \subseteq Editor!CanvasWidget, IsFiniteSet(copies),
           Editor!Paste(copies)
    PROVE  EditorCore' /\ Editor!ChangesCanBeUndone /\ editorCount' \in EditorCounts /\ UNCHANGED <<tool, editorLate>>
<1> DEFINE f == [v \in copies |-> [v EXCEPT !.locked = FALSE]]
           S == {f[v] : v \in copies}
<1>1. /\ Editor!Make(Editor!SetToSeq(S)) /\ UNCHANGED <<open, stored, gesture, stray, tool, editorLate>>
  <2>1. S = {[v EXCEPT !.locked = FALSE] : v \in copies}
    OBVIOUS
  <2> HIDE DEF S
  <2> QED BY <2>1 DEF Editor!Paste
<1>2. S \subseteq Editor!CanvasWidget
  BY DEF Editor!CanvasWidget
<1>3. IsFiniteSet(S)
  <2>1. DOMAIN f = copies
    OBVIOUS
  <2> HIDE DEF f
  <2> QED BY <2>1, EditorImageIsFinite
<1> HIDE DEF S
<1>4. Editor!SetToSeq(S) \in Seq(Editor!CanvasWidget)
  BY <1>2, <1>3, EditorInOrder, EditorSeqWidens
<1> QED BY <1>1, <1>4, EditorMakeIs

LEMMA EditorPasteInv ==
    ASSUME Editor!CanvasEditorAssumption, EditorInv,
           Editor!pasteClipboard \/ Editor!duplicateSelection
    PROVE  EditorInv' /\ Editor!ChangesCanBeUndone
<1>1. PICK copies : copies \in {clipboard, Editor!Copied} /\ Editor!Paste(copies) /\ clipboard' \in {clipboard, Editor!Copied}
  BY DEF Editor!pasteClipboard, Editor!duplicateSelection
<1>2. copies \subseteq Editor!CanvasWidget /\ IsFiniteSet(copies)
  BY <1>1, EditorCopiedIs DEF EditorInv, EditorSide
<1>3. EditorCore' /\ Editor!ChangesCanBeUndone /\ editorCount' \in EditorCounts /\ UNCHANGED <<tool, editorLate>>
  BY <1>1, <1>2, EditorPasteIs
<1> QED BY <1>1, <1>3, EditorCopiedIs DEF EditorInv, EditorSide

LEMMA EditorRestoreInv ==
    ASSUME Editor!CanvasEditorAssumption, EditorInv, NEW i \in DOMAIN historyEntries,
           Editor!Restore(i)
    PROVE  EditorInv' /\ Editor!ChangesCanBeUndone
<1>1. /\ Editor!Tick /\ Editor!mutateCanvas(historyEntries[i])
      /\ UNCHANGED <<open, stored, tool, gesture, clipboard, editorLate, stray>>
  BY DEF Editor!Restore
<1>2. historyEntries[i] \in EditorFine
  <2>1. historyEntries \in Seq(EditorFine)
    BY DEF EditorInv, EditorCore
  <2> QED BY <2>1
<1>3. EditorCore' /\ Editor!ChangesCanBeUndone
  BY <1>1, <1>2, EditorMutatesFine
<1> QED BY <1>1, <1>3, EditorTickIs DEF EditorInv, EditorSide
-----------------------------------------------------------------------------
(* Undo and redo, the tools, the drags, the storage.                       *)
LEMMA EditorFineStays ==
    ASSUME stray' = stray
    PROVE  EditorFine' = EditorFine
BY DEF EditorFine, Editor!HasEnds, EditorCanvasState

LEMMA EditorHasLast ==
    ASSUME NEW s, NEW x, \E i \in DOMAIN s : s[i] = x
    PROVE  x \in Editor!Range(s)
BY DEF Editor!Range

\* What is common to undo, redo, the moves of a drag and the wheel.
LEMMA EditorReplacesIs ==
    ASSUME EditorInv, NEW d \in EditorFine, Editor!setCanvasDirect(d), UNCHANGED <<open, stored,
           stray>>,
           undoStack' \in Seq(EditorFine), redoStack' \in Seq(EditorFine), historyEntries' \in Seq(EditorFine),
           Len(undoStack') <= Keep, Len(redoStack') <= Keep, Len(historyEntries') <= Keep,
           gesture' = gesture \/ (gesture # NoneYet /\ gesture' = [gesture EXCEPT !.moved = TRUE])
    PROVE  EditorCore'
<1>1. EditorFine' = EditorFine /\ canvas' = d /\ timer' = "running" /\ Editor!loadCanvas' = Editor!loadCanvas
  BY EditorFineStays DEF Editor!setCanvasDirect, Editor!loadCanvas
<1>2. (gesture # NoneYet => EditorGestureIsFine)'
  <2>1. CASE gesture' = gesture
    BY <1>1, <2>1 DEF EditorInv, EditorCore, EditorGestureIsFine
  <2>2. CASE gesture # NoneYet /\ gesture' = [gesture EXCEPT !.moved = TRUE]
    <3>1. PICK k, o, b, m : gesture = [kind |-> k, of |-> o, before |-> b, moved |-> m] /\ b \in EditorFine
      BY <2>2 DEF EditorInv, EditorCore, EditorGestureIsFine
    <3>2. gesture' = [kind |-> k, of |-> o, before |-> b, moved |-> TRUE]
      BY <2>2, <3>1
    <3> QED BY <1>1, <3>1, <3>2 DEF EditorGestureIsFine
  <2> QED BY <2>1, <2>2
<1>3. Editor!SavedIsStored'
  BY <1>1 DEF Editor!SavedIsStored
<1> QED BY <1>1, <1>2, <1>3 DEF EditorInv, EditorCore

LEMMA EditorUndoInv ==
    ASSUME Editor!CanvasEditorAssumption, EditorInv, Editor!undo \/ Editor!redo
    PROVE  EditorInv' /\ Editor!ChangesCanBeUndone
<1>0. /\ undoStack \in Seq(EditorFine) /\ redoStack \in Seq(EditorFine) /\ historyEntries \in Seq(EditorFine) /\ canvas \in EditorFine
      /\ Len(undoStack) <= Keep /\ Len(redoStack) <= Keep /\ Len(historyEntries) <= Keep
      /\ Len(undoStack) \in Nat /\ Len(redoStack) \in Nat /\ Keep \in Nat
  BY DEF EditorInv, EditorCore, Editor!CanvasEditorAssumption
<1>1. /\ UNCHANGED <<open, stored, historyEntries, tool, gesture, clipboard, editorLate, stray>>
      /\ editorCount' = editorCount \/ Editor!Pick
  BY DEF Editor!undo, Editor!redo
<1>2. CASE Editor!undo
  <2>1. /\ undoStack # <<>> /\ redoStack' = Editor!Last50(Append(redoStack, canvas))
        /\ Editor!setCanvasDirect(Editor!Last(undoStack)) /\ undoStack' = Editor!Front(undoStack)
    BY <1>2 DEF Editor!undo
  <2>2. /\ redoStack' \in Seq(EditorFine) /\ Len(redoStack') <= Keep
        /\ \E i \in DOMAIN redoStack' : redoStack'[i] = canvas
    BY <1>0, <2>1, EditorPushed
  <2>3. Editor!Last(undoStack) \in EditorFine /\ undoStack' \in Seq(EditorFine) /\ Len(undoStack') <= Len(undoStack)
    BY <1>0, <2>1, EditorPopped
  <2>4. Len(undoStack') <= Keep
    BY <1>0, <2>3
  <2>5. EditorCore'
    BY <1>0, <1>1, <2>1, <2>2, <2>3, <2>4, EditorReplacesIs
  <2>6. canvas \in Editor!Kept'
    BY <2>2 DEF Editor!Kept, Editor!Range
  <2>7. Editor!ChangesCanBeUndone
    BY <1>1, <2>6 DEF Editor!ChangesCanBeUndone
  <2> QED BY <1>1, <2>5, <2>7, EditorPickIs DEF EditorInv, EditorSide
<1>3. CASE Editor!redo
  <2>1. /\ redoStack # <<>> /\ undoStack' = Editor!Last50(Append(undoStack, canvas))
        /\ Editor!setCanvasDirect(Editor!Last(redoStack)) /\ redoStack' = Editor!Front(redoStack)
    BY <1>3 DEF Editor!redo
  <2>2. /\ undoStack' \in Seq(EditorFine) /\ Len(undoStack') <= Keep
        /\ \E i \in DOMAIN undoStack' : undoStack'[i] = canvas
    BY <1>0, <2>1, EditorPushed
  <2>3. Editor!Last(redoStack) \in EditorFine /\ redoStack' \in Seq(EditorFine) /\ Len(redoStack') <= Len(redoStack)
    BY <1>0, <2>1, EditorPopped
  <2>4. Len(redoStack') <= Keep
    BY <1>0, <2>3
  <2>5. EditorCore'
    BY <1>0, <1>1, <2>1, <2>2, <2>3, <2>4, EditorReplacesIs
  <2>6. canvas \in Editor!Kept'
    BY <2>2 DEF Editor!Kept, Editor!Range
  <2>7. Editor!ChangesCanBeUndone
    BY <1>1, <2>6 DEF Editor!ChangesCanBeUndone
  <2> QED BY <1>1, <2>5, <2>7, EditorPickIs DEF EditorInv, EditorSide
<1> QED BY <1>2, <1>3

LEMMA EditorSelectInv ==
    ASSUME EditorInv, Editor!SelectSome
    PROVE  EditorInv' /\ Editor!ChangesCanBeUndone
<1>1. /\ Editor!Pick
      /\ UNCHANGED <<open, canvas, stored, timer, undoStack, redoStack, historyEntries, tool, gesture,
                     clipboard, editorLate, stray>>
  BY DEF Editor!SelectSome, Editor!Select, Editor!UnchangedHistory
<1>2. EditorCore' /\ Editor!ChangesCanBeUndone
  BY <1>1, EditorKeepsAll
<1> QED BY <1>1, <1>2, EditorPickIs DEF EditorInv, EditorSide

LEMMA EditorToolInv ==
    ASSUME EditorInv,
           \/ \E name \in {"select", "hand", "connector", "comment"} : Editor!Tool(name)
           \/ \E w \in Editor!There : Editor!PickSource(w)
    PROVE  EditorInv' /\ Editor!ChangesCanBeUndone
<1>1. /\ editorCount' = editorCount \/ Editor!Pick
      /\ UNCHANGED <<open, canvas, stored, timer, undoStack, redoStack, historyEntries, gesture,
                     clipboard, editorLate, stray>>
  BY DEF Editor!Tool, Editor!PickSource, Editor!UnchangedHistory
<1>2. EditorCore' /\ Editor!ChangesCanBeUndone
  BY <1>1, EditorKeepsAll
<1>3. tool' \in EditorTools
  <2>1. CASE \E name \in {"select", "hand", "connector", "comment"} : Editor!Tool(name)
    BY <2>1, EditorCanvasOpened DEF Editor!Tool, EditorTools
  <2>2. CASE \E w \in Editor!There : Editor!PickSource(w)
    BY <2>2, EditorCanvasOpened DEF Editor!PickSource, EditorTools
  <2> QED BY <2>1, <2>2
<1> QED BY <1>1, <1>2, <1>3, EditorPickIs DEF EditorInv, EditorSide

LEMMA EditorConnectInv ==
    ASSUME Editor!CanvasEditorAssumption, EditorInv, NEW w \in Editor!There, Editor!Connect(w)
    PROVE  EditorInv' /\ Editor!ChangesCanBeUndone
<1> DEFINE drawn == <<tool.source, w>>
<1>1. /\ Editor!Tick /\ tool.source # NoneYet /\ UNCHANGED <<open, stored, gesture, clipboard, editorLate>>
      /\ tool' = [name |-> IF tool.source = w THEN "connector" ELSE "select", source |-> NoneYet]
  BY DEF Editor!Connect
<1>2. tool' \in EditorTools /\ editorCount' \in EditorCounts
  BY <1>1, EditorTickIs DEF EditorInv, EditorSide, EditorTools
<1>3. EditorCore' /\ Editor!ChangesCanBeUndone
  <2>1. CASE tool.source = w \/ drawn \in canvas.links
    <3>1. UNCHANGED <<open, canvas, stored, timer, stray, undoStack, redoStack, historyEntries, gesture>>
      BY <2>1 DEF Editor!Connect, Editor!UnchangedHistory
    <3> QED BY <3>1, EditorKeepsAll
  <2>2. CASE ~(tool.source = w \/ drawn \in canvas.links)
    <3>1. Editor!mutateCanvas([canvas EXCEPT !.links = @ \cup {drawn}]) /\ stray' = (stray \/ tool.source \notin Editor!There)
      BY <2>2 DEF Editor!Connect
    <3>2. tool.source \in Editor!Id /\ w \in Editor!Id
      BY <1>1, EditorCanvasOpened DEF EditorTools
    <3>3. PICK ls : ls = canvas.links \cup {drawn}
      OBVIOUS
    <3>4. ls \in SUBSET (Editor!Id \X Editor!Id)
      BY <3>2, <3>3, EditorCanvasOpened
    <3>5. Editor!HasEnds(canvas) /\ tool.source \in Editor!There => \A l \in ls : {l[1], l[2]} \subseteq DOMAIN canvas.widgets
      BY <3>3 DEF Editor!HasEnds, Editor!There
    <3>6. /\ [canvas EXCEPT !.links = ls] \in EditorCanvasState
          /\ Editor!HasEnds(canvas) /\ tool.source \in Editor!There => Editor!HasEnds([canvas EXCEPT !.links = ls])
      BY <3>4, <3>5, EditorCanvasOpened, EditorOthersIs
    <3>7. stray \in BOOLEAN /\ (stray \/ Editor!HasEnds(canvas))
      BY DEF EditorInv, EditorCore, EditorFine
    <3>8. stray' \in BOOLEAN /\ (stray => stray') /\ (stray' \/ (~stray /\ tool.source \in Editor!There))
      BY <3>1, <3>7
    <3>9. [canvas EXCEPT !.links = ls] \in EditorFine'
      <4>1. EditorCanvasState' = EditorCanvasState /\ \A c : Editor!HasEnds(c) <=> Editor!HasEnds(c)'
        BY DEF EditorCanvasState, Editor!HasEnds
      <4>2. stray' \/ Editor!HasEnds([canvas EXCEPT !.links = ls])
        BY <3>6, <3>7, <3>8
      <4> QED BY <3>6, <4>1, <4>2 DEF EditorFine
    <3> QED BY <1>1, <3>1, <3>3, <3>8, <3>9, EditorMutates
  <2> QED BY <2>1, <2>2
<1> QED BY <1>1, <1>2, <1>3 DEF EditorInv, EditorSide

LEMMA EditorBeginInv ==
    ASSUME EditorInv, NEW kind, NEW of, Editor!Begin(kind, of)
    PROVE  EditorInv' /\ Editor!ChangesCanBeUndone
<1>1. /\ Editor!Tick /\ gesture = NoneYet
      /\ gesture' = [kind |-> kind, of |-> of, before |-> canvas, moved |-> FALSE]
      /\ UNCHANGED <<open, canvas, stored, timer, undoStack, redoStack, historyEntries, tool, clipboard, editorLate,
                     stray>>
  BY DEF Editor!Begin, Editor!Pointer, Editor!UnchangedHistory
<1>2. EditorCore' /\ Editor!ChangesCanBeUndone
  BY <1>1, EditorKeepsAll
<1> QED BY <1>1, <1>2, EditorTickIs DEF EditorInv, EditorSide

LEMMA EditorStartInv ==
    ASSUME EditorInv,
           \/ Editor!startPan
           \/ \E w : Editor!startResize(w) \/ \E inside : Editor!startWidgetDrag(w, inside)
           \/ \E k : Editor!startCommentDrag(k)
    PROVE  EditorInv' /\ Editor!ChangesCanBeUndone
<1>1. \E kind, of : Editor!Begin(kind, of)
  BY DEF Editor!startPan, Editor!startResize, Editor!startWidgetDrag, Editor!startCommentDrag
<1> QED BY <1>1, EditorBeginInv

LEMMA EditorMoveInv ==
    ASSUME EditorInv, NEW look \in Editor!Look, Editor!onStagePointerMove(look)
    PROVE  EditorInv' /\ Editor!ChangesCanBeUndone
<1>1. /\ open /\ gesture # NoneYet /\ Editor!setCanvasDirect(Editor!Moved(gesture, look))
      /\ gesture' = [gesture EXCEPT !.moved = TRUE] /\ Editor!UnchangedHistory
      /\ UNCHANGED <<open, stored, undoStack, redoStack, historyEntries, tool, clipboard, editorLate, stray, editorCount>>
  BY DEF Editor!onStagePointerMove, Editor!UnchangedHistory
<1>2. gesture.before \in EditorFine /\ gesture.moved \in BOOLEAN
      /\ gesture = [kind |-> gesture.kind, of |-> gesture.of, before |-> gesture.before, moved |-> gesture.moved]
  BY <1>1 DEF EditorInv, EditorCore, EditorGestureIsFine
<1>3. Editor!Moved(gesture, look) \in EditorFine
  BY <1>2, EditorMoves
<1>4. EditorCore'
  BY <1>1, <1>3, EditorReplacesIs DEF EditorInv, EditorCore
<1>5. gesture.moved => gesture' # NoneYet
  <2> SUFFICES ASSUME gesture.moved PROVE gesture' = gesture
    BY <1>1
  <2>1. gesture.moved = TRUE
    BY <1>2
  <2>2. PICK k, o, b, m : gesture = [kind |-> k, of |-> o, before |-> b, moved |-> m]
    BY <1>2
  <2>3. m = TRUE
    BY <2>1, <2>2
  <2> QED BY <1>1, <2>2, <2>3
<1>6. canvas' = Editor!Moved(gesture, look)
  BY <1>1 DEF Editor!setCanvasDirect
<1>7. Editor!ChangesCanBeUndone
  BY <1>1, <1>5, <1>6 DEF Editor!ChangesCanBeUndone
<1> QED BY <1>1, <1>4, <1>7 DEF EditorInv, EditorSide

LEMMA EditorUpInv ==
    ASSUME Editor!CanvasEditorAssumption, EditorInv, Editor!onStagePointerUp
    PROVE  EditorInv' /\ Editor!ChangesCanBeUndone
<1>1. /\ open /\ gesture # NoneYet /\ gesture' = NoneYet /\ UNCHANGED <<canvas, timer>>
      /\ IF gesture.moved THEN Editor!recordChange(gesture.before) ELSE Editor!UnchangedHistory
      /\ UNCHANGED <<open, stored, tool, clipboard, editorLate, stray, editorCount>>
  BY DEF Editor!onStagePointerUp
<1>2. gesture.before \in EditorFine /\ gesture.moved \in BOOLEAN
  BY <1>1 DEF EditorInv, EditorCore, EditorGestureIsFine
<1>3. EditorFine' = EditorFine /\ Editor!loadCanvas' = Editor!loadCanvas /\ Editor!SavedIsStored'
  BY <1>1, EditorFineStays DEF EditorInv, EditorCore, Editor!SavedIsStored, Editor!loadCanvas
<1>4. CASE gesture.moved
  <2>1. /\ redoStack' = <<>> /\ undoStack' = Editor!Last50(Append(undoStack, gesture.before))
        /\ historyEntries' = Editor!First50(<<canvas>> \o historyEntries)
    BY <1>1, <1>4 DEF Editor!recordChange
  <2>2. /\ undoStack' \in Seq(EditorFine) /\ Len(undoStack') <= Keep
        /\ \E i \in DOMAIN undoStack' : undoStack'[i] = gesture.before
    <3>1. undoStack \in Seq(EditorFine)
      BY DEF EditorInv, EditorCore
    <3> QED BY <1>2, <2>1, <3>1, EditorPushed
  <2>3. historyEntries' \in Seq(EditorFine) /\ Len(historyEntries') <= Keep
    BY <2>1, EditorNoted DEF EditorInv, EditorCore
  <2>4. redoStack' \in Seq(EditorFine) /\ Len(redoStack') <= Keep
    BY <2>1 DEF Editor!CanvasEditorAssumption
  <2>5. EditorCore'
    BY <1>1, <1>3, <2>2, <2>3, <2>4 DEF EditorInv, EditorCore
  <2>6. gesture.before \in Editor!Kept'
    BY <2>2 DEF Editor!Kept, Editor!Range
  <2>7. Editor!ChangesCanBeUndone
    BY <1>1, <2>6 DEF Editor!ChangesCanBeUndone
  <2> QED BY <1>1, <2>5, <2>7 DEF EditorInv, EditorSide
<1>5. CASE ~gesture.moved
  <2>1. UNCHANGED <<undoStack, redoStack, historyEntries>>
    BY <1>1, <1>5 DEF Editor!UnchangedHistory
  <2>2. EditorCore'
    BY <1>1, <1>3, <2>1 DEF EditorInv, EditorCore
  <2>3. Editor!ChangesCanBeUndone
    BY <1>1, <1>5 DEF Editor!ChangesCanBeUndone
  <2> QED BY <1>1, <2>2, <2>3 DEF EditorInv, EditorSide
<1> QED BY <1>4, <1>5

LEMMA EditorWheelInv ==
    ASSUME EditorInv, Editor!onWheel
    PROVE  EditorInv' /\ Editor!ChangesCanBeUndone
<1> DEFINE d == [canvas EXCEPT !.view = 1 - @]
<1>1. /\ Editor!Tick /\ Editor!setCanvasDirect(d)
      /\ UNCHANGED <<open, stored, undoStack, redoStack, historyEntries, tool, gesture, clipboard, editorLate, stray>>
  BY DEF Editor!onWheel, Editor!UnchangedHistory
<1>2. 1 - canvas.view \in Editor!Look
  BY EditorCanvasOpened DEF Editor!Look
<1>3. d \in EditorCanvasState /\ (Editor!HasEnds(canvas) => Editor!HasEnds(d))
  <2>1. /\ [canvas EXCEPT !.view = 1 - canvas.view] \in EditorCanvasState
        /\ Editor!HasEnds(canvas) => Editor!HasEnds([canvas EXCEPT !.view = 1 - canvas.view])
    BY <1>2, EditorCanvasOpened, EditorOthersIs
  <2> QED BY <2>1
<1>4. Editor!Content(d) = Editor!Content(canvas)
  <2>1. canvas = EditorCanvasof(canvas.widgets, canvas.links, canvas.comments, canvas.view)
    BY EditorCanvasOpened, EditorOpened
  <2>2. d = EditorCanvasof(canvas.widgets, canvas.links, canvas.comments, 1 - canvas.view)
    BY <2>1 DEF EditorCanvasof
  <2> HIDE DEF d
  <2>3. d.widgets = canvas.widgets /\ d.links = canvas.links /\ d.comments = canvas.comments
    BY <2>2 DEF EditorCanvasof
  <2> QED BY <2>3 DEF Editor!Content
<1> HIDE DEF d
<1>5. d \in EditorFine
  BY <1>3, EditorCanvasOpened, EditorFineIs
<1>6. EditorCore'
  BY <1>1, <1>5, EditorReplacesIs DEF EditorInv, EditorCore
<1>7. canvas' = d /\ Editor!Content(canvas') = Editor!Content(canvas)
  BY <1>1, <1>4 DEF Editor!setCanvasDirect
<1>8. Editor!ChangesCanBeUndone
  BY <1>1, <1>7 DEF Editor!ChangesCanBeUndone
<1> QED BY <1>1, <1>6, <1>8, EditorTickIs DEF EditorInv, EditorSide

LEMMA EditorSaveInv ==
    ASSUME EditorInv, NEW ok \in BOOLEAN, Editor!saveCanvas(ok)
    PROVE  EditorInv' /\ Editor!ChangesCanBeUndone
<1>1. /\ timer' = (IF ok THEN "saved" ELSE "failed") /\ stored' = (IF ok THEN canvas ELSE stored)
      /\ editorCount' = [editorCount EXCEPT !.saves = @ + 1]
      /\ UNCHANGED <<open, canvas, undoStack, redoStack, historyEntries, tool, gesture, clipboard, editorLate, stray>>
  BY DEF Editor!saveCanvas, Editor!UnchangedHistory
<1>2. EditorFine' = EditorFine /\ (gesture # NoneYet => EditorGestureIsFine)'
  BY <1>1, EditorFineStays DEF EditorInv, EditorCore, EditorGestureIsFine
<1>3. Editor!loadCanvas' \in EditorFine
  BY <1>1, EditorEmptyIs DEF EditorInv, EditorCore, Editor!loadCanvas, EditorFine
<1>4. Editor!SavedIsStored'
  BY <1>1 DEF Editor!SavedIsStored
<1>5. EditorCore'
  BY <1>1, <1>2, <1>3, <1>4 DEF EditorInv, EditorCore
<1>6. Editor!ChangesCanBeUndone
  BY <1>1 DEF Editor!ChangesCanBeUndone
<1>7. editorCount' \in EditorCounts
  BY <1>1 DEF EditorInv, EditorSide, EditorCounts
<1> QED BY <1>1, <1>5, <1>6, <1>7 DEF EditorInv, EditorSide

LEMMA EditorNothingKept ==
    ASSUME undoStack' = <<>>, redoStack' = <<>>, historyEntries' = <<>>
    PROVE  Editor!Kept' = {}
BY DEF Editor!Kept, Editor!Range

LEMMA EditorResetInv ==
    ASSUME Editor!CanvasEditorAssumption, EditorInv, Editor!Reset \/ Editor!Leave \/ Editor!Open
    PROVE  EditorInv' /\ Editor!ChangesCanBeUndone
<1>1. /\ undoStack' = <<>> /\ redoStack' = <<>> /\ historyEntries' = <<>> /\ UNCHANGED <<gesture, stray>>
      /\ canvas' \in {Editor!EmptyCanvas, Editor!loadCanvas} /\ stored' \in {stored, NoneYet}
      /\ open' \in BOOLEAN /\ timer' \in {"running", "saved"} /\ (open' => timer' = "running")
      /\ editorCount' = editorCount \/ Editor!Tick
      /\ tool' = tool \/ tool' = [name |-> "select", source |-> NoneYet]
      /\ clipboard' \in {clipboard, {}} /\ editorLate' \in {editorLate, {}}
      /\ ~open \/ canvas' = Editor!EmptyCanvas
  <2>1. CASE Editor!Reset
    BY <2>1 DEF Editor!Reset, Editor!setCanvasDirect, EditorInv, EditorCore
  <2>2. CASE Editor!Leave
    BY <2>2 DEF Editor!Leave, Editor!Discarded
  <2>3. CASE Editor!Open
    BY <2>3 DEF Editor!Open, Editor!Discarded, Editor!setCanvasDirect
  <2> QED BY <2>1, <2>2, <2>3
<1>2. EditorFine' = EditorFine /\ Editor!EmptyCanvas \in EditorFine
  BY <1>1, EditorFineStays, EditorEmptyIs DEF EditorFine
<1>3. canvas' \in EditorFine /\ Editor!loadCanvas' \in EditorFine
  BY <1>1, <1>2 DEF EditorInv, EditorCore, Editor!loadCanvas
<1>4. (gesture # NoneYet => EditorGestureIsFine)'
  BY <1>1, <1>2 DEF EditorInv, EditorCore, EditorGestureIsFine
<1>5. <<>> \in Seq(EditorFine) /\ Len(<<>>) = 0 /\ Keep \in Nat
  BY DEF Editor!CanvasEditorAssumption
<1>6. Editor!SavedIsStored'
  BY <1>1 DEF Editor!SavedIsStored
<1>7. EditorCore'
  BY <1>1, <1>2, <1>3, <1>4, <1>5, <1>6 DEF EditorInv, EditorCore
<1>8. Editor!ChangesCanBeUndone
  BY <1>1, EditorNothingKept DEF Editor!ChangesCanBeUndone
<1>9. tool' \in EditorTools /\ editorCount' \in EditorCounts
  BY <1>1, EditorTickIs DEF EditorInv, EditorSide, EditorTools
<1>10. clipboard' \subseteq Editor!CanvasWidget /\ IsFiniteSet(clipboard') /\ editorLate' \subseteq [of : Editor!Id, data : Editor!Data]
  BY <1>1, FS_EmptySet DEF EditorInv, EditorSide
<1> QED BY <1>7, <1>8, <1>9, <1>10 DEF EditorInv, EditorSide

LEMMA EditorStep ==
    ASSUME Editor!CanvasEditorAssumption, EditorInv, Editor!Next \/ UNCHANGED Editor!vars
    PROVE  EditorInv' /\ Editor!ChangesCanBeUndone
<1>1. CASE Editor!addWidget \/ Editor!dropFiles
  BY <1>1, EditorAddWidgetInv
<1>2. CASE Editor!layerSelection
  BY <1>2, EditorLayerInv
<1>3. CASE Editor!groupSelection
  BY <1>3, EditorGroupInv
<1>4. CASE Editor!removeSelection
  BY <1>4, EditorRemoveInv
<1>5. CASE Editor!copySelection
  BY <1>5, EditorCopyInv
<1>6. CASE Editor!pasteClipboard \/ Editor!duplicateSelection
  BY <1>6, EditorPasteInv
<1>7. CASE Editor!undo \/ Editor!redo
  BY <1>7, EditorUndoInv
<1>8. CASE Editor!SelectSome
  BY <1>8, EditorSelectInv
<1>9. CASE Editor!startPan
  BY <1>9, EditorStartInv
<1>10. CASE Editor!onStagePointerUp
  BY <1>10, EditorUpInv
<1>11. CASE Editor!onWheel
  BY <1>11, EditorWheelInv
<1>12. CASE Editor!Reset \/ Editor!Leave \/ Editor!Open
  BY <1>12, EditorResetInv
<1>13. ASSUME NEW w \in Editor!There,
              \/ (\E text \in 0..1 : Editor!Type(w, text)) \/ Editor!Lock(w) \/ Editor!Collapse(w) \/ Editor!loadFile(w) \/ Editor!removeWidget(w)
              \/ (\E connected \in BOOLEAN : Editor!submit(w, connected))
              \/ Editor!selectWidget(w) \/ Editor!startResize(w)
              \/ (\E inside \in {{}, Editor!There} : Editor!startWidgetDrag(w, inside))
       PROVE  EditorInv' /\ Editor!ChangesCanBeUndone
  <2>1. CASE (\E text \in 0..1 : Editor!Type(w, text)) \/ Editor!Lock(w) \/ Editor!Collapse(w)
    BY <2>1, EditorWidgetMenuInv
  <2>2. CASE Editor!loadFile(w)
    BY <2>2, EditorLoadFileInv
  <2>3. CASE Editor!removeWidget(w)
    BY <2>3, EditorRemoveInv
  <2>4. CASE \E connected \in BOOLEAN : Editor!submit(w, connected)
    BY <2>4, EditorSubmitInv
  <2>5. CASE Editor!selectWidget(w)
    BY <2>5, EditorToolInv, EditorConnectInv, EditorAddCommentInv DEF Editor!selectWidget
  <2>6. CASE Editor!startResize(w)
    BY <2>6, EditorStartInv
  <2>7. CASE \E inside \in {{}, Editor!There} : Editor!startWidgetDrag(w, inside)
    BY <2>7, EditorStartInv
  <2> QED BY <1>13, <2>1, <2>2, <2>3, <2>4, <2>5, <2>6, <2>7
<1>14. CASE \E a \in editorLate : Editor!Arrive(a)
  BY <1>14, EditorArriveInv
<1>15. CASE tool.name = "comment" /\ Editor!addComment(NoneYet)
  BY <1>15, EditorAddCommentInv
<1>16. ASSUME NEW k \in DOMAIN canvas.comments,
              Editor!startCommentDrag(k) \/ (\E deleted \in BOOLEAN : Editor!updateComment(k, deleted))
       PROVE  EditorInv' /\ Editor!ChangesCanBeUndone
  BY <1>16, EditorStartInv, EditorUpdateCommentInv
<1>17. CASE \E i \in DOMAIN historyEntries : Editor!Restore(i)
  BY <1>17, EditorRestoreInv
<1>18. CASE \E name \in {"select", "hand", "connector", "comment"} : Editor!Tool(name)
  BY <1>18, EditorToolInv
<1>19. CASE \E look \in Editor!Look : Editor!onStagePointerMove(look)
  BY <1>19, EditorMoveInv
<1>20. CASE \E ok \in BOOLEAN : Editor!saveCanvas(ok)
  BY <1>20, EditorSaveInv
<1>21. CASE UNCHANGED Editor!vars
  <2>1. UNCHANGED <<open, canvas, stored, timer, stray, undoStack, redoStack, historyEntries, gesture, tool,
                    clipboard, editorLate, editorCount>>
    BY <1>21 DEF Editor!vars
  <2>2. EditorCore' /\ Editor!ChangesCanBeUndone
    BY <2>1, EditorKeepsAll
  <2> QED BY <2>1, <2>2 DEF EditorInv, EditorSide
<1> QED BY <1>1, <1>2, <1>3, <1>4, <1>5, <1>6, <1>7, <1>8, <1>9, <1>10, <1>11, <1>12, <1>13,
           <1>14,
           <1>15, <1>16, <1>17, <1>18, <1>19, <1>20, <1>21 DEF Editor!Next

LEMMA EditorInit == ASSUME Editor!CanvasEditorAssumption, Editor!Init PROVE EditorInv
<1>1. /\ open = TRUE /\ stored \in StoredCanvas /\ canvas = Editor!loadCanvas /\ timer = "running"
      /\ undoStack = <<>> /\ redoStack = <<>> /\ historyEntries = <<>> /\ stray = FALSE
      /\ gesture = NoneYet /\ clipboard = {} /\ editorLate = {} /\ tool = [name |-> "select", source |-> NoneYet]
      /\ editorCount = [widgets |-> Editor!Cardinality(DOMAIN canvas.widgets),
                  comments |-> Editor!Cardinality(DOMAIN canvas.comments), acts |-> 0, picks |-> 0, saves |-> 0]
  BY DEF Editor!Init
<1>2. canvas \in EditorFine
  <2>1. CASE stored = NoneYet
    BY <1>1, <2>1, EditorEmptyIs DEF EditorFine, Editor!loadCanvas
  <2>2. CASE stored # NoneYet
    BY <1>1, <2>2, EditorCanvasIs DEF EditorFine, Editor!loadCanvas,
       Editor!CanvasEditorAssumption
  <2> QED BY <2>1, <2>2
<1>3. <<>> \in Seq(EditorFine) /\ Len(<<>>) = 0 /\ Keep \in Nat /\ MaxWidgets \in Nat /\ MaxComments \in Nat
  BY DEF Editor!CanvasEditorAssumption
<1>4. EditorCore
  <2>1. Editor!SavedIsStored
    BY <1>1 DEF Editor!SavedIsStored
  <2>2. Editor!loadCanvas \in EditorFine
    BY <1>1, <1>2
  <2>3. undoStack \in Seq(EditorFine) /\ redoStack \in Seq(EditorFine) /\ historyEntries \in Seq(EditorFine)
    BY <1>1, <1>3
  <2>4. Len(undoStack) <= Keep /\ Len(redoStack) <= Keep /\ Len(historyEntries) <= Keep
    BY <1>1, <1>3
  <2>5. gesture # NoneYet => EditorGestureIsFine
    BY <1>1
  <2>6. open \in BOOLEAN /\ stray \in BOOLEAN
    BY <1>1
  <2> QED BY <1>2, <2>1, <2>2, <2>3, <2>4, <2>5, <2>6 DEF EditorCore
<1>5. DOMAIN canvas.widgets \subseteq 1..MaxWidgets /\ DOMAIN canvas.comments \subseteq 1..MaxComments
  BY <1>2, EditorOpened DEF EditorFine, Editor!Id
<1>6. ASSUME NEW m \in Nat, NEW S, S \subseteq 1..m PROVE Editor!Cardinality(S) \in 0..m
  <2>1. IsFiniteSet(1..m) /\ Cardinality(1..m) = m
    BY FS_Interval
  <2>2. Cardinality(S) \in Nat /\ Cardinality(S) <= Cardinality(1..m)
    BY <1>6, <2>1, FS_Subset, FS_CardinalityType
  <2> QED BY <2>1, <2>2, EditorCardinality
<1>7. editorCount \in EditorCounts
  <2>1. Editor!Cardinality(DOMAIN canvas.widgets) \in 0..MaxWidgets /\ Editor!Cardinality(DOMAIN canvas.comments) \in 0..MaxComments
    BY <1>3, <1>5, <1>6
  <2> QED BY <1>1, <2>1 DEF EditorCounts
<1>8. tool \in EditorTools /\ IsFiniteSet({})
  BY <1>1, FS_EmptySet DEF EditorTools
<1> QED BY <1>1, <1>4, <1>7, <1>8 DEF EditorInv, EditorSide

LEMMA EditorHolds == ASSUME EditorInv' PROVE Editor!EndsAreThere' /\ Editor!SavedIsStored'
<1>1. ASSUME ~stray', NEW c \in {canvas', Editor!loadCanvas'} \cup Editor!Kept' PROVE Editor!HasEnds(c)'
  <2>1. c \in EditorFine'
    <3>1. ASSUME NEW s \in Seq(EditorFine'), NEW i \in DOMAIN s PROVE s[i] \in EditorFine'
      OBVIOUS
    <3> QED BY <3>1 DEF EditorInv, EditorCore, Editor!Kept, Editor!Range
  <2> QED BY <1>1, <2>1 DEF EditorFine
<1> QED BY <1>1 DEF Editor!EndsAreThere, EditorInv, EditorCore

(***************************************************************************)
(* The workspace of the embedded plane, for any users, browsers, snapshots *)
(* and bound on the changes: in every reachable state and through every    *)
(* step, the audit ledger alone gives the versions, the revisions and the  *)
(* members, there is an owner, a stream that is open has been sent what    *)
(* the ledger says, and a new version keeps what its author has seen       *)
(* (IndustrialDataStore.saveWorkspace(), applyOperations(), setMember(),   *)
(* streamEvents()).                                                        *)
(***************************************************************************)
THEOREM EmbeddedCanvasFollowsLedger == WebSpec => CanvasFollowsLedger
<1> DEFINE I == webPart = "canvas" => Canvas!LocalWorkspaceInv
<1>1. WebInit => I
  BY CanvasInit DEF WebInit
<1>2. I /\ [WebNext]_webVars =>
         /\ I'
         /\ [webPart = "canvas" /\ ~UNCHANGED <<canvasRole, canvasVersion, canvasSnapshot,
                                               canvasRevisions, audit, canvasStream>> =>
               /\ Canvas!LedgerTellsWorkspace' /\ Canvas!StreamsFollowLedger'
               /\ Canvas!KeepsEdits]_canvasVars
  <2> SUFFICES ASSUME I, [WebNext]_webVars
               PROVE  /\ I'
                      /\ webPart = "canvas" =>
                            /\ Canvas!LedgerTellsWorkspace' /\ Canvas!StreamsFollowLedger'
                            /\ Canvas!KeepsEdits
    OBVIOUS
  <2>1. webPart' = webPart
    BY DEF WebNext, webVars
  <2>2. ASSUME webPart = "canvas" PROVE Canvas!LocalWorkspaceInv' /\ Canvas!KeepsEdits
    <3>1. Canvas!LocalWorkspaceInv
      BY <2>2
    <3>2. Canvas!Next \/ UNCHANGED Canvas!vars
      BY <2>2 DEF WebNext, webVars, canvasVars, Canvas!vars, Canvas!document
    <3> QED BY <3>1, <3>2, CanvasStep, CanvasKeepsEdits
  <2>3. Canvas!LocalWorkspaceInv' => Canvas!LedgerTellsWorkspace' /\ Canvas!StreamsFollowLedger'
    BY DEF Canvas!LocalWorkspaceInv
  <2> QED BY <2>1, <2>2, <2>3
<1> QED BY <1>1, <1>2, PTL DEF WebSpec, CanvasFollowsLedger

(***************************************************************************)
(* The canvas of the web application, for any stored canvases, limits and  *)
(* numbers of widgets and of actions: however drags, keys, undo, late      *)
(* files and answers interleave, the canvas and every copy that can come   *)
(* back join only widgets they have, unless a connector was drawn from a   *)
(* removed widget, "Saved" is said of what is stored, and every change can *)
(* be brought back (mutateCanvas, undo, redo, onStagePointerUp and the     *)
(* save timer of CanvasWorkspace.tsx).                                     *)
(***************************************************************************)
THEOREM EditorKeepsWork == WebSpec => CanvasKeepsWork
<1> DEFINE I == webPart = "editor" => EditorInv
<1>1. WebInit => I
  BY WebPlaneAssumptions, EditorInit DEF WebInit, WebPlaneAssumptions
<1>2. I /\ [WebNext]_webVars =>
         /\ I'
         /\ [webPart = "editor" =>
               /\ Editor!EndsAreThere' /\ Editor!SavedIsStored'
               /\ Editor!ChangesCanBeUndone]_editorVars
  <2> SUFFICES ASSUME I, [WebNext]_webVars
               PROVE  /\ I'
                      /\ webPart = "editor" =>
                            /\ Editor!EndsAreThere' /\ Editor!SavedIsStored'
                            /\ Editor!ChangesCanBeUndone
    OBVIOUS
  <2>1. webPart' = webPart
    BY DEF WebNext, webVars
  <2>2. ASSUME webPart = "editor" PROVE EditorInv' /\ Editor!ChangesCanBeUndone
    <3>1. EditorInv
      BY <2>2
    <3>2. Editor!Next \/ UNCHANGED Editor!vars
      BY <2>2 DEF WebNext, webVars, editorVars, Editor!vars
    <3> QED BY <3>1, <3>2, WebPlaneAssumptions, EditorStep DEF WebPlaneAssumptions
  <2>3. EditorInv' => Editor!EndsAreThere' /\ Editor!SavedIsStored'
    BY EditorHolds
  <2> QED BY <2>1, <2>2, <2>3
<1> QED BY <1>1, <1>2, PTL DEF WebSpec, CanvasKeepsWork
=============================================================================
