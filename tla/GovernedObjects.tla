--------------------------- MODULE GovernedObjects ---------------------------
(***************************************************************************)
(* Governed objects on the PostgreSQL plane: several API instances stream  *)
(* uploads to a staging file, put the bytes in the object store under a    *)
(* key of their own, and only then name them in one transaction; downloads *)
(* read the row, verify the stored object, record the download and stream. *)
(*                                                                         *)
(* An upload stands for its bytes: its version id, its blob's key and its  *)
(* digest are its own.  now() in a transaction is the time it began, which *)
(* is before it waits for the advisory lock of its object.                 *)
(***************************************************************************)
EXTENDS Naturals, Sequences

CONSTANTS
    Upload, Object, Reader,
    ObjectOf,       \* the object an upload is a version of
    MaxReads,       \* bound: downloads in all
    MaxFaults       \* bound: killed requests, failing calls, lost replies

GovernedObjectsAssumption ==
    ObjectOf \in [Upload -> Object] /\ MaxReads \in Nat /\ MaxFaults \in Nat

VARIABLES
    phase,          \* per upload: how far its request has come
    staged,         \* uploads with a staging file on their instance
    blob,           \* per upload: is its object in the store?
    began,          \* per upload: now() in its transaction
    seen,           \* per upload: the current_version its transaction read
    clock,          \* the database's time
    versions,       \* per object: governed_object_versions, in order
    updated,        \* per object: governed_objects.updated_at
    reading,        \* per reader: the download it serves, if any
    recorded,       \* content.downloaded events
    served,         \* what was streamed to readers
    reads, faults

upload == <<phase, staged, blob, began, seen, clock>>
tables == <<versions, updated>>
reader == <<reading, recorded, served, reads>>
vars   == <<upload, tables, reader, faults>>

Phase == {"idle", "streaming", "staged", "stored", "began", "locked", "answered", "refused", "failed"}
Waiting == {"streaming", "staged", "stored", "began", "locked"}
Download == [object : Object, version : Nat, content : Upload]
NotReading == [step |-> "idle"]

TypeOK ==
    /\ phase \in [Upload -> Phase]
    /\ staged \subseteq Upload
    /\ blob \in [Upload -> {"none", "stored", "lost"}]
    /\ began \in [Upload -> Nat]
    /\ seen \in [Upload -> Nat]
    /\ clock \in Nat
    /\ versions \in [Object -> Seq(Upload)]
    /\ updated \in [Object -> Nat]
    /\ reading \in [Reader -> {NotReading} \cup
                       [step : {"found", "verified", "recorded"}, what : Download]]
    /\ recorded \subseteq Download
    /\ served \subseteq Download
    /\ reads \in 0..MaxReads
    /\ faults \in 0..MaxFaults

Init ==
    /\ phase = [u \in Upload |-> "idle"]
    /\ staged = {}
    /\ blob = [u \in Upload |-> "none"]
    /\ began = [u \in Upload |-> 0]
    /\ seen = [u \in Upload |-> 0]
    /\ clock = 1
    /\ versions = [o \in Object |-> <<>>]
    /\ updated = [o \in Object |-> 0]
    /\ reading = [r \in Reader |-> NotReading]
    /\ recorded = {}
    /\ served = {}
    /\ reads = 0
    /\ faults = 0

Goto(u, next) == phase' = [phase EXCEPT ![u] = next]
Fault == faults < MaxFaults /\ faults' = faults + 1

-----------------------------------------------------------------------------
(* Uploads.                                                                *)

(* stageAndStore() opens the staging file and writes what the client sends. *)
Stream(u) ==
    /\ phase[u] = "idle"
    /\ Goto(u, "streaming")
    /\ staged' = staged \cup {u}
    /\ UNCHANGED <<blob, began, seen, clock, tables, reader, faults>>

Staged(u) ==
    /\ phase[u] = "streaming"
    /\ Goto(u, "staged")
    /\ UNCHANGED <<staged, blob, began, seen, clock, tables, reader, faults>>

(* Too large, cut off, or not of the declared length: the file is removed. *)
StreamFails(u) ==
    /\ phase[u] = "streaming"
    /\ Goto(u, "failed")
    /\ staged' = staged \ {u}
    /\ UNCHANGED <<blob, began, seen, clock, tables, reader, faults>>

(* putImmutable() writes and then verifies with head(). *)
Put(u) ==
    /\ phase[u] = "staged"
    /\ Goto(u, "stored")
    /\ blob' = [blob EXCEPT ![u] = "stored"]
    /\ staged' = staged \ {u}
    /\ UNCHANGED <<began, seen, clock, tables, reader, faults>>

(* The write, its reply or the verification fails. *)
PutFails(u) ==
    /\ phase[u] = "staged"
    /\ Fault
    /\ Goto(u, "failed")
    /\ \E b \in {"none", "stored"} : blob' = [blob EXCEPT ![u] = b]
    /\ staged' = staged \ {u}
    /\ UNCHANGED <<began, seen, clock, tables, reader>>

(* BEGIN fixes now(); two transactions may begin in the same microsecond. *)
Begin(u) ==
    /\ phase[u] = "stored"
    /\ Goto(u, "began")
    /\ clock' \in {clock, clock + 1}
    /\ began' = [began EXCEPT ![u] = clock']
    /\ UNCHANGED <<staged, blob, seen, tables, reader, faults>>

(* pg_advisory_xact_lock, then SELECT ... FOR UPDATE: held until the end. *)
LockFree(u) == \A w \in Upload : ObjectOf[w] = ObjectOf[u] => phase[w] # "locked"

Lock(u) ==
    /\ phase[u] = "began"
    /\ LockFree(u)
    /\ Goto(u, "locked")
    /\ seen' = [seen EXCEPT ![u] = Len(versions[ObjectOf[u]])]
    /\ UNCHANGED <<staged, blob, began, clock, tables, reader, faults>>

(* The UPDATE finds another current_version than was read, or the trigger  *)
(* of migration 011 sees updated_at move backwards.                        *)
Overtaken(u) ==
    \/ seen[u] # Len(versions[ObjectOf[u]])
    \/ began[u] < updated[ObjectOf[u]]

(* Either route appends a version. *)
AddVersion(u) ==
    /\ versions' = [versions EXCEPT ![ObjectOf[u]] = Append(@, u)]
    /\ updated' = [updated EXCEPT ![ObjectOf[u]] = began[u]]

(* Variant: what an upload that failed has stored is deleted again, as the *)
(* embedded store does.                                                    *)
DiscardOnFailure(u) == [blob EXCEPT ![u] = "none"]

(* Nothing that was put in the store is ever deleted by this code. *)
Discard(u) == blob

(* UPDATE, both INSERTs, the audit entry with its outbox row, COMMIT. *)
Commit(u) ==
    /\ phase[u] = "locked"
    /\ ~Overtaken(u)
    /\ AddVersion(u)
    /\ Goto(u, "answered")
    /\ UNCHANGED <<staged, blob, began, seen, clock, reader, faults>>

Refuse(u) ==
    /\ phase[u] = "locked"
    /\ Overtaken(u)
    /\ Goto(u, "refused")
    /\ blob' = Discard(u)
    /\ UNCHANGED <<staged, began, seen, clock, tables, reader, faults>>

(* A statement fails or times out, or COMMIT is not answered: then the     *)
(* version may be there although the client is told of an error.           *)
TransactionFails(u) ==
    /\ phase[u] \in {"stored", "began", "locked"}
    /\ Fault
    /\ Goto(u, "failed")
    /\ blob' = Discard(u)
    /\ \/ UNCHANGED tables
       \/ phase[u] = "locked" /\ ~Overtaken(u) /\ AddVersion(u)
    /\ UNCHANGED <<staged, began, seen, clock, reader>>

(* The instance dies: the staging file and the stored object stay. *)
Kill(u) ==
    /\ phase[u] \in Waiting
    /\ Fault
    /\ Goto(u, "failed")
    /\ UNCHANGED <<staged, blob, began, seen, clock, tables, reader>>

-----------------------------------------------------------------------------
(* Downloads.                                                              *)

(* download(): the current version, or the one the path names. *)
Find(r) ==
    /\ reading[r] = NotReading
    /\ reads < MaxReads
    /\ reads' = reads + 1
    /\ \E o \in Object : \E v \in DOMAIN versions[o] :
          reading' = [reading EXCEPT ![r] = [step |-> "found",
              what |-> [object |-> o, version |-> v, content |-> versions[o][v]]]]
    /\ UNCHANGED <<upload, tables, recorded, served, faults>>

Ends(r) == reading' = [reading EXCEPT ![r] = NotReading]

(* head(): the store has the object and its recorded digest is the row's. *)
Intact(r) == blob[reading[r].what.content] = "stored"

Verify(r) ==
    /\ reading[r].step = "found"
    /\ Intact(r)
    /\ reading' = [reading EXCEPT ![r].step = "verified"]
    /\ UNCHANGED <<upload, tables, recorded, served, reads, faults>>

(* 304 or 416: nothing is recorded, nothing is sent. *)
SendHeaders(r) ==
    /\ reading[r].step = "verified"
    /\ Ends(r)
    /\ UNCHANGED <<upload, tables, recorded, served, reads, faults>>

RecordDownload(r) ==
    /\ reading[r].step = "verified"
    /\ recorded' = recorded \cup {reading[r].what}
    /\ reading' = [reading EXCEPT ![r].step = "recorded"]
    /\ UNCHANGED <<upload, tables, served, reads, faults>>

(* openContent() verifies once more and streams; HEAD sends no bytes. *)
Send(r) ==
    /\ reading[r].step = "recorded"
    /\ Intact(r)
    /\ served' = served \cup {reading[r].what}
    /\ Ends(r)
    /\ UNCHANGED <<upload, tables, recorded, reads, faults>>

(* The object is not in the store, a call fails, or the client goes away. *)
ReadFails(r) ==
    /\ reading[r] # NotReading
    /\ IF reading[r].step \in {"found", "recorded"} /\ ~Intact(r) THEN UNCHANGED faults ELSE Fault
    /\ Ends(r)
    /\ UNCHANGED <<upload, tables, recorded, served, reads>>

(* External: somebody removes an object from the bucket. *)
Lose ==
    /\ Fault
    /\ \E u \in Upload : blob[u] = "stored" /\ blob' = [blob EXCEPT ![u] = "lost"]
    /\ UNCHANGED <<phase, staged, began, seen, clock, tables, reader>>

Next ==
    \/ Lose
    \/ \E u \in Upload :
          \/ Stream(u) \/ Staged(u) \/ StreamFails(u) \/ Put(u) \/ PutFails(u)
          \/ Begin(u) \/ Lock(u) \/ Commit(u) \/ Refuse(u) \/ TransactionFails(u) \/ Kill(u)
    \/ \E r \in Reader :
          Find(r) \/ Verify(r) \/ SendHeaders(r) \/ RecordDownload(r) \/ Send(r) \/ ReadFails(r)

-----------------------------------------------------------------------------
Named == {u \in Upload : \E o \in Object : \E v \in DOMAIN versions[o] : versions[o][v] = u}

(* A version names bytes that were stored whole before it was committed,   *)
(* and stays backed by them whatever its uploader was told: not even a     *)
(* COMMIT whose reply is lost, or a retry, takes the object away again     *)
(* (stageAndStore before the transaction, and no delete after it).  What   *)
(* no version names was stored by a request that is under way or failed.   *)
VersionsAreBacked ==
    /\ \A u \in Named : blob[u] # "none"
    /\ \A u \in Upload : blob[u] # "none" /\ u \notin Named =>
          phase[u] \in {"stored", "began", "locked", "refused", "failed"}
    /\ \A u \in Upload : phase[u] = "answered" => u \in Named

(* The database refuses an upload only if another of the same object began *)
(* later and committed first: the lock keeps every other pair in order.    *)
RefusedWereOvertaken ==
    \A u \in Upload : phase[u] = "refused" =>
        \E w \in Named : ObjectOf[w] = ObjectOf[u] /\ began[w] > began[u]

-----------------------------------------------------------------------------
(* Why that is so: an upload's phase tells whether its bytes are stored    *)
(* and whether it may be named; the holder of an object's lock has seen    *)
(* all of its versions, and updated_at is the time of one of them; what a  *)
(* reader is about is a version, and is on record before it is sent.       *)
BytesFollowPhases ==
    /\ \A u \in Upload : phase[u] \in {"idle", "streaming", "staged"} => blob[u] = "none"
    /\ \A u \in Upload : phase[u] \in {"stored", "began", "locked", "answered", "refused"} =>
                           blob[u] # "none"
    /\ \A o \in Object : \A v \in DOMAIN versions[o] :
          /\ ObjectOf[versions[o][v]] = o
          /\ phase[versions[o][v]] \in {"answered", "failed"}

LocksSerialise ==
    /\ \A u, w \in Upload : u # w /\ phase[u] = "locked" /\ phase[w] = "locked" => ObjectOf[u] # ObjectOf[w]
    /\ \A u \in Upload : phase[u] = "locked" => seen[u] = Len(versions[ObjectOf[u]])
    /\ \A o \in Object : updated[o] = 0 \/ \E v \in DOMAIN versions[o] : updated[o] = began[versions[o][v]]

ReadersHaveVersions ==
    \A r \in Reader : reading[r] # NotReading =>
        LET d == reading[r].what IN
        /\ d.version \in DOMAIN versions[d.object]
        /\ d.content = versions[d.object][d.version]
        /\ reading[r].step = "recorded" => d \in recorded

ObjectsInv ==
    /\ TypeOK /\ BytesFollowPhases /\ LocksSerialise /\ ReadersHaveVersions
    /\ VersionsAreBacked /\ RefusedWereOvertaken

Archive == INSTANCE ObjectArchive WITH Content <- Upload

(* The shared store is an archive: versions are appended and never change, *)
(* what a reader gets for a version is what was uploaded as it, and no     *)
(* bytes leave before the event that says so is committed.                 *)
ImplementsObjectArchive == Archive!Spec
=============================================================================
