---------------------------- MODULE LocalObjects ----------------------------
(***************************************************************************)
(* Governed objects on the embedded SQLite plane.  One process: a request  *)
(* runs undisturbed between two waits for the file system, and the process *)
(* may be killed at any time.  The bytes go to a temporary file, which is  *)
(* renamed to a path of its own; the transaction that names it comes last. *)
(*                                                                         *)
(* An upload stands for its bytes, its version id and its path.            *)
(***************************************************************************)
EXTENDS Naturals, Sequences

CONSTANTS
    Upload, Object, Reader,
    ObjectOf,       \* the object an upload is a version of
    MaxReads,       \* bound: downloads in all
    MaxFaults       \* bound: kills of the process and failing calls

LocalObjectsAssumption ==
    ObjectOf \in [Upload -> Object] /\ MaxReads \in Nat /\ MaxFaults \in Nat

VARIABLES
    phase,          \* per upload: what its request waits for
    file,           \* per upload: its file, in .tmp or at its own path
    versions,       \* per object: governed_object_versions, in order
    indexed,        \* per object: the search document, an upload
    reading,        \* per reader: the download it serves, if any
    recorded,       \* content.downloaded events
    served,         \* what was streamed to readers
    reads, faults

tables == <<versions, indexed>>
reader == <<reading, recorded, served, reads>>
vars   == <<phase, file, tables, reader, faults>>

Waiting == {"streaming", "renaming", "renamed", "cleaning", "removing"}
Download == [object : Object, version : Nat, content : Upload]
NotReading == [step |-> "idle"]
Nothing == [o \in Object |-> <<>>]

TypeOK ==
    /\ phase \in [Upload -> Waiting \cup {"idle", "answered", "failed"}]
    /\ file \in [Upload -> {"none", "temporary", "placed"}]
    /\ versions \in [Object -> Seq(Upload)]
    /\ indexed \in [Object -> Seq(Upload)]
    /\ reading \in [Reader -> {NotReading} \cup [step : {"found", "recorded"}, what : Download]]
    /\ recorded \subseteq Download
    /\ served \subseteq Download
    /\ reads \in 0..MaxReads
    /\ faults \in 0..MaxFaults

Init ==
    /\ phase = [u \in Upload |-> "idle"]
    /\ file = [u \in Upload |-> "none"]
    /\ versions = Nothing
    /\ indexed = Nothing
    /\ reading = [r \in Reader |-> NotReading]
    /\ recorded = {}
    /\ served = {}
    /\ reads = 0
    /\ faults = 0

Goto(u, next) == phase' = [phase EXCEPT ![u] = next]
Place(u, where) == file' = [file EXCEPT ![u] = where]
Fault == faults < MaxFaults /\ faults' = faults + 1

-----------------------------------------------------------------------------
(* upload() *)

Stream(u) ==
    /\ phase[u] = "idle"
    /\ Goto(u, "streaming")
    /\ Place(u, "temporary")
    /\ UNCHANGED <<tables, reader, faults>>

Staged(u) ==
    /\ phase[u] = "streaming"
    /\ Goto(u, "renaming")
    /\ UNCHANGED <<file, tables, reader, faults>>

(* Too large, cut off, or not of the declared length. *)
StreamFails(u) ==
    /\ phase[u] = "streaming"
    /\ Goto(u, "cleaning")
    /\ UNCHANGED <<file, tables, reader, faults>>

Rename(u) ==
    /\ phase[u] = "renaming"
    /\ Place(u, "placed")
    /\ Goto(u, "renamed")
    /\ UNCHANGED <<tables, reader, faults>>

(* rename() fails and the file is removed; mkdir() fails and it is not. *)
RenameFails(u) ==
    /\ phase[u] = "renaming"
    /\ Fault
    /\ \/ Goto(u, "cleaning")
       \/ Goto(u, "failed")
    /\ UNCHANGED <<file, tables, reader>>

(* Variant: the row is written without waiting for the rename. *)
PlacedSoon(u) == phase[u] \in {"renaming", "renamed"}

Placed(u) == phase[u] = "renamed"

(* indexSearchDocument() replaces the document of the object. *)
Index(u) == <<u>>

(* persistVersion(): one transaction, undisturbed. *)
Persist(u) ==
    /\ Placed(u)
    /\ versions' = [versions EXCEPT ![ObjectOf[u]] = Append(@, u)]
    /\ indexed' = [indexed EXCEPT ![ObjectOf[u]] = Index(u)]
    /\ Goto(u, "answered")
    /\ UNCHANGED <<file, reader, faults>>

(* It fails and is rolled back; the file is removed next. *)
PersistFails(u) ==
    /\ Placed(u)
    /\ Fault
    /\ Goto(u, "removing")
    /\ UNCHANGED <<file, tables, reader>>

(* rm() of the temporary or the final path; its own failure is ignored. *)
Remove(u) ==
    /\ phase[u] \in {"cleaning", "removing"}
    /\ Goto(u, "failed")
    /\ \/ Place(u, "none") /\ UNCHANGED faults
       \/ Fault /\ UNCHANGED file
    /\ UNCHANGED <<tables, reader>>

(* The process dies, with every request it serves. *)
Kill ==
    /\ Fault
    /\ phase' = [u \in Upload |-> IF phase[u] \in Waiting THEN "failed" ELSE phase[u]]
    /\ reading' = [r \in Reader |-> NotReading]
    /\ phase' # phase \/ reading' # reading
    /\ UNCHANGED <<file, tables, recorded, served, reads>>

-----------------------------------------------------------------------------
(* download(): the row, the path's stat, the size. *)
Find(r) ==
    /\ reading[r] = NotReading
    /\ reads < MaxReads
    /\ reads' = reads + 1
    /\ \E o \in Object : \E v \in DOMAIN versions[o] :
          /\ file[versions[o][v]] = "placed"
          /\ reading' = [reading EXCEPT ![r] = [step |-> "found",
                 what |-> [object |-> o, version |-> v, content |-> versions[o][v]]]]
    /\ UNCHANGED <<phase, file, tables, recorded, served, faults>>

Ends(r) == reading' = [reading EXCEPT ![r] = NotReading]

(* 304, 416 or a client that is gone: nothing recorded, nothing sent. *)
SendHeaders(r) ==
    /\ reading[r] # NotReading
    /\ Ends(r)
    /\ UNCHANGED <<phase, file, tables, recorded, served, reads, faults>>

RecordDownload(r) ==
    /\ reading[r] # NotReading
    /\ reading[r].step = "found"
    /\ recorded' = recorded \cup {reading[r].what}
    /\ reading' = [reading EXCEPT ![r].step = "recorded"]
    /\ UNCHANGED <<phase, file, tables, served, reads, faults>>

MaySend(r) == reading[r].step = "recorded"

(* openContent(): the bytes at the path. *)
Send(r) ==
    /\ reading[r] # NotReading
    /\ MaySend(r)
    /\ file[reading[r].what.content] = "placed"
    /\ served' = served \cup {reading[r].what}
    /\ Ends(r)
    /\ UNCHANGED <<phase, file, tables, recorded, reads, faults>>

Next ==
    \/ Kill
    \/ \E u \in Upload :
          \/ Stream(u) \/ Staged(u) \/ StreamFails(u) \/ Rename(u) \/ RenameFails(u)
          \/ Persist(u) \/ PersistFails(u) \/ Remove(u)
    \/ \E r \in Reader : Find(r) \/ SendHeaders(r) \/ RecordDownload(r) \/ Send(r)

-----------------------------------------------------------------------------
Named == {u \in Upload : \E o \in Object : \E v \in DOMAIN versions[o] : versions[o][v] = u}
Ended == {u \in Upload : phase[u] \in {"answered", "failed"}}

(* Rows, files and search documents agree although no transaction spans    *)
(* them: a version has its whole file, an object's document is that of its *)
(* current version, and a file no version names is left behind only if a   *)
(* kill or a failing call intervened.                                      *)
FilesMatchRows ==
    /\ \A u \in Named : file[u] = "placed"
    /\ \A o \in Object : versions[o] # <<>> => indexed[o] = <<versions[o][Len(versions[o])]>>
    /\ faults = 0 => \A u \in Ended : file[u] # "none" => u \in Named

-----------------------------------------------------------------------------
(* Why that is so: an upload is answered if and only if a row names it,    *)
(* its file is in place from the rename on, and what failed without a      *)
(* fault left none; what a reader is about is a version, and is on record  *)
(* before it is sent.                                                      *)
FilesFollowPhases ==
    /\ \A u \in Upload : phase[u] = "answered" <=> u \in Named
    /\ \A u \in Upload : phase[u] \in {"renamed", "answered"} => file[u] = "placed"
    /\ \A u \in Upload : phase[u] = "failed" /\ faults = 0 => file[u] = "none"

ReadersHaveVersions ==
    \A r \in Reader : reading[r] # NotReading =>
        LET d == reading[r].what IN
        /\ d.version \in DOMAIN versions[d.object]
        /\ d.content = versions[d.object][d.version]
        /\ reading[r].step = "recorded" => d \in recorded

ObjectsInv == TypeOK /\ FilesFollowPhases /\ ReadersHaveVersions /\ FilesMatchRows

Archive == INSTANCE ObjectArchive WITH Content <- Upload

(* The embedded store keeps the same promise as the shared one.            *)
ImplementsObjectArchive == Archive!Spec
=============================================================================
