---------------------------- MODULE ObjectArchive ----------------------------
(***************************************************************************)
(* What an object store promises its users on either plane: versions are   *)
(* appended one by one and never change; a reader is given, for a version, *)
(* what was uploaded as that version, and only after the download has been *)
(* recorded.                                                               *)
(***************************************************************************)
EXTENDS Naturals, Sequences

CONSTANTS Object, Content

VARIABLES
    versions,   \* per object: the content of each of its versions
    recorded,   \* downloads on record: object, version, content
    served      \* downloads that were sent

vars == <<versions, recorded, served>>

Init ==
    /\ versions = [o \in Object |-> <<>>]
    /\ recorded = {}
    /\ served = {}

Store(o, c) ==
    /\ versions' = [versions EXCEPT ![o] = Append(@, c)]
    /\ UNCHANGED <<recorded, served>>

Record(o, v) ==
    /\ recorded' = recorded \cup {[object |-> o, version |-> v, content |-> versions[o][v]]}
    /\ UNCHANGED <<versions, served>>

Serve(d) ==
    /\ served' = served \cup {d}
    /\ UNCHANGED <<versions, recorded>>

Next ==
    \/ \E o \in Object :
          \/ \E c \in Content : Store(o, c)
          \/ \E v \in DOMAIN versions[o] : Record(o, v)
    \/ \E d \in recorded : Serve(d)

Spec == Init /\ [][Next]_vars
=============================================================================
