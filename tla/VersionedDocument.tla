-------------------------- MODULE VersionedDocument --------------------------
(***************************************************************************)
(* What a workspace promises its editors: a linear history in which every  *)
(* version is the previous one plus one edit, or a copy of an earlier one. *)
(***************************************************************************)
EXTENDS Integers, Sequences

CONSTANT Edit       \* the changes users may make

VARIABLE hist       \* hist[v]: the edits version v contains

Init == hist = <<{}>>

ApplyEdit(e) == hist' = Append(hist, hist[Len(hist)] \cup {e})

Restore(v) == hist' = Append(hist, hist[v])

Next == (\E e \in Edit : ApplyEdit(e)) \/ (\E v \in DOMAIN hist : Restore(v))

Spec == Init /\ [][Next]_hist
=============================================================================
