-------------------------- MODULE StoreAndForward --------------------------
(***************************************************************************)
(* What the edge agent promises to the platform, without its queue, its    *)
(* leases and its retries: rows of a source are collected into batches,    *)
(* and every batch is accepted exactly once, in whatever order.            *)
(***************************************************************************)
EXTENDS Naturals, Sequences

VARIABLES
    batches,    \* the rows of each batch, in the order of collection
    done        \* the batches the platform has accepted

vars == <<batches, done>>

Init == batches = <<>> /\ done = {}

\* One more batch, which is not empty; the earlier ones stay as they are.
Collect ==
    /\ Len(batches') = Len(batches) + 1
    /\ \A b \in DOMAIN batches : batches'[b] = batches[b]
    /\ batches'[Len(batches')] # <<>>
    /\ UNCHANGED done

Accept == \E b \in DOMAIN batches \ done :
    done' = done \cup {b} /\ UNCHANGED batches

Next == Collect \/ Accept

Spec == Init /\ [][Next]_vars
FairSpec == Spec /\ WF_vars(Accept)
=============================================================================
