------------------------------ MODULE MCIngest ------------------------------
(* Instances of Ingest for TLC. *)
EXTENDS Ingest, TLC

CONSTANTS c1, c2, k1, k2, k3, x, y, p, q

Clients == {c1, c2}
Keys == {k1, k2, k3}
Assets == {x, y}
Points == {p, q}

Empty == [a \in {} |-> a]

(* A tree and its reverse, which take the same rows; a second payload for *)
(* one run id; a move that closes a cycle after the first bundle; points  *)
(* that agree, and points that do not.                                    *)
Bundles == {
    [key |-> k1, parent |-> (x :> Root @@ y :> x), value |-> (p :> 1)],
    [key |-> k1, parent |-> Empty,                 value |-> (p :> 2)],
    [key |-> k2, parent |-> (x :> y @@ y :> Root), value |-> (p :> 1 @@ q :> 2)],
    [key |-> k3, parent |-> (x :> y),              value |-> (q :> 1)]}

(* Two assets, and two bundles of which each moves one below the other. *)
Moves == {
    [key |-> k1, parent |-> (x :> Root @@ y :> Root), value |-> Empty],
    [key |-> k2, parent |-> (x :> y),                 value |-> Empty],
    [key |-> k3, parent |-> (y :> x),                 value |-> Empty]}
=============================================================================
