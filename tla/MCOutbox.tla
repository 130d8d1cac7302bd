------------------------------ MODULE MCOutbox ------------------------------
(* Small instances of Outbox for TLC. *)
EXTENDS Outbox

CONSTANTS run, workspace

BothAggregates == {run, workspace}

\* Events 1 and 2 belong to an aggregate whose writers take turns, the others
\* to one whose transactions may overlap.
TwoAndRest == [e \in Event |-> IF e <= 2 THEN run ELSE workspace]
AllOfWorkspace == [e \in Event |-> workspace]
=============================================================================
