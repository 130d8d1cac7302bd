---------------------------- MODULE IngestLedger ----------------------------
(***************************************************************************)
(* What the ingest endpoint promises a data source: a ledger that enters   *)
(* each run id once, with one bundle, all of it or nothing, and in which   *)
(* the telemetry points entered never change.                              *)
(***************************************************************************)
CONSTANTS Bundle, Key, Asset, Point, NoBundle, NoValue, Absent

VARIABLES
    ledger,     \* per run id: the bundle it was completed with
    value,      \* per telemetry point: what is stored
    parent      \* per asset: its place in the hierarchy

vars == <<ledger, value, parent>>

Init ==
    /\ ledger = [k \in Key |-> NoBundle]
    /\ value = [p \in Point |-> NoValue]
    /\ parent = [a \in Asset |-> Absent]

Enter(b) ==
    /\ ledger[b.key] = NoBundle
    /\ \A p \in DOMAIN b.value : value[p] \in {NoValue, b.value[p]}
    /\ ledger' = [ledger EXCEPT ![b.key] = b]
    /\ value' = [p \in Point |-> IF p \in DOMAIN b.value THEN b.value[p] ELSE value[p]]
    /\ parent' = [a \in Asset |-> IF a \in DOMAIN b.parent THEN b.parent[a] ELSE parent[a]]

Next == \E b \in Bundle : Enter(b)

Spec == Init /\ [][Next]_vars
=============================================================================
