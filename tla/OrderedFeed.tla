---------------------------- MODULE OrderedFeed -----------------------------
(***************************************************************************)
(* What the outbox promises its consumers, without workers, leases or      *)
(* retries: every event of an aggregate is delivered for the first time    *)
(* after all the events of that aggregate that precede it.  A consumer     *)
(* that drops event ids it has already seen observes exactly this.         *)
(***************************************************************************)
EXTENDS Integers

CONSTANTS Event, Aggregate, AggregateOf, Serialized

VARIABLES committed, delivered

vars == <<committed, delivered>>

Init == committed = {} /\ delivered = {}

Predecessors(e) == {p \in committed : AggregateOf[p] = AggregateOf[e] /\ p < e}

Commit(e) ==
    /\ e \in Event \ committed
    /\ AggregateOf[e] \in Serialized =>
            \A f \in committed : AggregateOf[f] = AggregateOf[e] => f < e
    /\ committed' = committed \cup {e}
    /\ UNCHANGED delivered

Deliver(e) ==
    /\ e \in committed \ delivered
    /\ AggregateOf[e] \in Serialized => Predecessors(e) \subseteq delivered
    /\ delivered' = delivered \cup {e}
    /\ UNCHANGED committed

Next == \E e \in Event : Commit(e) \/ Deliver(e)

Spec == Init /\ [][Next]_vars
=============================================================================
