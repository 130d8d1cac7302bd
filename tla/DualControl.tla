---------------------------- MODULE DualControl -----------------------------
(***************************************************************************)
(* What the write-back ledger promises, without transactions or handlers:  *)
(* nobody reviews an own request or reviews twice, a rejection settles a   *)
(* request that is still open, only enough approvals without a rejection   *)
(* approve it, and the plant is acted upon at most once, for an approved   *)
(* request.                                                                *)
(***************************************************************************)
EXTENDS Integers, FiniteSets

CONSTANTS Request, User, Risk, Required

VARIABLES
    filed,      \* per request: who files it, and its risk
    reviews,    \* per request and user: the decision
    outcome,    \* "none", "open", "approved", "cancelled" or "begun"
    acts        \* how often the executor has acted for the request

vars == <<filed, reviews, outcome, acts>>

Init ==
    /\ filed \in [Request -> [by : User, risk : Risk]]
    /\ reviews = [r \in Request |-> [u \in User |-> "none"]]
    /\ outcome = [r \in Request |-> "none"]
    /\ acts = [r \in Request |-> 0]

Having(r, decision) == {u \in User : reviews[r][u] = decision}

File(r) ==
    /\ outcome[r] = "none"
    /\ \E o \in {"open", "cancelled"} : outcome' = [outcome EXCEPT ![r] = o]
    /\ UNCHANGED <<filed, reviews, acts>>

Approve(r, u) ==
    /\ outcome[r] # "none" /\ u # filed[r].by /\ reviews[r][u] = "none"
    /\ reviews' = [reviews EXCEPT ![r][u] = "approved"]
    /\ \/ UNCHANGED outcome
       \/ /\ outcome[r] = "open" /\ Having(r, "rejected") = {}
          /\ Cardinality(Having(r, "approved") \cup {u}) >= Required[filed[r].risk]
          /\ outcome' = [outcome EXCEPT ![r] = "approved"]
    /\ UNCHANGED <<filed, acts>>

Reject(r, u) ==
    /\ outcome[r] # "none" /\ u # filed[r].by /\ reviews[r][u] = "none"
    /\ reviews' = [reviews EXCEPT ![r][u] = "rejected"]
    /\ outcome' = IF outcome[r] = "open" THEN [outcome EXCEPT ![r] = "cancelled"] ELSE outcome
    /\ UNCHANGED <<filed, acts>>

Begin(r) ==
    /\ outcome[r] = "approved"
    /\ outcome' = [outcome EXCEPT ![r] = "begun"]
    /\ UNCHANGED <<filed, reviews, acts>>

Act(r) ==
    /\ outcome[r] = "begun" /\ acts[r] = 0
    /\ acts' = [acts EXCEPT ![r] = 1]
    /\ UNCHANGED <<filed, reviews, outcome>>

Next == \E r \in Request :
    \/ File(r) \/ Begin(r) \/ Act(r)
    \/ \E u \in User : Approve(r, u) \/ Reject(r, u)

Spec == Init /\ [][Next]_vars
=============================================================================
