---------------------------- MODULE IngestProofs ----------------------------
(***************************************************************************)
(* Proofs about Ingest for any clients, bundles, keys, assets, points and  *)
(* values, and any number of requests and faults.                          *)
(***************************************************************************)
EXTENDS Ingest, DataPlane, Sequences, WellFoundedInduction, FiniteSetTheorems, TLAPS

(* The three parts of TypeOK: the columns, the requests, the locks.        *)
Columns ==
    /\ landed \in [Key -> Bundle \cup {NoBundle}]
    /\ lifecycle \in [Key -> {"none", "received", "accepted", "failed"}]
    /\ run \in [Key -> {"none", "failed", "succeeded"}]
    /\ payload \in [Key -> Bundle \cup {NoBundle}]
    /\ value \in [Point -> Value \cup {NoValue}]
    /\ parent \in [Asset -> Asset \cup {Root, Absent}]
    /\ answered \subseteq Bundle
    /\ sends \in 0..MaxSends
    /\ faults \in 0..MaxFaults

Requests ==
    /\ phase \in [Client -> Phase]
    /\ job \in [Client -> Bundle \cup {NoBundle}]
    /\ \A c \in Client : phase[c] # "idle" => job[c] \in Bundle

Locks ==
    /\ held \in [Client -> SUBSET (Key \cup Asset \cup Point)]
    /\ \A c, d \in Client : c # d => held[c] \cap held[d] = {}
    /\ \A c \in Client : phase[c] \notin {"assets", "points"} => held[c] = {}

LEMMA TypeParts == TypeOK <=> Columns /\ Requests /\ Locks
BY DEF TypeOK, Columns, Requests, Locks

(* How a step may move the request and the locks of a client: to another   *)
(* phase with the same bundle, or to its end; with more locks nobody else  *)
(* holds, or with none.                                                    *)
Moves(c, next) == Goto(c, next) /\ UNCHANGED job

LEMMA MovedRequest ==
    ASSUME Requests, NEW c \in Client, phase[c] # "idle",
           NEW next \in Phase, Moves(c, next) \/ End(c)
    PROVE  Requests'
<1>1. phase' \in [Client -> Phase]
  BY DEF Requests, Moves, Goto, End, Phase
<1>2. job' \in [Client -> Bundle \cup {NoBundle}]
  BY DEF Requests, Moves, End
<1>3. ASSUME NEW d \in Client, phase'[d] # "idle" PROVE job'[d] \in Bundle
  BY <1>3 DEF Requests, Moves, Goto, End
<1>4. QED
  BY <1>1, <1>2, <1>3 DEF Requests

LEMMA KeptLocks ==
    ASSUME Requests, Locks, NEW c \in Client, NEW next \in Phase, UNCHANGED held,
           Goto(c, next),
           next \in {"assets", "points"} \/ phase[c] \notin {"assets", "points"}
    PROVE  Locks'
<1>1. ASSUME NEW d \in Client, phase'[d] \notin {"assets", "points"} PROVE held'[d] = {}
  BY <1>1 DEF Requests, Locks, Goto
<1>2. QED
  BY <1>1 DEF Locks

LEMMA FreedLocks ==
    ASSUME Requests, Locks, NEW c \in Client, NEW next \in Phase, Release(c), Goto(c, next)
    PROVE  Locks'
<1>1. held' \in [Client -> SUBSET (Key \cup Asset \cup Point)]
  BY DEF Locks, Release
<1>2. ASSUME NEW d \in Client PROVE held'[d] \subseteq held[d]
  BY DEF Locks, Release
<1>3. ASSUME NEW d \in Client, phase'[d] \notin {"assets", "points"} PROVE held'[d] = {}
  BY <1>3 DEF Requests, Locks, Goto, Release
<1>4. ASSUME NEW d \in Client, NEW e \in Client, d # e PROVE held'[d] \cap held'[e] = {}
  BY <1>2, <1>4 DEF Locks
<1>5. QED
  BY <1>1, <1>3, <1>4 DEF Locks

(* A lock that is free is taken.                                           *)
LEMMA TakenLock ==
    ASSUME Locks, NEW c \in Client, NEW lock \in Key \cup Asset \cup Point, Free(c, lock),
           held' = [held EXCEPT ![c] = @ \cup {lock}],
           phase'[c] \in {"assets", "points"}, \A d \in Client \ {c} : phase'[d] = phase[d]
    PROVE  Locks'
<1>1. held' \in [Client -> SUBSET (Key \cup Asset \cup Point)]
  BY DEF Locks
<1>2. /\ held'[c] = held[c] \cup {lock}
      /\ \A d \in Client \ {c} : held'[d] = held[d] /\ lock \notin held[d]
  BY DEF Locks, Free
<1>3. ASSUME NEW d \in Client, NEW e \in Client, d # e PROVE held'[d] \cap held'[e] = {}
  <2>1. held[d] \cap held[e] = {}
    BY <1>3 DEF Locks
  <2>2. QED
    BY <1>2, <1>3, <2>1
<1>4. ASSUME NEW d \in Client, phase'[d] \notin {"assets", "points"} PROVE held'[d] = {}
  BY <1>2, <1>4 DEF Locks
<1>5. QED
  BY <1>1, <1>3, <1>4 DEF Locks

-----------------------------------------------------------------------------
(* The columns under COMMIT.                                               *)
LEMMA BundleParts ==
    ASSUME NEW b \in Bundle
    PROVE  /\ b.key \in Key
           /\ DOMAIN b.parent \subseteq Asset
           /\ \A a \in DOMAIN b.parent : b.parent[a] \in Asset \cup {Root}
           /\ DOMAIN b.value \subseteq Point
           /\ \A p \in DOMAIN b.value : b.value[p] \in Value
BY IngestAssumption DEF IngestAssumption

LEMMA AppliedColumns ==
    ASSUME Columns, NEW c \in Client, job[c] \in Bundle, Apply(c),
           UNCHANGED <<landing, answered>>, sends' \in 0..MaxSends, faults' \in 0..MaxFaults
    PROVE  Columns'
<1>1. value' \in [Point -> Value \cup {NoValue}]
  BY BundleParts DEF Columns, Apply
<1>2. parent' \in [Asset -> Asset \cup {Root, Absent}]
  BY BundleParts DEF Columns, Apply, Hierarchy
<1>3. run' \in [Key -> {"none", "failed", "succeeded"}]
  BY DEF Columns, Apply
<1>4. payload' \in [Key -> Bundle \cup {NoBundle}]
  BY DEF Columns, Apply
<1>5. QED
  BY <1>1, <1>2, <1>3, <1>4 DEF Columns, landing

LEMMA FaultCount ==
    ASSUME faults \in 0..MaxFaults, sends \in 0..MaxSends, Fault
    PROVE  faults' \in 0..MaxFaults /\ sends' \in 0..MaxSends
BY IngestAssumption DEF Fault, IngestAssumption

LEMMA SameColumns ==
    ASSUME Columns, UNCHANGED <<landing, runs, facts, answered>>, Fault \/ UNCHANGED bounds
    PROVE  Columns'
<1>1. faults' \in 0..MaxFaults /\ sends' \in 0..MaxSends
  BY FaultCount DEF Columns, bounds
<1>2. QED
  BY <1>1 DEF Columns, landing, runs, facts

-----------------------------------------------------------------------------
(* One step, action by action.                                             *)
LEMMA TypeStep == TypeOK /\ [Next]_vars => TypeOK'
<1> SUFFICES ASSUME TypeOK, [Next]_vars PROVE TypeOK'
  OBVIOUS
<1> USE DEF Phase
<1>a. Columns /\ Requests /\ Locks
  BY TypeParts
<1>q. SUFFICES Columns' /\ Requests' /\ Locks'
  BY TypeParts DEF TypeOK, Columns, Requests, Locks
<1>b. ASSUME NEW c \in Client, NEW next \in Phase, phase[c] # "idle",
             Moves(c, next) \/ (next = "idle" /\ End(c))
      PROVE  Requests'
  BY <1>a, <1>b, MovedRequest
<1>c. ASSUME NEW c \in Client, NEW next \in Phase, Goto(c, next), UNCHANGED held,
             phase[c] \notin {"assets", "points"}
      PROVE  Locks'
  BY <1>a, <1>c, KeptLocks
<1>d. ASSUME NEW c \in Client, NEW next \in Phase, Goto(c, next), Release(c) PROVE Locks'
  BY <1>a, <1>d, FreedLocks
<1>1. ASSUME NEW c \in Client, Send(c) PROVE Columns' /\ Requests' /\ Locks'
  <2>1. Columns'
    <3>1. sends' \in 0..MaxSends
      BY <1>a, <1>1, IngestAssumption DEF Columns, Send, IngestAssumption
    <3>2. QED
      BY <1>a, <1>1, <3>1 DEF Columns, Send, landing, runs, facts
  <2>2. PICK b \in Bundle : job' = [job EXCEPT ![c] = b]
    BY <1>1 DEF Send
  <2>3. Requests'
    BY <1>a, <1>1, <2>2 DEF Requests, Send, Goto
  <2>4. Locks'
    BY <1>1, <1>c DEF Send
  <2>5. QED
    BY <2>1, <2>3, <2>4
<1>2. ASSUME NEW c \in Client, Find(c) PROVE Columns' /\ Requests' /\ Locks'
  <2>1. Columns'
    BY <1>a, <1>2, SameColumns DEF Find
  <2>2. PICK next \in Phase : Moves(c, next) \/ (next = "idle" /\ End(c))
    BY <1>2 DEF Find, Moves
  <2>3. Goto(c, next) /\ UNCHANGED held
    BY <1>2, <2>2 DEF Find, Moves, End
  <2>4. QED
    BY <1>2, <1>b, <1>c, <2>1, <2>2, <2>3 DEF Find
<1>3. ASSUME NEW c \in Client, Land(c) PROVE Columns' /\ Requests' /\ Locks'
  <2>1. Columns'
    <3>1. job[c] \in Bundle
      BY <1>a, <1>3 DEF Requests, Land
    <3>2. landed' \in [Key -> Bundle \cup {NoBundle}]
      BY <1>a, <1>3, <3>1 DEF Columns, Land, landing
    <3>3. lifecycle' \in [Key -> {"none", "received", "accepted", "failed"}]
      BY <1>a, <1>3 DEF Columns, Land, landing
    <3>4. QED
      BY <1>a, <1>3, <3>2, <3>3 DEF Columns, Land, runs, facts, bounds
  <2>2. PICK next \in Phase : Moves(c, next) \/ (next = "idle" /\ End(c))
    BY <1>3 DEF Land, Moves
  <2>3. Goto(c, next) /\ UNCHANGED held
    BY <1>3, <2>2 DEF Land, Moves, End
  <2>4. QED
    BY <1>3, <1>b, <1>c, <2>1, <2>2, <2>3 DEF Land
<1>4. ASSUME NEW c \in Client, Begin(c) PROVE Columns' /\ Requests' /\ Locks'
  <2>1. Columns'
    BY <1>a, <1>4, SameColumns DEF Begin
  <2>2. PICK next \in Phase : Moves(c, next)
    BY <1>4 DEF Begin, Moves
  <2>3. Requests'
    BY <1>4, <1>b, <2>2 DEF Begin
  <2>4. Locks'
    <3>1. CASE UNCHANGED held
      BY <1>4, <1>c, <2>2, <3>1 DEF Begin, Moves
    <3>2. CASE Goto(c, "assets") /\ held' = [held EXCEPT ![c] = {job[c].key}]
      <4>1. job[c].key \in Key
        BY <1>a, <1>4, BundleParts DEF Requests, Begin
      <4>2. held[c] = {} /\ Free(c, job[c].key)
        BY <1>a, <1>4 DEF Locks, Begin
      <4>3. held' = [held EXCEPT ![c] = @ \cup {job[c].key}]
        BY <3>2, <4>2
      <4>4. phase'[c] = "assets" /\ \A d \in Client \ {c} : phase'[d] = phase[d]
        BY <1>a, <3>2 DEF Requests, Goto
      <4>5. QED
        BY <1>a, <4>1, <4>2, <4>3, <4>4, TakenLock
    <3>3. QED
      BY <1>4, <3>1, <3>2 DEF Begin
  <2>5. QED
    BY <2>1, <2>3, <2>4
<1>5. ASSUME NEW c \in Client, Take(c) PROVE Columns' /\ Requests' /\ Locks'
  <2>1. Columns'
    BY <1>a, <1>5, SameColumns DEF Take
  <2>2. Requests'
    BY <1>a, <1>5 DEF Requests, Take
  <2>3. PICK row \in Wanted(c) : Free(c, row) /\ held' = [held EXCEPT ![c] = @ \cup {row}]
    BY <1>5 DEF Take
  <2>4. row \in Key \cup Asset \cup Point
    BY <1>a, <1>5, BundleParts DEF Requests, Take, Wanted
  <2>5. Locks'
    BY <1>a, <1>5, <2>3, <2>4, TakenLock DEF Take
  <2>6. QED
    BY <2>1, <2>2, <2>5
<1>6. ASSUME NEW c \in Client, CheckTree(c) PROVE Columns' /\ Requests' /\ Locks'
  <2>1. Columns'
    BY <1>a, <1>6, SameColumns DEF CheckTree
  <2>2. CASE Moves(c, "points") /\ UNCHANGED held
    <3>1. Goto(c, "points")
      BY <2>2 DEF Moves
    <3>2. Locks'
      BY <1>a, <2>2, <3>1, KeptLocks
    <3>3. QED
      BY <1>6, <1>b, <2>1, <2>2, <3>2 DEF CheckTree
  <2>3. CASE RollBack(c)
    BY <1>6, <1>b, <1>d, <2>1, <2>3 DEF CheckTree, RollBack, Moves
  <2>4. QED
    BY <1>6, <2>2, <2>3 DEF CheckTree, Moves
<1>7. ASSUME NEW c \in Client, Commit(c) PROVE Columns' /\ Requests' /\ Locks'
  <2>1. Columns'
    BY <1>a, <1>7, AppliedColumns DEF Columns, Requests, Commit, Complete, bounds
  <2>2. QED
    BY <1>7, <1>b, <1>d, <2>1 DEF Commit, Complete, Moves
<1>8. ASSUME NEW c \in Client, CommitUnheard(c) PROVE Columns' /\ Requests' /\ Locks'
  <2>1. Columns'
    BY <1>a, <1>8, AppliedColumns, FaultCount DEF Columns, Requests, CommitUnheard, Complete
  <2>2. QED
    BY <1>8, <1>b, <1>d, <2>1 DEF CommitUnheard, Complete, RollBack, Moves
<1>9. ASSUME NEW c \in Client, Mismatch(c) \/ Fails(c) \/ GiveUp(c)
      PROVE  Columns' /\ Requests' /\ Locks'
  <2>1. Columns'
    BY <1>a, <1>9, SameColumns DEF Mismatch, Fails, GiveUp
  <2>2. phase[c] # "idle" /\ RollBack(c)
    BY <1>9 DEF Mismatch, Fails, GiveUp, Complete, Wanted
  <2>3. QED
    BY <1>b, <1>d, <2>1, <2>2 DEF RollBack, Moves
<1>10. ASSUME NEW c \in Client, Record(c) PROVE Columns' /\ Requests' /\ Locks'
  <2>1. job[c] \in Bundle
    BY <1>a, <1>10 DEF Requests, Record
  <2>2. run' \in [Key -> {"none", "failed", "succeeded"}]
    BY <1>a, <1>10 DEF Columns, Record
  <2>3. payload' \in [Key -> Bundle \cup {NoBundle}]
    BY <1>a, <1>10, <2>1 DEF Columns, Record
  <2>4. Columns'
    BY <1>a, <1>10, <2>2, <2>3 DEF Columns, Record, landing, facts, bounds
  <2>5. QED
    BY <1>10, <1>b, <1>c, <2>4 DEF Record, Moves
<1>11. ASSUME NEW c \in Client, Accept(c) PROVE Columns' /\ Requests' /\ Locks'
  <2>1. answered' \subseteq Bundle
    BY <1>a, <1>11 DEF Columns, Requests, Accept
  <2>2. Columns'
    BY <1>a, <1>11, <2>1 DEF Columns, Accept, runs, facts, bounds
  <2>3. QED
    BY <1>11, <1>b, <1>c, <2>2 DEF Accept, End
<1>12. ASSUME NEW c \in Client, Reject(c) PROVE Columns' /\ Requests' /\ Locks'
  <2>1. Columns'
    BY <1>a, <1>12 DEF Columns, Reject, runs, facts, bounds
  <2>2. QED
    BY <1>12, <1>b, <1>c, <2>1 DEF Reject, End
<1>13. ASSUME NEW c \in Client, ArchiveFails(c) \/ RejectFails(c) PROVE Columns' /\ Requests' /\ Locks'
  <2>1. Columns'
    BY <1>a, <1>13, SameColumns DEF ArchiveFails, RejectFails
  <2>2. QED
    BY <1>13, <1>b, <1>c, <2>1 DEF ArchiveFails, RejectFails, End
<1>14. ASSUME NEW c \in Client, Denied(c) \/ RecordFails(c) \/ AcceptFails(c)
       PROVE  Columns' /\ Requests' /\ Locks'
  <2>1. Columns'
    BY <1>a, <1>14, SameColumns DEF Denied, RecordFails, AcceptFails
  <2>2. QED
    BY <1>14, <1>b, <1>c, <2>1 DEF Denied, RecordFails, AcceptFails, Moves
<1>15. ASSUME NEW c \in Client, Crash(c) PROVE Columns' /\ Requests' /\ Locks'
  <2>1. Columns'
    BY <1>a, <1>15, SameColumns DEF Crash
  <2>2. QED
    BY <1>15, <1>b, <1>d, <2>1 DEF Crash, End
<1>16. CASE UNCHANGED vars
  BY <1>a, <1>16 DEF Columns, Requests, Locks, vars, request, landing, runs, facts, bounds
<1>17. QED
  BY <1>1, <1>2, <1>3, <1>4, <1>5, <1>6, <1>7, <1>8, <1>9, <1>10, <1>11, <1>12, <1>13,
     <1>14, <1>15, <1>16 DEF Next, Step, Trouble

LEMMA TypeInit == Init => TypeOK
BY IngestAssumption DEF Init, TypeOK, Phase, IngestAssumption

(* The columns keep their types, no two transactions hold one lock, and    *)
(* only an open transaction holds any.                                     *)
THEOREM TypeCorrect == Spec => []TypeOK
BY TypeInit, TypeStep, PTL DEF Spec

-----------------------------------------------------------------------------
(* The invariant that makes the tables right.  A request past its archive  *)
(* carries the bundle that is landed; one that waits to be accepted has a  *)
(* succeeded run of that bundle; an open transaction holds the lock of its *)
(* run, which has therefore not succeeded; and what a succeeded run brought*)
(* is stored.                                                              *)
Carried ==
    \A c \in Client : phase[c] \notin {"idle", "find", "land"} => landed[job[c].key] = job[c]

Paid ==
    \A c \in Client : phase[c] = "accept" =>
       run[job[c].key] = "succeeded" /\ payload[job[c].key] = job[c]

Open ==
    \A c \in Client : phase[c] \in {"assets", "points"} =>
       job[c].key \in held[c] /\ run[job[c].key] # "succeeded"

Stored ==
    \A k \in Key : run[k] = "succeeded" =>
       \A p \in DOMAIN payload[k].value : value[p] = payload[k].value[p]

Told == \A b \in answered : run[b.key] = "succeeded" /\ payload[b.key] = b

IInv ==
    /\ TypeOK /\ Carried /\ Paid /\ Open
    /\ RunsWereArchived /\ Stored /\ Told /\ AcceptedMeansSucceeded /\ PointsHaveOrigin

LEMMA InvInit == Init => IInv
<1> SUFFICES ASSUME Init PROVE IInv
  OBVIOUS
<1>1. TypeOK
  BY TypeInit
<1>2. Carried /\ Paid /\ Open
  BY DEF Init, Carried, Paid, Open
<1>3. RunsWereArchived /\ Stored /\ Told /\ AcceptedMeansSucceeded /\ PointsHaveOrigin
  BY DEF Init, RunsWereArchived, Stored, Told, AcceptedMeansSucceeded, PointsHaveOrigin
<1>4. QED
  BY <1>1, <1>2, <1>3 DEF IInv

(* A step of one client leaves the others' requests and locks alone.       *)
Act(c) == Send(c) \/ Step(c) \/ Trouble(c)

LEMMA OthersStay ==
    ASSUME TypeOK, NEW c \in Client, Act(c), NEW d \in Client, d # c
    PROVE  phase'[d] = phase[d] /\ job'[d] = job[d] /\ held'[d] = held[d]
<1>1. phase'[d] = phase[d]
  BY DEF Act, Step, Trouble, Send, Find, Land, Begin, Take, CheckTree, Commit, Mismatch,
         GiveUp, Record, Accept, Reject, ArchiveFails, Denied, CommitUnheard, Fails,
         RecordFails, AcceptFails, RejectFails, Crash, RollBack, End, Goto, TypeOK
<1>2. job'[d] = job[d]
  BY DEF Act, Step, Trouble, Send, Find, Land, Begin, Take, CheckTree, Commit, Mismatch,
         GiveUp, Record, Accept, Reject, ArchiveFails, Denied, CommitUnheard, Fails,
         RecordFails, AcceptFails, RejectFails, Crash, RollBack, End, TypeOK
<1>3. held'[d] = held[d]
  BY DEF Act, Step, Trouble, Send, Find, Land, Begin, Take, CheckTree, Commit, Mismatch,
         GiveUp, Record, Accept, Reject, ArchiveFails, Denied, CommitUnheard, Fails,
         RecordFails, AcceptFails, RejectFails, Crash, RollBack, Release, TypeOK
<1>4. QED
  BY <1>1, <1>2, <1>3

(* The three ways a step treats runs, points and parents.                  *)
Applies(c) == Complete(c) /\ Agrees(c) /\ Apply(c) /\ UNCHANGED <<job, landing, answered>>

LEMMA ThreeWays ==
    ASSUME NEW c \in Client, Act(c)
    PROVE  Applies(c) \/ Record(c) \/ UNCHANGED <<runs, facts>>
BY DEF Act, Step, Trouble, Send, Find, Land, Begin, Take, CheckTree, Commit, Mismatch,
       GiveUp, Accept, Reject, ArchiveFails, Denied, CommitUnheard, Fails,
       RecordFails, AcceptFails, RejectFails, Crash, RollBack, Applies

(* What the run of another open transaction is, this one's commit is not.  *)
LEMMA OneOpenPerRun ==
    ASSUME TypeOK, Open, NEW c \in Client, NEW d \in Client, c # d,
           phase[c] \in {"assets", "points"}, phase[d] \in {"assets", "points"}
    PROVE  job[c].key # job[d].key
BY DEF TypeOK, Open

-----------------------------------------------------------------------------
(* What is in the tables stays there.                                      *)
LEMMA LandedStays ==
    ASSUME TypeOK, NEW c \in Client, Act(c), NEW k \in Key, landed[k] # NoBundle
    PROVE  landed'[k] = landed[k]
BY DEF Act, Step, Trouble, Send, Find, Land, Begin, Take, CheckTree, Commit, Mismatch,
       GiveUp, Record, Accept, Reject, ArchiveFails, Denied, CommitUnheard, Fails,
       RecordFails, AcceptFails, RejectFails, Crash, landing, TypeOK

LEMMA SucceededStays ==
    ASSUME TypeOK, Open, NEW c \in Client, Act(c), NEW k \in Key, run[k] = "succeeded"
    PROVE  run'[k] = "succeeded" /\ payload'[k] = payload[k]
<1>1. CASE Applies(c)
  <2>1. k # job[c].key
    BY <1>1 DEF Applies, Complete, Open
  <2>2. QED
    BY <1>1, <2>1 DEF Applies, Apply, TypeOK
<1>2. CASE Record(c)
  BY <1>2 DEF Record, TypeOK
<1>3. CASE UNCHANGED <<runs, facts>>
  BY <1>3 DEF runs
<1>4. QED
  BY <1>1, <1>2, <1>3, ThreeWays

LEMMA PointsStay ==
    ASSUME TypeOK, NEW c \in Client, Act(c), NEW p \in Point, value[p] # NoValue
    PROVE  value'[p] = value[p]
<1>1. CASE Applies(c)
  BY <1>1 DEF Applies, Apply, Agrees
<1>2. CASE Record(c)
  BY <1>2 DEF Record, facts
<1>3. CASE UNCHANGED <<runs, facts>>
  BY <1>3 DEF facts
<1>4. QED
  BY <1>1, <1>2, <1>3, ThreeWays

(* A run succeeds only by the commit of a transaction that carries it.     *)
LEMMA SucceedsByCommit ==
    ASSUME TypeOK, NEW c \in Client, Act(c), NEW k \in Key,
           run[k] # "succeeded", run'[k] = "succeeded"
    PROVE  Applies(c) /\ k = job[c].key /\ payload'[k] = job[c]
<1>1. CASE Applies(c)
  BY <1>1 DEF Applies, Apply, TypeOK
<1>2. CASE Record(c)
  BY <1>2 DEF Record, TypeOK
<1>3. CASE UNCHANGED <<runs, facts>>
  BY <1>3 DEF runs
<1>4. QED
  BY <1>1, <1>2, <1>3, ThreeWays

-----------------------------------------------------------------------------
(* One step of a client c.                                                 *)
LEMMA CarriedStep ==
    ASSUME TypeOK, Carried, NEW c \in Client, Act(c) PROVE Carried'
<1> DEFINE late(ph) == ph \notin {"idle", "find", "land"}
<1>1. ASSUME late(phase'[c])
      PROVE  (late(phase[c]) /\ job'[c] = job[c]) \/ landed'[job'[c].key] = job'[c]
  <2>1. CASE Find(c)
    BY <1>1, <2>1 DEF Find, Goto, End, landing, TypeOK
  <2>2. CASE Land(c)
    <3>1. job[c] \in Bundle /\ job[c].key \in Key
      BY <2>2, BundleParts DEF Land, TypeOK
    <3>2. CASE landed[job[c].key] = NoBundle
      <4>1. job' = job /\ landed' = [landed EXCEPT ![job[c].key] = job[c]]
        BY <2>2, <3>1, <3>2, IngestAssumption DEF Land, IngestAssumption
      <4>2. QED
        BY <3>1, <4>1 DEF TypeOK
    <3>3. CASE landed[job[c].key] # NoBundle
      BY <1>1, <2>2, <3>1, <3>3 DEF Land, Goto, End, landing, TypeOK
    <3>4. QED
      BY <3>2, <3>3
  <2>3. CASE ~Find(c) /\ ~Land(c)
    BY <1>1, <2>3 DEF Act, Step, Trouble, Send, Find, Land, Begin, Take, CheckTree, Commit, Mismatch,
           GiveUp, Record, Accept, Reject, ArchiveFails, Denied, CommitUnheard, Fails,
           RecordFails, AcceptFails, RejectFails, Crash, RollBack, End, Goto, Complete, Wanted, TypeOK
  <2>4. QED
    BY <2>1, <2>2, <2>3
<1> HIDE DEF late
<1>2. ASSUME NEW d \in Client, late(phase'[d]) PROVE landed'[job'[d].key] = job'[d]
  <2>1. CASE late(phase[d]) /\ job'[d] = job[d]
    <3>1. landed[job[d].key] = job[d]
      BY <2>1 DEF Carried, late
    <3>2. job[d] \in Bundle /\ job[d].key \in Key /\ job[d] # NoBundle
      BY <2>1, BundleParts, IngestAssumption DEF TypeOK, late, IngestAssumption
    <3>3. QED
      BY <2>1, <3>1, <3>2, LandedStays
  <2>2. CASE d # c
    BY <1>2, <2>1, <2>2, OthersStay
  <2>3. CASE d = c
    BY <1>1, <1>2, <2>1, <2>3
  <2>4. QED
    BY <2>2, <2>3
<1>3. QED
  BY <1>2 DEF Carried, late

LEMMA OpenStep ==
    ASSUME TypeOK, Open, NEW c \in Client, Act(c) PROVE Open'
<1>1. ASSUME NEW d \in Client, phase'[d] \in {"assets", "points"}
      PROVE  job'[d].key \in held'[d] /\ run'[job'[d].key] # "succeeded"
  <2>1. CASE d # c
    <3>1. phase[d] \in {"assets", "points"} /\ job'[d] = job[d] /\ held'[d] = held[d]
      BY <1>1, <2>1, OthersStay
    <3>2. job[d].key \in held[d] /\ run[job[d].key] # "succeeded" /\ job[d].key \in Key
      BY <3>1, BundleParts DEF Open, TypeOK
    <3>3. ASSUME run'[job[d].key] = "succeeded" PROVE FALSE
      <4>1. Applies(c) /\ job[d].key = job[c].key
        BY <3>2, <3>3, SucceedsByCommit
      <4>2. QED
        BY <2>1, <3>1, <4>1, OneOpenPerRun DEF Applies, Complete
    <3>4. QED
      BY <3>1, <3>2, <3>3
  <2>2. CASE d = c
    <3>1. CASE Begin(c)
      BY <1>1, <2>2, <3>1, BundleParts DEF Begin, Goto, runs, TypeOK
    <3>2. CASE Take(c)
      <4>1. job'[c] = job[c] /\ UNCHANGED run /\ held[c] \subseteq held'[c]
        BY <3>2 DEF Take, runs, TypeOK
      <4>2. QED
        BY <2>2, <3>2, <4>1 DEF Take, Open
    <3>3. CASE CheckTree(c)
      <4>1. job'[c] = job[c] /\ UNCHANGED run /\ UNCHANGED held
        BY <1>1, <2>2, <3>3 DEF CheckTree, RollBack, Goto, runs, TypeOK
      <4>2. QED
        BY <2>2, <3>3, <4>1 DEF CheckTree, Open
    <3>4. CASE ~Begin(c) /\ ~Take(c) /\ ~CheckTree(c)
      BY <1>1, <2>2, <3>4 DEF Act, Step, Trouble, Send, Find, Land, Begin, Take, CheckTree, Commit, Mismatch,
           GiveUp, Record, Accept, Reject, ArchiveFails, Denied, CommitUnheard, Fails,
           RecordFails, AcceptFails, RejectFails, Crash, RollBack, End, Goto, Complete, Wanted, TypeOK
    <3>5. QED
      BY <3>1, <3>2, <3>3, <3>4
  <2>3. QED
    BY <2>1, <2>2
<1>2. QED
  BY <1>1 DEF Open

LEMMA PaidStep ==
    ASSUME TypeOK, Paid, Open, RunsWereArchived, NEW c \in Client, Act(c) PROVE Paid'
<1>1. ASSUME NEW d \in Client, phase'[d] = "accept"
      PROVE  run'[job'[d].key] = "succeeded" /\ payload'[job'[d].key] = job'[d]
  <2>1. CASE phase[d] = "accept" /\ job'[d] = job[d]
    <3>1. run[job[d].key] = "succeeded" /\ payload[job[d].key] = job[d] /\ job[d].key \in Key
      BY <2>1, BundleParts DEF Paid, TypeOK
    <3>2. QED
      BY <2>1, <3>1, SucceededStays
  <2>2. CASE d # c
    BY <1>1, <2>1, <2>2, OthersStay
  <2>3. CASE d = c
    <3>1. CASE Begin(c)
      <4>1. job[c] \in Bundle /\ job[c].key \in Key
        BY <3>1, BundleParts DEF Begin, TypeOK
      <4>2. run[job[c].key] = "succeeded" /\ payload[job[c].key] \in {NoBundle, job[c]}
        <5>1. CASE payload[job[c].key] \notin {NoBundle, job[c]}
          <6>1. Goto(c, "reject")
            BY <3>1, <5>1 DEF Begin
          <6>2. QED
            BY <1>1, <2>3, <6>1 DEF Goto, TypeOK
        <5>2. CASE payload[job[c].key] \in {NoBundle, job[c]} /\ run[job[c].key] # "succeeded"
          <6>1. Goto(c, "assets")
            BY <3>1, <5>2 DEF Begin
          <6>2. QED
            BY <1>1, <2>3, <6>1 DEF Goto, TypeOK
        <5>3. QED
          BY <5>1, <5>2
      <4>3. payload[job[c].key] = job[c]
        BY <4>1, <4>2 DEF RunsWereArchived
      <4>4. QED
        BY <2>3, <3>1, <4>2, <4>3 DEF Begin, runs
    <3>2. CASE Commit(c)
      <4>1. job[c].key \in Key
        BY <3>2, BundleParts DEF Commit, Complete, TypeOK
      <4>2. QED
        BY <2>3, <3>2, <4>1 DEF Commit, Apply, TypeOK
    <3>3. CASE ~Begin(c) /\ ~Commit(c)
      BY <1>1, <2>1, <2>3, <3>3 DEF Act, Step, Trouble, Send, Find, Land, Begin, Take, CheckTree, Commit, Mismatch,
           GiveUp, Record, Accept, Reject, ArchiveFails, Denied, CommitUnheard, Fails,
           RecordFails, AcceptFails, RejectFails, Crash, RollBack, End, Goto, Complete, Wanted, TypeOK
    <3>4. QED
      BY <3>1, <3>2, <3>3
  <2>4. QED
    BY <2>2, <2>3
<1>2. QED
  BY <1>1 DEF Paid

LEMMA ArchivedStep ==
    ASSUME TypeOK, Carried, RunsWereArchived, NEW c \in Client, Act(c)
    PROVE  RunsWereArchived'
<1>1. ASSUME NEW k \in Key, run'[k] # "none"
      PROVE  payload'[k] # NoBundle /\ payload'[k] = landed'[k]
  <2>1. CASE run[k] # "none" /\ payload'[k] = payload[k]
    BY <1>1, <2>1, LandedStays DEF RunsWereArchived
  <2>2. CASE k = job[c].key /\ payload'[k] = job[c] /\ (Applies(c) \/ Record(c))
    <3>1. job[c] \in Bundle /\ job[c] # NoBundle /\ landed[k] = job[c]
      BY <2>2, IngestAssumption DEF Applies, Complete, Record, Carried, TypeOK, IngestAssumption
    <3>2. QED
      BY <2>2, <3>1, LandedStays
  <2>3. CASE Applies(c)
    BY <1>1, <2>1, <2>2, <2>3 DEF Applies, Apply, TypeOK
  <2>4. CASE Record(c)
    BY <1>1, <2>1, <2>2, <2>4 DEF Record, TypeOK
  <2>5. CASE UNCHANGED <<runs, facts>>
    BY <1>1, <2>1, <2>5 DEF runs
  <2>6. QED
    BY <2>3, <2>4, <2>5, ThreeWays
<1>2. QED
  BY <1>1 DEF RunsWereArchived

LEMMA StoredStep ==
    ASSUME TypeOK, Open, RunsWereArchived, Stored, NEW c \in Client, Act(c) PROVE Stored'
<1>1. ASSUME NEW k \in Key, run'[k] = "succeeded", NEW p \in DOMAIN payload'[k].value
      PROVE  value'[p] = payload'[k].value[p]
  <2>1. CASE run[k] = "succeeded"
    <3>1. payload'[k] = payload[k] /\ value[p] = payload[k].value[p]
      BY <1>1, <2>1, SucceededStays DEF Stored
    <3>2. payload[k] \in Bundle
      BY <2>1 DEF RunsWereArchived, TypeOK
    <3>3. p \in Point /\ payload[k].value[p] \in Value
      BY <1>1, <3>1, <3>2, BundleParts
    <3>4. QED
      BY <3>1, <3>3, PointsStay, IngestAssumption DEF IngestAssumption
  <2>2. CASE run[k] # "succeeded"
    <3>1. Applies(c) /\ payload'[k] = job[c]
      BY <1>1, <2>2, SucceedsByCommit
    <3>2. p \in Point
      BY <1>1, <3>1, BundleParts DEF Applies, Complete, TypeOK
    <3>3. QED
      BY <1>1, <3>1, <3>2 DEF Applies, Apply
  <2>3. QED
    BY <2>1, <2>2
<1>2. QED
  BY <1>1 DEF Stored

LEMMA ToldStep ==
    ASSUME TypeOK, Open, Paid, Told, NEW c \in Client, Act(c) PROVE Told'
<1>1. ASSUME NEW b \in answered' PROVE run[b.key] = "succeeded" /\ payload[b.key] = b /\ b \in Bundle
  <2>1. CASE b \in answered
    BY <2>1 DEF Told, TypeOK
  <2>2. CASE b \notin answered
    <3>1. Accept(c) /\ b = job[c]
      BY <1>1, <2>2 DEF Act, Step, Trouble, Send, Find, Land, Begin, Take, CheckTree, Commit, Mismatch,
           GiveUp, Record, Accept, Reject, ArchiveFails, Denied, CommitUnheard, Fails,
           RecordFails, AcceptFails, RejectFails, Crash, RollBack, End, Goto
    <3>2. QED
      BY <3>1 DEF Accept, Paid, TypeOK
  <2>3. QED
    BY <2>1, <2>2
<1>2. QED
  BY <1>1, BundleParts, SucceededStays DEF Told

LEMMA LifecycleStep ==
    ASSUME TypeOK, Open, Paid, AcceptedMeansSucceeded, NEW c \in Client, Act(c)
    PROVE  AcceptedMeansSucceeded'
<1>1. ASSUME NEW k \in Key, lifecycle'[k] = "accepted" PROVE run[k] = "succeeded"
  <2>1. CASE lifecycle[k] = "accepted"
    BY <2>1 DEF AcceptedMeansSucceeded
  <2>2. CASE lifecycle[k] # "accepted"
    <3>1. Accept(c) /\ k = job[c].key
      BY <1>1, <2>2 DEF Act, Step, Trouble, Send, Find, Land, Begin, Take, CheckTree, Commit, Mismatch,
           GiveUp, Record, Accept, Reject, ArchiveFails, Denied, CommitUnheard, Fails,
           RecordFails, AcceptFails, RejectFails, Crash, RollBack, End, Goto, landing, TypeOK
    <3>2. QED
      BY <3>1 DEF Accept, Paid
  <2>3. QED
    BY <2>1, <2>2
<1>2. QED
  BY <1>1, SucceededStays DEF AcceptedMeansSucceeded

LEMMA OriginStep ==
    ASSUME TypeOK, Open, PointsHaveOrigin, NEW c \in Client, Act(c) PROVE PointsHaveOrigin'
<1> DEFINE from(k, p) == /\ run[k] = "succeeded"
                         /\ p \in DOMAIN payload[k].value
                         /\ payload[k].value[p] = value[p]
<1>1. ASSUME NEW p \in Point, value'[p] # NoValue
      PROVE  \E k \in Key : /\ run'[k] = "succeeded"
                            /\ p \in DOMAIN payload'[k].value
                            /\ payload'[k].value[p] = value'[p]
  <2>1. CASE value[p] # NoValue
    <3>1. PICK k \in Key : from(k, p)
      BY <2>1 DEF PointsHaveOrigin
    <3>2. QED
      BY <2>1, <3>1, SucceededStays, PointsStay
  <2>2. CASE value[p] = NoValue
    <3>1. Applies(c)
      BY <1>1, <2>2, ThreeWays DEF Record, facts
    <3>2. job[c] \in Bundle /\ job[c].key \in Key
      BY <3>1, BundleParts DEF Applies, Complete, TypeOK
    <3>3. p \in DOMAIN job[c].value /\ value'[p] = job[c].value[p]
      BY <1>1, <2>2, <3>1 DEF Applies, Apply
    <3>4. run'[job[c].key] = "succeeded" /\ payload'[job[c].key] = job[c]
      BY <3>1, <3>2 DEF Applies, Apply, TypeOK
    <3>5. QED
      BY <3>2, <3>3, <3>4
  <2>3. QED
    BY <2>1, <2>2
<1>2. QED
  BY <1>1 DEF PointsHaveOrigin

LEMMA InvStep == IInv /\ [Next]_vars => IInv'
<1> SUFFICES ASSUME IInv, [Next]_vars PROVE IInv'
  OBVIOUS
<1>1. TypeOK'
  BY TypeStep DEF IInv
<1>2. CASE UNCHANGED vars
  <2>1. Carried' /\ Paid' /\ Open' /\ Stored' /\ Told'
    BY <1>2 DEF IInv, Carried, Paid, Open, Stored, Told, vars, request, landing, runs, facts
  <2>2. RunsWereArchived' /\ AcceptedMeansSucceeded' /\ PointsHaveOrigin'
    BY <1>2 DEF IInv, RunsWereArchived, AcceptedMeansSucceeded, PointsHaveOrigin,
                vars, landing, runs, facts
  <2>3. QED
    BY <1>1, <2>1, <2>2 DEF IInv
<1>3. ASSUME NEW c \in Client, Act(c) PROVE IInv'
  BY <1>1, <1>3, CarriedStep, PaidStep, OpenStep, ArchivedStep, StoredStep, ToldStep,
     LifecycleStep, OriginStep DEF IInv
<1>4. QED
  BY <1>2, <1>3 DEF Next, Act

LEMMA Invariant == Spec => []IInv
BY InvInit, InvStep, PTL DEF Spec

(* No run is recorded, as failed or as succeeded, whose bundle is not the  *)
(* one archived under its id.                                              *)
THEOREM EvidenceFirst == Spec => []RunsWereArchived
<1>1. IInv => RunsWereArchived
  BY DEF IInv
<1>2. QED
  BY <1>1, Invariant, PTL

(* A sender that was told 200 or 201 finds its bundle stored for good.     *)
THEOREM AnswersHold == Spec => []AnsweredIsStored
<1>1. IInv => AnsweredIsStored
  <2> SUFFICES ASSUME IInv, NEW b \in answered
        PROVE  /\ run[b.key] = "succeeded" /\ payload[b.key] = b
               /\ \A p \in DOMAIN b.value : value[p] = b.value[p]
    BY DEF AnsweredIsStored
  <2>1. b.key \in Key
    BY BundleParts DEF IInv, TypeOK
  <2>2. QED
    BY <2>1 DEF IInv, Told, Stored
<1>2. QED
  BY <1>1, Invariant, PTL

(* No landing is called accepted before its run has succeeded, and no      *)
(* stored point is without a succeeded run that brought it.                *)
THEOREM NothingHalfDone == Spec => [](AcceptedMeansSucceeded /\ PointsHaveOrigin)
<1>1. IInv => AcceptedMeansSucceeded /\ PointsHaveOrigin
  BY DEF IInv
<1>2. QED
  BY <1>1, Invariant, PTL

-----------------------------------------------------------------------------
(* The refinement: COMMIT enters the bundle in the ledger, and no other    *)
(* step changes what the ledger shows.                                     *)
Entered == [k \in Key |-> IF run[k] = "succeeded" THEN payload[k] ELSE NoBundle]

LEMMA LedgerInit == Init => Ledger!Init
BY DEF Init, Ledger!Init

LEMMA LedgerStep == IInv /\ IInv' /\ [Next]_vars => [Ledger!Next]_(Ledger!vars)
<1> SUFFICES ASSUME IInv, IInv', [Next]_vars PROVE [Ledger!Next]_(Ledger!vars)
  OBVIOUS
<1>1. CASE UNCHANGED vars
  BY <1>1 DEF vars, runs, facts, Ledger!vars
<1>2. ASSUME NEW c \in Client, Act(c) PROVE [Ledger!Next]_(Ledger!vars)
  <2>1. CASE Applies(c)
    <3>1. PICK b \in Bundle : b = job[c]
      BY <2>1 DEF Applies, Complete, IInv, TypeOK
    <3>2. b.key \in Key /\ b # NoBundle
      BY <3>1, BundleParts, IngestAssumption DEF IngestAssumption
    <3>3. run[b.key] # "succeeded"
      BY <2>1, <3>1 DEF Applies, Complete, IInv, Open
    <3>4. run' = [run EXCEPT ![b.key] = "succeeded"] /\ payload' = [payload EXCEPT ![b.key] = b]
      BY <2>1, <3>1 DEF Applies, Apply
    <3>5. Entered' = [Entered EXCEPT ![b.key] = b]
      BY <3>2, <3>4 DEF Entered, IInv, TypeOK
    <3>6. Entered[b.key] = NoBundle
      BY <3>2, <3>3 DEF Entered
    <3>7. Ledger!Enter(b)
      BY <2>1, <3>1, <3>5, <3>6 DEF Ledger!Enter, Entered, Applies, Agrees, Apply, Hierarchy
    <3>8. QED
      BY <3>7 DEF Ledger!Next
  <2>2. CASE Record(c)
    <3>1. ASSUME NEW k \in Key PROVE Entered'[k] = Entered[k]
      BY <2>2 DEF Record, Entered, IInv, TypeOK
    <3>2. Entered' = Entered
      BY <3>1 DEF Entered
    <3>3. QED
      BY <2>2, <3>2 DEF Record, facts, Ledger!vars, Entered
  <2>3. CASE UNCHANGED <<runs, facts>>
    BY <2>3 DEF runs, facts, Ledger!vars
  <2>4. QED
    BY <1>2, <2>1, <2>2, <2>3, ThreeWays
<1>3. QED
  BY <1>1, <1>2 DEF Next, Act

(* Ingest implements the ledger: each run id is entered once, whole, and   *)
(* no retry, lost reply, failure or overlap changes a point entered.       *)
THEOREM IngestIsALedger == Spec => ImplementsIngestLedger
<1>1. Init => Ledger!Init
  BY LedgerInit
<1>2. IInv /\ IInv' /\ [Next]_vars => [Ledger!Next]_(Ledger!vars)
  BY LedgerStep
<1>3. QED
  BY <1>1, <1>2, Invariant, PTL DEF Spec, Ledger!Spec, ImplementsIngestLedger

-----------------------------------------------------------------------------
(* What is named, and where.                                               *)
LEMMA ObjectsNamedFacts ==
    ASSUME Objects!ObjectsInv
    PROVE  /\ \A o \in Object : objectVersions[o] \in Seq(Upload) /\ DOMAIN objectVersions[o] = 1 .. Len(objectVersions[o])
           /\ \A o \in Object : \A v \in DOMAIN objectVersions[o] : objectVersions[o][v] \in Objects!Named /\ objectVersions[o][v] \in Upload
           /\ \A w \in Objects!Named : w \in Upload /\ objectPhase[w] = "answered" /\ objectFile[w] = "placed"
<1>1. \A o \in Object : objectVersions[o] \in Seq(Upload) /\ DOMAIN objectVersions[o] = 1 .. Len(objectVersions[o])
  BY DEF Objects!ObjectsInv, Objects!TypeOK
<1>2. \A o \in Object : \A v \in DOMAIN objectVersions[o] : objectVersions[o][v] \in Upload
  BY <1>1
<1>3. \A o \in Object : \A v \in DOMAIN objectVersions[o] : objectVersions[o][v] \in Objects!Named
  BY <1>2 DEF Objects!Named
<1>4. \A w \in Objects!Named : w \in Upload
  BY DEF Objects!Named
<1> QED BY <1>1, <1>2, <1>3, <1>4 DEF Objects!ObjectsInv, Objects!FilesFollowPhases

LEMMA ObjectsFaultFacts == ASSUME Objects!ObjectsInv, Objects!Fault PROVE objectFaults' \in 0 .. MaxObjectFaults /\ objectFaults' # 0
  BY DataPlaneAssumptions DEF Objects!Fault, Objects!ObjectsInv, Objects!TypeOK,
     Objects!LocalObjectsAssumption

(* A request goes on to what it waits for next, or ends unanswered.        *)
ObjectsMoves(u, p, f) ==
    /\ objectPhase' = [objectPhase EXCEPT ![u] = p] /\ objectFile' = [objectFile EXCEPT ![u] = f]
    /\ objectFaults' \in 0 .. MaxObjectFaults
    /\ objectFaults' = 0 => objectFaults = 0
    /\ UNCHANGED <<Objects!tables, Objects!reader>>
    /\ p = "renamed" => f = "placed"
    /\ p = "failed" /\ objectFaults' = 0 => f = "none"

LEMMA ObjectsGoesOn ==
    ASSUME Objects!ObjectsInv, NEW u \in Upload,
           objectPhase[u] \in Objects!Waiting \cup {"idle"},
           NEW p \in Objects!Waiting \cup {"failed"}, NEW f \in {"none", "temporary", "placed"}, ObjectsMoves(u, p, f)
    PROVE  Objects!ObjectsInv'
<1>1. Objects!TypeOK /\ Objects!FilesFollowPhases /\ Objects!ReadersHaveVersions /\ Objects!FilesMatchRows
  BY DEF Objects!ObjectsInv
<1>2. UNCHANGED <<objectVersions, objectIndexed, objectReading, objectRecorded, objectServed, objectReads>> /\ objectFaults' \in 0 .. MaxObjectFaults
  BY DEF ObjectsMoves, Objects!tables, Objects!reader
<1>3. /\ objectPhase \in [Upload -> Objects!Waiting \cup {"idle", "answered", "failed"}]
      /\ objectFile \in [Upload -> {"none", "temporary", "placed"}]
  BY <1>1 DEF Objects!TypeOK
<1>4. /\ objectPhase'[u] = p /\ objectFile'[u] = f
      /\ \A w \in Upload : w # u => objectPhase'[w] = objectPhase[w] /\ objectFile'[w] = objectFile[w]
  BY <1>3 DEF ObjectsMoves
<1>5. objectPhase[u] # "answered" /\ p # "answered"
  BY DEF Objects!Waiting
<1>6. Objects!Named' = Objects!Named /\ \A w \in Objects!Named : w \in Upload /\ w # u
  BY <1>2, <1>5, ObjectsNamedFacts DEF Objects!Named
<1>7. Objects!TypeOK'
  <2>1. /\ objectPhase' \in [Upload -> Objects!Waiting \cup {"idle", "answered", "failed"}]
        /\ objectFile' \in [Upload -> {"none", "temporary", "placed"}]
    BY <1>3 DEF ObjectsMoves
  <2> QED BY <1>1, <1>2, <2>1 DEF Objects!TypeOK
<1>8. Objects!FilesFollowPhases'
  <2>1. \A w \in Upload : objectPhase'[w] = "answered" <=> w \in Objects!Named
    BY <1>1, <1>4, <1>5 DEF Objects!FilesFollowPhases
  <2>2. \A w \in Upload : objectPhase'[w] \in {"renamed", "answered"} => objectFile'[w] = "placed"
    BY <1>1, <1>4, <1>5 DEF Objects!FilesFollowPhases, ObjectsMoves
  <2>3. \A w \in Upload : objectPhase'[w] = "failed" /\ objectFaults' = 0 => objectFile'[w] = "none"
    BY <1>1, <1>4 DEF Objects!FilesFollowPhases, ObjectsMoves
  <2> QED BY <1>6, <2>1, <2>2, <2>3 DEF Objects!FilesFollowPhases
<1>9. Objects!ReadersHaveVersions'
  BY <1>1, <1>2 DEF Objects!ReadersHaveVersions
<1>10. Objects!FilesMatchRows'
  <2>1. \A w \in Objects!Named : objectFile'[w] = "placed"
    BY <1>4, <1>6, ObjectsNamedFacts
  <2>2. \A o \in Object : objectVersions[o] # <<>> => objectIndexed[o] = <<objectVersions[o][Len(objectVersions[o])]>>
    BY <1>1 DEF Objects!FilesMatchRows
  <2>3. objectFaults' = 0 => \A w \in Upload : objectPhase'[w] \in {"answered", "failed"} => (objectFile'[w] # "none" => w \in Objects!Named)
    BY <1>6, <1>8 DEF Objects!FilesFollowPhases
  <2> QED BY <1>2, <1>6, <2>1, <2>2, <2>3 DEF Objects!FilesMatchRows, Objects!Ended
<1> QED BY <1>7, <1>8, <1>9, <1>10 DEF Objects!ObjectsInv

LEMMA ObjectsUploadSteps ==
    ASSUME Objects!ObjectsInv, NEW u \in Upload,
           \/ Objects!Stream(u) \/ Objects!Staged(u) \/ Objects!StreamFails(u) \/ Objects!Rename(u) \/ Objects!RenameFails(u) \/ Objects!PersistFails(u) \/ Objects!Remove(u)
    PROVE  Objects!ObjectsInv'
<1>1. /\ objectFile \in [Upload -> {"none", "temporary", "placed"}] /\ objectFaults \in 0 .. MaxObjectFaults
      /\ objectPhase[u] = "renamed" => objectFile[u] = "placed"
  BY DEF Objects!ObjectsInv, Objects!TypeOK, Objects!FilesFollowPhases
<1>2. objectFile[u] \in {"none", "temporary", "placed"} /\ objectFile = [objectFile EXCEPT ![u] = objectFile[u]]
  BY <1>1
<1>3. CASE Objects!Stream(u)
  <2>1. ObjectsMoves(u, "streaming", "temporary") /\ objectPhase[u] = "idle"
    BY <1>1, <1>3 DEF Objects!Stream, Objects!Goto, Objects!Place, ObjectsMoves
  <2> QED BY <2>1, ObjectsGoesOn DEF Objects!Waiting
<1>4. CASE Objects!Staged(u)
  <2>1. ObjectsMoves(u, "renaming", objectFile[u]) /\ objectPhase[u] = "streaming"
    BY <1>1, <1>2, <1>4 DEF Objects!Staged, Objects!Goto, ObjectsMoves
  <2> QED BY <1>2, <2>1, ObjectsGoesOn DEF Objects!Waiting
<1>5. CASE Objects!StreamFails(u)
  <2>1. ObjectsMoves(u, "cleaning", objectFile[u]) /\ objectPhase[u] = "streaming"
    BY <1>1, <1>2, <1>5 DEF Objects!StreamFails, Objects!Goto, ObjectsMoves
  <2> QED BY <1>2, <2>1, ObjectsGoesOn DEF Objects!Waiting
<1>6. CASE Objects!Rename(u)
  <2>1. ObjectsMoves(u, "renamed", "placed") /\ objectPhase[u] = "renaming"
    BY <1>1, <1>6 DEF Objects!Rename, Objects!Goto, Objects!Place, ObjectsMoves
  <2> QED BY <2>1, ObjectsGoesOn DEF Objects!Waiting
<1>7. CASE Objects!RenameFails(u)
  <2>1. PICK p \in {"cleaning", "failed"} : ObjectsMoves(u, p, objectFile[u]) /\ objectPhase[u] = "renaming"
    BY <1>1, <1>2, <1>7, ObjectsFaultFacts DEF Objects!RenameFails, Objects!Goto, ObjectsMoves
  <2> QED BY <1>2, <2>1, ObjectsGoesOn DEF Objects!Waiting
<1>8. CASE Objects!PersistFails(u)
  <2>1. ObjectsMoves(u, "removing", objectFile[u]) /\ objectPhase[u] = "renamed"
    BY <1>1, <1>2, <1>8, ObjectsFaultFacts DEF Objects!PersistFails, Objects!Placed,
       Objects!Goto, ObjectsMoves
  <2> QED BY <1>2, <2>1, ObjectsGoesOn DEF Objects!Waiting
<1>9. CASE Objects!Remove(u)
  <2>1. objectPhase[u] \in Objects!Waiting
    BY <1>9 DEF Objects!Remove, Objects!Waiting
  <2>2. CASE Objects!Place(u, "none") /\ UNCHANGED objectFaults
    <3>1. ObjectsMoves(u, "failed", "none")
      BY <1>1, <1>9, <2>2 DEF Objects!Remove, Objects!Goto, Objects!Place, ObjectsMoves
    <3> QED BY <2>1, <3>1, ObjectsGoesOn
  <2>3. CASE Objects!Fault /\ UNCHANGED objectFile
    <3>1. ObjectsMoves(u, "failed", objectFile[u])
      BY <1>2, <1>9, <2>3, ObjectsFaultFacts DEF Objects!Remove, Objects!Goto, ObjectsMoves
    <3> QED BY <1>2, <2>1, <3>1, ObjectsGoesOn
  <2> QED BY <1>9, <2>2, <2>3 DEF Objects!Remove
<1> QED BY <1>3, <1>4, <1>5, <1>6, <1>7, <1>8, <1>9

(* The one transaction that names a file, when the file is in place.       *)
LEMMA ObjectsPersistInv == ASSUME Objects!ObjectsInv, NEW u \in Upload, Objects!Persist(u) PROVE Objects!ObjectsInv'
<1>1. Objects!TypeOK /\ Objects!FilesFollowPhases /\ Objects!ReadersHaveVersions /\ Objects!FilesMatchRows
  BY DEF Objects!ObjectsInv
<1>2. UNCHANGED <<objectFile, objectReading, objectRecorded, objectServed, objectReads, objectFaults>> /\ objectPhase[u] = "renamed"
  BY DEF Objects!Persist, Objects!Placed, Objects!reader
<1>3. PICK o \in Object : o = ObjectOf[u]
  BY DataPlaneAssumptions DEF Objects!LocalObjectsAssumption
<1>4. /\ objectVersions \in [Object -> Seq(Upload)] /\ objectIndexed \in [Object -> Seq(Upload)]
      /\ objectPhase \in [Upload -> Objects!Waiting \cup {"idle", "answered", "failed"}]
  BY <1>1 DEF Objects!TypeOK
<1>5. /\ objectVersions'[o] = Append(objectVersions[o], u) /\ objectIndexed'[o] = <<u>>
      /\ \A x \in Object : x # o => objectVersions'[x] = objectVersions[x] /\ objectIndexed'[x] = objectIndexed[x]
      /\ objectPhase'[u] = "answered" /\ \A w \in Upload : w # u => objectPhase'[w] = objectPhase[w]
  BY <1>3, <1>4 DEF Objects!Persist, Objects!Goto, Objects!Index
<1>6. PICK n \in Nat : n = Len(objectVersions[o]) /\ DOMAIN objectVersions[o] = 1 .. n /\ objectVersions[o] \in Seq(Upload)
  BY <1>4
<1>7. /\ DOMAIN objectVersions'[o] = 1 .. n + 1 /\ Len(objectVersions'[o]) = n + 1 /\ objectVersions'[o][n + 1] = u
      /\ \A v \in 1 .. n : objectVersions'[o][v] = objectVersions[o][v] /\ v \in 1 .. n + 1
      /\ \A v \in 1 .. n + 1 : v = n + 1 \/ v \in 1 .. n
      /\ n + 1 \in 1 .. n + 1
  BY <1>5, <1>6
<1>8. Objects!TypeOK'
  <2>1. objectVersions' \in [Object -> Seq(Upload)] /\ objectIndexed' \in [Object -> Seq(Upload)]
    BY <1>3, <1>4, <1>6 DEF Objects!Persist, Objects!Index
  <2>2. objectPhase' \in [Upload -> Objects!Waiting \cup {"idle", "answered", "failed"}]
    BY <1>4 DEF Objects!Persist, Objects!Goto
  <2> QED BY <1>1, <1>2, <2>1, <2>2 DEF Objects!TypeOK
<1>9. Objects!Named' = Objects!Named \cup {u}
  <2>1. \A w \in Objects!Named' : w \in Objects!Named \cup {u}
    <3> SUFFICES ASSUME NEW x \in Object, NEW v \in DOMAIN objectVersions'[x]
                 PROVE  objectVersions'[x][v] \in Objects!Named \cup {u}
      BY DEF Objects!Named
    <3>1. CASE x # o
      BY <1>5, <3>1, ObjectsNamedFacts
    <3>2. CASE x = o
      BY <1>6, <1>7, <3>2, ObjectsNamedFacts
    <3> QED BY <3>1, <3>2
  <2>2. u \in Objects!Named'
    BY <1>7 DEF Objects!Named
  <2>3. \A w \in Objects!Named : w \in Objects!Named'
    <3> SUFFICES ASSUME NEW x \in Object, NEW v \in DOMAIN objectVersions[x]
                 PROVE  objectVersions[x][v] \in Objects!Named'
      BY DEF Objects!Named
    <3>1. v \in DOMAIN objectVersions'[x] /\ objectVersions'[x][v] = objectVersions[x][v]
      BY <1>5, <1>6, <1>7
    <3>2. objectVersions[x][v] \in Upload
      BY ObjectsNamedFacts
    <3> QED BY <3>1, <3>2 DEF Objects!Named
  <2> QED BY <2>1, <2>2, <2>3
<1>10. Objects!FilesFollowPhases'
  BY <1>1, <1>2, <1>5, <1>9 DEF Objects!FilesFollowPhases
<1>11. Objects!ReadersHaveVersions'
  <2> SUFFICES ASSUME NEW r \in Reader, objectReading[r] # Objects!NotReading, NEW d, d = objectReading[r].what
               PROVE  /\ d.version \in DOMAIN objectVersions'[d.object]
                      /\ d.content = objectVersions'[d.object][d.version]
                      /\ objectReading[r].step = "recorded" => d \in objectRecorded
    BY <1>2 DEF Objects!ReadersHaveVersions
  <2>1. /\ d.version \in DOMAIN objectVersions[d.object] /\ d.content = objectVersions[d.object][d.version]
        /\ objectReading[r].step = "recorded" => d \in objectRecorded
    BY <1>1 DEF Objects!ReadersHaveVersions
  <2>2. d.object \in Object
    BY <1>1 DEF Objects!TypeOK, Objects!Download
  <2>3. CASE d.object = o
    BY <1>6, <1>7, <2>1, <2>3
  <2>4. CASE d.object # o
    BY <1>5, <2>1, <2>2, <2>4
  <2> QED BY <2>3, <2>4
<1>12. Objects!FilesMatchRows'
  <2>1. \A w \in Objects!Named' : objectFile'[w] = "placed"
    BY <1>1, <1>2, <1>9 DEF Objects!FilesMatchRows, Objects!FilesFollowPhases
  <2>2. ASSUME NEW x \in Object, objectVersions'[x] # <<>>
        PROVE  objectIndexed'[x] = <<objectVersions'[x][Len(objectVersions'[x])]>>
    <3>1. CASE x = o
      BY <1>5, <1>7, <3>1
    <3>2. CASE x # o
      BY <1>1, <1>5, <2>2, <3>2 DEF Objects!FilesMatchRows
    <3> QED BY <3>1, <3>2
  <2>3. objectFaults = 0 => \A w \in Upload : objectPhase'[w] \in {"answered", "failed"} => (objectFile'[w] # "none" => w \in Objects!Named')
    BY <1>2, <1>10 DEF Objects!FilesFollowPhases
  <2> QED BY <1>2, <2>1, <2>2, <2>3 DEF Objects!FilesMatchRows, Objects!Ended
<1> QED BY <1>8, <1>10, <1>11, <1>12 DEF Objects!ObjectsInv

(* The process dies with every request it serves, none of them answered.   *)
LEMMA ObjectsKillInv == ASSUME Objects!ObjectsInv, Objects!Kill PROVE Objects!ObjectsInv'
<1>1. Objects!TypeOK /\ Objects!FilesFollowPhases /\ Objects!ReadersHaveVersions /\ Objects!FilesMatchRows
  BY DEF Objects!ObjectsInv
<1>2. /\ UNCHANGED <<objectFile, objectVersions, objectIndexed, objectRecorded, objectServed, objectReads>> /\ Objects!Named' = Objects!Named
      /\ objectFaults' \in 0 .. MaxObjectFaults /\ objectFaults' # 0
      /\ objectReading' = [r \in Reader |-> Objects!NotReading]
      /\ objectPhase' = [u \in Upload |-> IF objectPhase[u] \in Objects!Waiting THEN "failed" ELSE objectPhase[u]]
  BY ObjectsFaultFacts DEF Objects!Kill, Objects!tables, Objects!Named
<1>3. Objects!TypeOK'
  BY <1>1, <1>2 DEF Objects!TypeOK
<1>4. \A u \in Upload : (objectPhase'[u] = "answered" <=> objectPhase[u] = "answered") /\ objectPhase'[u] # "renamed"
  BY <1>2 DEF Objects!Waiting
<1>5. Objects!FilesFollowPhases'
  BY <1>1, <1>2, <1>4 DEF Objects!FilesFollowPhases
<1>6. Objects!ReadersHaveVersions'
  BY <1>2 DEF Objects!ReadersHaveVersions
<1>7. Objects!FilesMatchRows'
  BY <1>1, <1>2 DEF Objects!FilesMatchRows
<1> QED BY <1>3, <1>5, <1>6, <1>7 DEF Objects!ObjectsInv

(* Readers.                                                                *)
ObjectsReads(r, to) ==
    /\ UNCHANGED <<objectPhase, objectFile, Objects!tables, objectFaults>>
    /\ objectReading' = [objectReading EXCEPT ![r] = to]
    /\ objectRecorded \subseteq objectRecorded' /\ objectRecorded' \subseteq Objects!Download /\ objectServed' \subseteq Objects!Download
    /\ objectReads' \in 0 .. MaxReads
    /\ to # Objects!NotReading => /\ to.what.version \in DOMAIN objectVersions[to.what.object]
                                  /\ to.what.content = objectVersions[to.what.object][to.what.version]
                                  /\ to.step = "recorded" => to.what \in objectRecorded'

LEMMA ObjectsReaderSteps ==
    ASSUME Objects!ObjectsInv, NEW r \in Reader,
           NEW to \in {Objects!NotReading} \cup [step : {"found", "recorded"}, what : Objects!Download], ObjectsReads(r, to)
    PROVE  Objects!ObjectsInv'
<1>1. Objects!TypeOK /\ Objects!FilesFollowPhases /\ Objects!ReadersHaveVersions /\ Objects!FilesMatchRows
  BY DEF Objects!ObjectsInv
<1>2. UNCHANGED <<objectPhase, objectFile, objectVersions, objectIndexed, objectFaults>> /\ Objects!Named' = Objects!Named
  BY DEF ObjectsReads, Objects!tables, Objects!Named
<1>3. objectReading'[r] = to /\ \A q \in Reader : q # r => objectReading'[q] = objectReading[q]
  BY <1>1 DEF Objects!TypeOK, ObjectsReads
<1>4. Objects!TypeOK'
  <2>1. objectReading' \in [Reader -> {Objects!NotReading} \cup [step : {"found", "recorded"}, what : Objects!Download]]
    BY <1>1 DEF Objects!TypeOK, ObjectsReads
  <2> QED BY <1>1, <1>2, <2>1 DEF Objects!TypeOK, ObjectsReads
<1>5. Objects!FilesFollowPhases'
  BY <1>1, <1>2 DEF Objects!FilesFollowPhases
<1>6. Objects!ReadersHaveVersions'
  BY <1>1, <1>2, <1>3 DEF Objects!ReadersHaveVersions, ObjectsReads
<1>7. Objects!FilesMatchRows'
  BY <1>1, <1>2 DEF Objects!FilesMatchRows, Objects!Ended
<1> QED BY <1>4, <1>5, <1>6, <1>7 DEF Objects!ObjectsInv

LEMMA ObjectsReaderFacts ==
    ASSUME Objects!ObjectsInv, NEW r \in Reader
    PROVE  /\ objectReading \in [Reader -> {Objects!NotReading} \cup [step : {"found", "recorded"}, what : Objects!Download]]
           /\ objectRecorded \subseteq Objects!Download /\ objectServed \subseteq Objects!Download /\ objectReads \in 0 .. MaxReads
           /\ objectReading[r] # Objects!NotReading =>
                 /\ objectReading[r] \in [step : {"found", "recorded"}, what : Objects!Download]
                 /\ objectReading[r].step \in {"found", "recorded"} /\ objectReading[r].what \in Objects!Download
                 /\ objectReading[r].what.object \in Object
                 /\ objectReading[r].what.version \in DOMAIN objectVersions[objectReading[r].what.object]
                 /\ objectReading[r].what.content = objectVersions[objectReading[r].what.object][objectReading[r].what.version]
                 /\ objectReading[r].step = "recorded" => objectReading[r].what \in objectRecorded
<1>1. Objects!TypeOK /\ Objects!ReadersHaveVersions
  BY DEF Objects!ObjectsInv
<1>2. objectReading[r] # Objects!NotReading => objectReading[r] \in [step : {"found", "recorded"}, what : Objects!Download]
  BY <1>1 DEF Objects!TypeOK
<1>3. objectReading[r] # Objects!NotReading => objectReading[r].step \in {"found", "recorded"} /\ objectReading[r].what \in Objects!Download
  BY <1>2
<1>4. objectReading[r] # Objects!NotReading => objectReading[r].what.object \in Object
  BY <1>3 DEF Objects!Download
<1> QED BY <1>1, <1>2, <1>3, <1>4 DEF Objects!TypeOK, Objects!ReadersHaveVersions

LEMMA ObjectsReadSteps ==
    ASSUME Objects!ObjectsInv, NEW r \in Reader,
           Objects!Find(r) \/ Objects!SendHeaders(r) \/ Objects!RecordDownload(r) \/ Objects!Send(r)
    PROVE  Objects!ObjectsInv'
<1>1. CASE Objects!Find(r)
  <2>1. PICK o \in Object : \E v \in DOMAIN objectVersions[o] :
           objectReading' = [objectReading EXCEPT ![r] = [step |-> "found",
              what |-> [object |-> o, version |-> v, content |-> objectVersions[o][v]]]]
    BY <1>1 DEF Objects!Find
  <2>2. PICK v \in DOMAIN objectVersions[o] :
           objectReading' = [objectReading EXCEPT ![r] = [step |-> "found",
              what |-> [object |-> o, version |-> v, content |-> objectVersions[o][v]]]]
    BY <2>1
  <2>3. PICK w, to : w = [object |-> o, version |-> v, content |-> objectVersions[o][v]] /\ to = [step |-> "found", what |-> w]
    OBVIOUS
  <2>4. v \in Nat /\ objectVersions[o][v] \in Upload
    BY ObjectsNamedFacts
  <2>5. w \in Objects!Download /\ to \in [step : {"found", "recorded"}, what : Objects!Download]
    BY <2>3, <2>4 DEF Objects!Download
  <2>6. objectReads' \in 0 .. MaxReads
    BY <1>1, ObjectsReaderFacts, DataPlaneAssumptions DEF Objects!Find,
       Objects!LocalObjectsAssumption
  <2>7. ObjectsReads(r, to)
    BY <1>1, <2>2, <2>3, <2>6, ObjectsReaderFacts DEF Objects!Find, ObjectsReads
  <2> QED BY <2>5, <2>7, ObjectsReaderSteps
<1>2. CASE Objects!SendHeaders(r)
  <2>1. ObjectsReads(r, Objects!NotReading)
    BY <1>2, ObjectsReaderFacts DEF Objects!SendHeaders, Objects!Ends, ObjectsReads
  <2> QED BY <2>1, ObjectsReaderSteps
<1>3. CASE Objects!Send(r)
  <2>1. objectReading[r] # Objects!NotReading /\ objectServed' = objectServed \cup {objectReading[r].what}
    BY <1>3 DEF Objects!Send
  <2>2. objectServed' \subseteq Objects!Download
    BY <2>1, ObjectsReaderFacts
  <2>3. ObjectsReads(r, Objects!NotReading)
    BY <1>3, <2>2, ObjectsReaderFacts DEF Objects!Send, Objects!Ends, ObjectsReads
  <2> QED BY <2>3, ObjectsReaderSteps
<1>4. CASE Objects!RecordDownload(r)
  <2>1. PICK d, to : d = objectReading[r].what /\ to = [objectReading[r] EXCEPT !.step = "recorded"]
    OBVIOUS
  <2>2. /\ objectReading[r] # Objects!NotReading /\ objectRecorded' = objectRecorded \cup {d} /\ objectReading' = [objectReading EXCEPT ![r] = to]
        /\ UNCHANGED <<objectPhase, objectFile, Objects!tables, objectServed, objectReads, objectFaults>>
    BY <1>4, <2>1 DEF Objects!RecordDownload
  <2>3. to \in [step : {"found", "recorded"}, what : Objects!Download] /\ to.what = d /\ to.step = "recorded"
    BY <2>1, <2>2, ObjectsReaderFacts
  <2>4. objectRecorded \subseteq objectRecorded' /\ objectRecorded' \subseteq Objects!Download /\ d \in objectRecorded'
    BY <2>1, <2>2, ObjectsReaderFacts
  <2>5. d.version \in DOMAIN objectVersions[d.object] /\ d.content = objectVersions[d.object][d.version]
    BY <2>1, <2>2, ObjectsReaderFacts
  <2>6. ObjectsReads(r, to)
    BY <2>2, <2>3, <2>4, <2>5, ObjectsReaderFacts DEF ObjectsReads
  <2> QED BY <2>3, <2>6, ObjectsReaderSteps
<1> QED BY <1>1, <1>2, <1>3, <1>4

LEMMA ObjectsInitInv == Objects!Init => Objects!ObjectsInv
<1> SUFFICES ASSUME Objects!Init PROVE Objects!ObjectsInv
  OBVIOUS
<1>1. Objects!TypeOK
  BY DataPlaneAssumptions DEF Objects!Init, Objects!TypeOK, Objects!Waiting, Objects!Nothing,
     Objects!LocalObjectsAssumption
<1>2. Objects!Named = {}
  BY DEF Objects!Init, Objects!Named, Objects!Nothing
<1>3. Objects!FilesFollowPhases /\ Objects!ReadersHaveVersions
  BY <1>2 DEF Objects!Init, Objects!FilesFollowPhases, Objects!ReadersHaveVersions
<1>4. Objects!FilesMatchRows
  BY <1>2 DEF Objects!Init, Objects!FilesMatchRows, Objects!Nothing, Objects!Ended
<1> QED BY <1>1, <1>3, <1>4 DEF Objects!ObjectsInv

LEMMA ObjectsStepInv == ASSUME Objects!ObjectsInv, Objects!Next \/ UNCHANGED Objects!vars PROVE Objects!ObjectsInv'
<1>1. CASE UNCHANGED Objects!vars
  BY <1>1 DEF Objects!vars, Objects!tables, Objects!reader, Objects!ObjectsInv, Objects!TypeOK,
     Objects!FilesFollowPhases, Objects!ReadersHaveVersions,
     Objects!FilesMatchRows, Objects!Named, Objects!Ended
<1>2. CASE Objects!Kill
  BY <1>2, ObjectsKillInv
<1>3. ASSUME NEW u \in Upload,
             \/ Objects!Stream(u) \/ Objects!Staged(u) \/ Objects!StreamFails(u) \/ Objects!Rename(u) \/ Objects!RenameFails(u)
             \/ Objects!Persist(u) \/ Objects!PersistFails(u) \/ Objects!Remove(u)
      PROVE  Objects!ObjectsInv'
  BY <1>3, ObjectsUploadSteps, ObjectsPersistInv
<1>4. ASSUME NEW r \in Reader, Objects!Find(r) \/ Objects!SendHeaders(r) \/ Objects!RecordDownload(r) \/ Objects!Send(r)
      PROVE  Objects!ObjectsInv'
  BY <1>4, ObjectsReadSteps
<1> QED BY <1>1, <1>2, <1>3, <1>4 DEF Objects!Next

-----------------------------------------------------------------------------
(* The archive: each step appends a version, records or serves, or none.   *)
LEMMA ObjectsInitArchive == Objects!Init => Objects!Archive!Init
  BY DEF Objects!Init, Objects!Nothing, Objects!Archive!Init

LEMMA ObjectsStepArchive == ASSUME Objects!ObjectsInv, Objects!Next \/ UNCHANGED Objects!vars PROVE [Objects!Archive!Next]_(Objects!Archive!vars)
<1>1. CASE UNCHANGED Objects!vars
  BY <1>1 DEF Objects!vars, Objects!tables, Objects!reader, Objects!Archive!vars
<1>2. CASE Objects!Kill
  BY <1>2 DEF Objects!Kill, Objects!tables, Objects!Archive!vars
<1>3. ASSUME NEW u \in Upload,
             \/ Objects!Stream(u) \/ Objects!Staged(u) \/ Objects!StreamFails(u) \/ Objects!Rename(u) \/ Objects!RenameFails(u) \/ Objects!PersistFails(u) \/ Objects!Remove(u)
      PROVE  UNCHANGED Objects!Archive!vars
  BY <1>3 DEF Objects!Stream, Objects!Staged, Objects!StreamFails, Objects!Rename,
     Objects!RenameFails, Objects!PersistFails, Objects!Remove, Objects!tables, Objects!reader,
     Objects!Archive!vars
<1>4. ASSUME NEW u \in Upload, Objects!Persist(u) PROVE Objects!Archive!Next
  <2>1. Objects!Archive!Store(ObjectOf[u], u)
    BY <1>4 DEF Objects!Persist, Objects!reader, Objects!Archive!Store
  <2>2. ObjectOf[u] \in Object
    BY DataPlaneAssumptions DEF Objects!LocalObjectsAssumption
  <2> QED BY <2>1, <2>2 DEF Objects!Archive!Next
<1>5. ASSUME NEW r \in Reader, Objects!Find(r) \/ Objects!SendHeaders(r)
      PROVE  UNCHANGED Objects!Archive!vars
  BY <1>5 DEF Objects!Find, Objects!SendHeaders, Objects!tables, Objects!Archive!vars
<1>6. ASSUME NEW r \in Reader, Objects!RecordDownload(r) PROVE Objects!Archive!Next
  <2>1. objectReading[r] # Objects!NotReading /\ UNCHANGED <<objectVersions, objectServed>> /\ objectRecorded' = objectRecorded \cup {objectReading[r].what}
    BY <1>6 DEF Objects!RecordDownload, Objects!tables
  <2>2. PICK o \in Object, v \in Nat, c \in Upload :
           objectReading[r].what = [object |-> o, version |-> v, content |-> c]
    BY <2>1, ObjectsReaderFacts DEF Objects!Download
  <2>3. v \in DOMAIN objectVersions[o] /\ c = objectVersions[o][v]
    BY <2>1, <2>2, ObjectsReaderFacts
  <2>4. Objects!Archive!Record(o, v)
    BY <2>1, <2>2, <2>3 DEF Objects!Archive!Record
  <2> QED BY <2>3, <2>4 DEF Objects!Archive!Next
<1>7. ASSUME NEW r \in Reader, Objects!Send(r) PROVE Objects!Archive!Next
  <2>1. /\ objectReading[r] # Objects!NotReading /\ UNCHANGED <<objectVersions, objectRecorded>> /\ objectServed' = objectServed \cup {objectReading[r].what}
        /\ objectReading[r].what \in objectRecorded
    BY <1>7, ObjectsReaderFacts DEF Objects!Send, Objects!MaySend, Objects!tables
  <2>2. Objects!Archive!Serve(objectReading[r].what)
    BY <2>1 DEF Objects!Archive!Serve
  <2> QED BY <2>1, <2>2 DEF Objects!Archive!Next
<1> QED BY <1>1, <1>2, <1>3, <1>4, <1>5, <1>6, <1>7 DEF Objects!Next

(***************************************************************************)
(* For any uploads, objects and readers, wherever the process is killed or *)
(* a call fails: a row's file is in place, an object's document is that of *)
(* its current version, a file is left over only after a fault, and        *)
(* readers get what was uploaded, after the event that says so             *)
(* (GovernedObjectStore.upload(), persistVersion(), download()).            *)
(***************************************************************************)
THEOREM ObjectsStayWhole == DataSpec => FilesFollowRows
<1> DEFINE I == dataPart = "objects" => Objects!ObjectsInv
<1>1. DataInit => I /\ (dataPart = "objects" => Objects!Archive!Init)
  BY ObjectsInitInv, ObjectsInitArchive DEF DataInit
<1>2. I /\ [DataNext]_dataVars =>
         /\ I'
         /\ [dataPart = "objects" =>
               /\ Objects!FilesMatchRows'
               /\ [Objects!Archive!Next]_(Objects!Archive!vars)]_objectsVars
  <2> SUFFICES ASSUME I, [DataNext]_dataVars
               PROVE  /\ I'
                      /\ dataPart = "objects" =>
                            /\ Objects!FilesMatchRows'
                            /\ [Objects!Archive!Next]_(Objects!Archive!vars)
    OBVIOUS
  <2>1. dataPart' = dataPart
    BY DEF DataNext, dataVars
  <2>2. ASSUME dataPart = "objects"
        PROVE  Objects!ObjectsInv' /\ [Objects!Archive!Next]_(Objects!Archive!vars)
    <3>1. Objects!ObjectsInv
      BY <2>2
    <3>2. Objects!Next \/ UNCHANGED Objects!vars
      BY <2>2 DEF DataNext, dataVars, objectsVars, Objects!vars, Objects!tables,
         Objects!reader
    <3> QED BY <3>1, <3>2, ObjectsStepInv, ObjectsStepArchive
  <2>3. Objects!ObjectsInv' => Objects!FilesMatchRows'
    BY DEF Objects!ObjectsInv
  <2> QED BY <2>1, <2>2, <2>3
<1> QED BY <1>1, <1>2, PTL DEF DataSpec, FilesFollowRows

-----------------------------------------------------------------------------
(* What is named, and where.                                               *)
LEMMA StoreNamedFacts ==
    ASSUME Store!ObjectsInv
    PROVE  /\ \A o \in Object : storeVersions[o] \in Seq(Upload) /\ DOMAIN storeVersions[o] = 1 .. Len(storeVersions[o])
           /\ \A o \in Object : \A v \in DOMAIN storeVersions[o] : storeVersions[o][v] \in Store!Named /\ storeVersions[o][v] \in Upload
           /\ \A w \in Store!Named : w \in Upload /\ storePhase[w] \in {"answered", "failed"} /\ ObjectOf[w] \in Object
                               /\ \E v \in DOMAIN storeVersions[ObjectOf[w]] : storeVersions[ObjectOf[w]][v] = w
<1>1. \A o \in Object : storeVersions[o] \in Seq(Upload) /\ DOMAIN storeVersions[o] = 1 .. Len(storeVersions[o])
  BY DEF Store!ObjectsInv, Store!TypeOK
<1>2. \A o \in Object : \A v \in DOMAIN storeVersions[o] : storeVersions[o][v] \in Upload
  BY <1>1
<1>3. \A o \in Object : \A v \in DOMAIN storeVersions[o] : storeVersions[o][v] \in Store!Named
  BY <1>2 DEF Store!Named
<1>4. ASSUME NEW w \in Store!Named
      PROVE  /\ w \in Upload /\ storePhase[w] \in {"answered", "failed"} /\ ObjectOf[w] \in Object
             /\ \E v \in DOMAIN storeVersions[ObjectOf[w]] : storeVersions[ObjectOf[w]][v] = w
  <2>1. PICK o \in Object : \E v \in DOMAIN storeVersions[o] : storeVersions[o][v] = w
    BY DEF Store!Named
  <2>2. PICK v \in DOMAIN storeVersions[o] : storeVersions[o][v] = w
    BY <2>1
  <2> QED BY <1>2, <2>2 DEF Store!ObjectsInv, Store!BytesFollowPhases
<1> QED BY <1>1, <1>2, <1>3, <1>4

(* A request goes on to its next await, and names nothing.                 *)
StoreMoves(u, p, b, t, n) ==
    /\ storePhase' = [storePhase EXCEPT ![u] = p] /\ blob' = [blob EXCEPT ![u] = b]
    /\ began' = [began EXCEPT ![u] = t] /\ seenVersion' = [seenVersion EXCEPT ![u] = n]
    /\ staged' \subseteq Upload /\ storeClock' \in Nat /\ storeFaults' \in 0 .. MaxStoreFaults /\ UNCHANGED <<Store!tables, Store!reader>>
    /\ p \in {"idle", "streaming", "staged"} => b = "none"
    /\ p \in {"stored", "began", "locked", "refused"} => b # "none"
    /\ p = "locked" => Store!LockFree(u) /\ n = Len(storeVersions[ObjectOf[u]])
    /\ p = "refused" => t = began[u] /\ \E w \in Store!Named : ObjectOf[w] = ObjectOf[u] /\ began[w] > began[u]

LEMMA StoreGoesOn ==
    ASSUME Store!ObjectsInv, NEW u \in Upload, storePhase[u] \in Store!Waiting \cup {"idle"},
           NEW p \in Store!Phase, p # "answered", NEW b \in {"none", "stored", "lost"}, NEW t \in Nat, NEW n \in Nat,
           StoreMoves(u, p, b, t, n)
    PROVE  Store!ObjectsInv'
<1> USE DEF StoreMoves
<1>1. Store!TypeOK /\ Store!BytesFollowPhases /\ Store!LocksSerialise /\ Store!ReadersHaveVersions /\ Store!VersionsAreBacked /\ Store!RefusedWereOvertaken
  BY DEF Store!ObjectsInv
<1>2. UNCHANGED <<storeVersions, updated, storeReading, storeRecorded, storeServed, storeReads>>
  BY DEF Store!tables, Store!reader
<1>3. /\ storePhase \in [Upload -> Store!Phase] /\ blob \in [Upload -> {"none", "stored", "lost"}]
      /\ began \in [Upload -> Nat] /\ seenVersion \in [Upload -> Nat]
  BY <1>1 DEF Store!TypeOK
<1>4. /\ storePhase'[u] = p /\ blob'[u] = b /\ began'[u] = t /\ seenVersion'[u] = n
      /\ \A w \in Upload : w # u => storePhase'[w] = storePhase[w] /\ blob'[w] = blob[w]
                                    /\ began'[w] = began[w] /\ seenVersion'[w] = seenVersion[w]
  BY <1>3
<1>5. Store!TypeOK'
  <2>1. /\ storePhase' \in [Upload -> Store!Phase] /\ blob' \in [Upload -> {"none", "stored", "lost"}]
        /\ began' \in [Upload -> Nat] /\ seenVersion' \in [Upload -> Nat]
    BY <1>3
  <2> QED BY <1>1, <1>2, <2>1 DEF Store!TypeOK
<1>6. \A w \in Store!Named : w \in Upload /\ w # u
  BY StoreNamedFacts DEF Store!Waiting
<1>7. Store!Named' = Store!Named
  BY <1>2 DEF Store!Named
<1>8. Store!BytesFollowPhases'
  <2>1. \A o \in Object : \A v \in DOMAIN storeVersions[o] : storeVersions[o][v] \in Upload /\ storeVersions[o][v] # u
    BY <1>6, StoreNamedFacts
  <2>2. \A w \in Upload : /\ storePhase'[w] \in {"idle", "streaming", "staged"} => blob'[w] = "none"
                          /\ storePhase'[w] \in {"stored", "began", "locked", "answered", "refused"} => blob'[w] # "none"
    BY <1>1, <1>4 DEF Store!BytesFollowPhases
  <2>3. \A o \in Object : \A v \in DOMAIN storeVersions[o] :
           ObjectOf[storeVersions[o][v]] = o /\ storePhase'[storeVersions[o][v]] \in {"answered", "failed"}
    BY <1>1, <1>4, <2>1 DEF Store!BytesFollowPhases
  <2> QED BY <1>2, <2>2, <2>3 DEF Store!BytesFollowPhases
<1>9. Store!LocksSerialise'
  <2>1. ASSUME NEW w \in Upload, NEW x \in Upload, w # x, storePhase'[w] = "locked", storePhase'[x] = "locked"
        PROVE  ObjectOf[w] # ObjectOf[x]
    <3>1. CASE w # u /\ x # u
      BY <1>1, <1>4, <2>1, <3>1 DEF Store!LocksSerialise
    <3>2. CASE w = u
      BY <1>4, <2>1, <3>2 DEF Store!LockFree
    <3>3. CASE x = u
      BY <1>4, <2>1, <3>3 DEF Store!LockFree
    <3> QED BY <3>1, <3>2, <3>3
  <2>2. \A w \in Upload : storePhase'[w] = "locked" => seenVersion'[w] = Len(storeVersions[ObjectOf[w]])
    BY <1>1, <1>4 DEF Store!LocksSerialise
  <2>3. \A o \in Object : updated[o] = 0 \/ \E v \in DOMAIN storeVersions[o] : updated[o] = began'[storeVersions[o][v]]
    BY <1>1, <1>4, <1>6, StoreNamedFacts DEF Store!LocksSerialise
  <2> QED BY <1>2, <2>1, <2>2, <2>3 DEF Store!LocksSerialise
<1>10. Store!ReadersHaveVersions'
  BY <1>1, <1>2 DEF Store!ReadersHaveVersions
<1>11. Store!VersionsAreBacked'
  BY <1>1, <1>4, <1>6, <1>7 DEF Store!VersionsAreBacked, Store!Phase
<1>12. Store!RefusedWereOvertaken'
  <2> SUFFICES ASSUME NEW w \in Upload, storePhase'[w] = "refused"
               PROVE  \E x \in Store!Named : ObjectOf[x] = ObjectOf[w] /\ began'[x] > began'[w]
    BY <1>7 DEF Store!RefusedWereOvertaken
  <2>1. \E x \in Store!Named : ObjectOf[x] = ObjectOf[w] /\ began[x] > began[w]
    BY <1>1, <1>4 DEF Store!RefusedWereOvertaken
  <2>2. began'[w] = began[w]
    BY <1>4
  <2> QED BY <1>4, <1>6, <2>1, <2>2
<1> QED BY <1>5, <1>8, <1>9, <1>10, <1>11, <1>12 DEF Store!ObjectsInv

(* The transaction commits, whatever its client is told.                   *)
LEMMA StoreCommitsVersion ==
    ASSUME Store!ObjectsInv, NEW u \in Upload, storePhase[u] = "locked", ~ Store!Overtaken(u),
           Store!AddVersion(u),
           NEW p \in {"answered", "failed"}, storePhase' = [storePhase EXCEPT ![u] = p],
           storeFaults' \in 0 .. MaxStoreFaults, UNCHANGED <<staged, blob, began, seenVersion, storeClock, Store!reader>>
    PROVE  Store!ObjectsInv'
<1>1. Store!TypeOK /\ Store!BytesFollowPhases /\ Store!LocksSerialise /\ Store!ReadersHaveVersions /\ Store!VersionsAreBacked /\ Store!RefusedWereOvertaken
  BY DEF Store!ObjectsInv
<1>2. UNCHANGED <<storeReading, storeRecorded, storeServed, storeReads>>
  BY DEF Store!reader
<1>3. PICK o \in Object : o = ObjectOf[u]
  BY DataPlaneAssumptions DEF Store!GovernedObjectsAssumption
<1>4. /\ storeVersions \in [Object -> Seq(Upload)] /\ updated \in [Object -> Nat] /\ storePhase \in [Upload -> Store!Phase]
      /\ began \in [Upload -> Nat]
  BY <1>1 DEF Store!TypeOK
<1>5. /\ storeVersions'[o] = Append(storeVersions[o], u) /\ updated'[o] = began[u]
      /\ \A x \in Object : x # o => storeVersions'[x] = storeVersions[x] /\ updated'[x] = updated[x]
      /\ storePhase'[u] = p /\ \A w \in Upload : w # u => storePhase'[w] = storePhase[w]
  BY <1>3, <1>4 DEF Store!AddVersion
<1>6. PICK n \in Nat : n = Len(storeVersions[o]) /\ DOMAIN storeVersions[o] = 1 .. n /\ storeVersions[o] \in Seq(Upload)
  BY <1>4
<1>7. /\ DOMAIN storeVersions'[o] = 1 .. n + 1 /\ Len(storeVersions'[o]) = n + 1 /\ storeVersions'[o][n + 1] = u
      /\ \A v \in 1 .. n : storeVersions'[o][v] = storeVersions[o][v] /\ v \in 1 .. n + 1
      /\ \A v \in 1 .. n + 1 : v = n + 1 \/ v \in 1 .. n
      /\ n + 1 \in 1 .. n + 1
  BY <1>5, <1>6
<1>8. Store!TypeOK'
  <2>1. storeVersions' \in [Object -> Seq(Upload)]
    BY <1>3, <1>4, <1>6 DEF Store!AddVersion
  <2>2. storePhase' \in [Upload -> Store!Phase] /\ updated' \in [Object -> Nat]
    BY <1>4 DEF Store!Phase, Store!AddVersion
  <2> QED BY <1>1, <1>2, <2>1, <2>2 DEF Store!TypeOK
<1>9. \A w \in Store!Named : w \in Upload /\ w # u
  BY StoreNamedFacts
<1>10. Store!Named' = Store!Named \cup {u}
  <2>1. \A w \in Store!Named' : w \in Store!Named \cup {u}
    <3> SUFFICES ASSUME NEW x \in Object, NEW v \in DOMAIN storeVersions'[x]
                 PROVE  storeVersions'[x][v] \in Store!Named \cup {u}
      BY DEF Store!Named
    <3>1. CASE x # o
      BY <1>5, <3>1, StoreNamedFacts
    <3>2. CASE x = o
      BY <1>6, <1>7, <3>2, StoreNamedFacts
    <3> QED BY <3>1, <3>2
  <2>2. u \in Store!Named'
    BY <1>7 DEF Store!Named
  <2>3. \A w \in Store!Named : w \in Store!Named'
    <3> SUFFICES ASSUME NEW x \in Object, NEW v \in DOMAIN storeVersions[x]
                 PROVE  storeVersions[x][v] \in Store!Named'
      BY DEF Store!Named
    <3>1. v \in DOMAIN storeVersions'[x] /\ storeVersions'[x][v] = storeVersions[x][v]
      BY <1>5, <1>6, <1>7
    <3>2. storeVersions[x][v] \in Upload
      BY StoreNamedFacts
    <3> QED BY <3>1, <3>2 DEF Store!Named
  <2> QED BY <2>1, <2>2, <2>3
<1>11. Store!BytesFollowPhases'
  <2>1. \A w \in Upload : /\ storePhase'[w] \in {"idle", "streaming", "staged"} => blob[w] = "none"
                          /\ storePhase'[w] \in {"stored", "began", "locked", "answered", "refused"} => blob[w] # "none"
    BY <1>1, <1>5 DEF Store!BytesFollowPhases
  <2>2. ASSUME NEW x \in Object, NEW v \in DOMAIN storeVersions'[x]
        PROVE  ObjectOf[storeVersions'[x][v]] = x /\ storePhase'[storeVersions'[x][v]] \in {"answered", "failed"}
    <3>1. CASE v \in DOMAIN storeVersions[x] /\ storeVersions'[x][v] = storeVersions[x][v]
      BY <1>1, <1>5, <3>1, StoreNamedFacts DEF Store!BytesFollowPhases
    <3>2. CASE x = o /\ v = n + 1
      BY <1>3, <1>5, <1>7, <3>2
    <3> QED BY <1>5, <1>6, <1>7, <3>1, <3>2
  <2> QED BY <2>1, <2>2 DEF Store!BytesFollowPhases
<1>12. Store!LocksSerialise'
  <2>1. \A w \in Upload : storePhase'[w] = "locked" => storePhase[w] = "locked" /\ w # u /\ ObjectOf[w] # o /\ ObjectOf[w] \in Object
    BY <1>1, <1>3, <1>5, DataPlaneAssumptions DEF Store!LocksSerialise,
       Store!GovernedObjectsAssumption
  <2>2. \A w, x \in Upload : w # x /\ storePhase'[w] = "locked" /\ storePhase'[x] = "locked" => ObjectOf[w] # ObjectOf[x]
    BY <1>1, <2>1 DEF Store!LocksSerialise
  <2>3. \A w \in Upload : storePhase'[w] = "locked" => seenVersion[w] = Len(storeVersions'[ObjectOf[w]])
    BY <1>1, <1>5, <2>1 DEF Store!LocksSerialise
  <2>4. ASSUME NEW x \in Object
        PROVE  updated'[x] = 0 \/ \E v \in DOMAIN storeVersions'[x] : updated'[x] = began[storeVersions'[x][v]]
    <3>1. CASE x = o
      BY <1>5, <1>7, <3>1
    <3>2. CASE x # o
      BY <1>1, <1>5, <3>2 DEF Store!LocksSerialise
    <3> QED BY <3>1, <3>2
  <2> QED BY <2>2, <2>3, <2>4 DEF Store!LocksSerialise
<1>13. Store!ReadersHaveVersions'
  <2> SUFFICES ASSUME NEW r \in Reader, storeReading[r] # Store!NotReading, NEW d, d = storeReading[r].what
               PROVE  /\ d.version \in DOMAIN storeVersions'[d.object]
                      /\ d.content = storeVersions'[d.object][d.version]
                      /\ storeReading[r].step = "recorded" => d \in storeRecorded
    BY <1>2 DEF Store!ReadersHaveVersions
  <2>1. /\ d.version \in DOMAIN storeVersions[d.object] /\ d.content = storeVersions[d.object][d.version]
        /\ storeReading[r].step = "recorded" => d \in storeRecorded
    BY <1>1 DEF Store!ReadersHaveVersions
  <2>2. d.object \in Object
    BY <1>1 DEF Store!TypeOK, Store!Download
  <2>3. CASE d.object = o
    BY <1>6, <1>7, <2>1, <2>3
  <2>4. CASE d.object # o
    BY <1>5, <2>1, <2>2, <2>4
  <2> QED BY <2>3, <2>4
<1>14. Store!VersionsAreBacked'
  BY <1>1, <1>5, <1>9, <1>10 DEF Store!VersionsAreBacked, Store!BytesFollowPhases
<1>15. Store!RefusedWereOvertaken'
  BY <1>1, <1>5, <1>10 DEF Store!RefusedWereOvertaken
<1> QED BY <1>8, <1>11, <1>12, <1>13, <1>14, <1>15 DEF Store!ObjectsInv

(* The reason of a refusal.                                                *)
LEMMA StoreOvertakenFacts ==
    ASSUME Store!ObjectsInv, NEW u \in Upload, storePhase[u] = "locked", Store!Overtaken(u)
    PROVE  \E w \in Store!Named : ObjectOf[w] = ObjectOf[u] /\ began[w] > began[u]
<1>1. Store!TypeOK /\ Store!LocksSerialise /\ Store!BytesFollowPhases
  BY DEF Store!ObjectsInv
<1>2. PICK o \in Object : o = ObjectOf[u]
  BY DataPlaneAssumptions DEF Store!GovernedObjectsAssumption
<1>3. began[u] \in Nat /\ updated[o] \in Nat
  BY <1>1 DEF Store!TypeOK
<1>4. began[u] < updated[o]
  BY <1>1, <1>2 DEF Store!LocksSerialise, Store!Overtaken
<1>5. PICK v \in DOMAIN storeVersions[o] : updated[o] = began[storeVersions[o][v]]
  BY <1>1, <1>3, <1>4 DEF Store!LocksSerialise
<1>6. storeVersions[o][v] \in Store!Named /\ ObjectOf[storeVersions[o][v]] = o
  BY <1>1, StoreNamedFacts DEF Store!BytesFollowPhases
<1>7. began[storeVersions[o][v]] > began[u]
  BY <1>3, <1>4, <1>5
<1> QED BY <1>2, <1>6, <1>7

LEMMA StoreInitInv == Store!Init => Store!ObjectsInv
<1> SUFFICES ASSUME Store!Init PROVE Store!ObjectsInv
  OBVIOUS
<1>1. Store!TypeOK
  BY DataPlaneAssumptions DEF Store!Init, Store!TypeOK, Store!Phase,
     Store!GovernedObjectsAssumption
<1>2. Store!Named = {}
  BY DEF Store!Init, Store!Named
<1>3. Store!BytesFollowPhases /\ Store!LocksSerialise /\ Store!ReadersHaveVersions
  BY DEF Store!Init, Store!BytesFollowPhases, Store!LocksSerialise, Store!ReadersHaveVersions
<1>4. Store!VersionsAreBacked /\ Store!RefusedWereOvertaken
  BY <1>2 DEF Store!Init, Store!VersionsAreBacked, Store!RefusedWereOvertaken
<1> QED BY <1>1, <1>3, <1>4 DEF Store!ObjectsInv

LEMMA StoreFaultFacts == ASSUME Store!ObjectsInv, Store!Fault PROVE storeFaults' \in 0 .. MaxStoreFaults
  BY DataPlaneAssumptions DEF Store!Fault, Store!ObjectsInv, Store!TypeOK,
     Store!GovernedObjectsAssumption

(* What requests do before their transaction, and how they end without it. *)
LEMMA StoreUploadSteps ==
    ASSUME Store!ObjectsInv, NEW u \in Upload,
           \/ Store!Stream(u) \/ Store!Staged(u) \/ Store!StreamFails(u) \/ Store!Put(u) \/ Store!PutFails(u) \/ Store!Begin(u) \/ Store!Lock(u)
           \/ Store!Refuse(u) \/ Store!Kill(u)
    PROVE  Store!ObjectsInv'
<1>1. /\ storePhase \in [Upload -> Store!Phase] /\ blob \in [Upload -> {"none", "stored", "lost"}] /\ staged \subseteq Upload
      /\ began \in [Upload -> Nat] /\ seenVersion \in [Upload -> Nat] /\ storeClock \in Nat /\ storeFaults \in 0 .. MaxStoreFaults
      /\ Store!BytesFollowPhases
  BY DEF Store!ObjectsInv, Store!TypeOK
<1>2. PICK o \in Object : o = ObjectOf[u] /\ Len(storeVersions[o]) \in Nat
  BY DataPlaneAssumptions, StoreNamedFacts DEF Store!GovernedObjectsAssumption
<1>3. /\ storePhase[u] \in {"idle", "streaming", "staged"} => blob[u] = "none"
      /\ storePhase[u] \in {"stored", "began", "locked"} => blob[u] # "none"
      /\ blob[u] \in {"none", "stored", "lost"} /\ began[u] \in Nat /\ seenVersion[u] \in Nat
  BY <1>1 DEF Store!BytesFollowPhases
<1>4. /\ blob = [blob EXCEPT ![u] = blob[u]] /\ began = [began EXCEPT ![u] = began[u]]
      /\ seenVersion = [seenVersion EXCEPT ![u] = seenVersion[u]]
  BY <1>1
<1>5. CASE Store!Stream(u)
  <2>1. /\ storePhase' = [storePhase EXCEPT ![u] = "streaming"] /\ storePhase[u] = "idle" /\ staged' \subseteq Upload
        /\ UNCHANGED <<blob, began, seenVersion, storeClock, Store!tables, Store!reader, storeFaults>>
    BY <1>1, <1>5 DEF Store!Stream, Store!Goto
  <2>2. StoreMoves(u, "streaming", blob[u], began[u], seenVersion[u])
    BY <1>1, <1>3, <1>4, <2>1, <1>2 DEF StoreMoves
  <2> QED BY <1>2, <1>3, <2>1, <2>2, StoreGoesOn DEF Store!Phase, Store!Waiting
<1>6. CASE Store!Staged(u)
  <2>1. /\ storePhase' = [storePhase EXCEPT ![u] = "staged"] /\ storePhase[u] = "streaming" /\ staged' \subseteq Upload
        /\ UNCHANGED <<blob, began, seenVersion, storeClock, Store!tables, Store!reader, storeFaults>>
    BY <1>1, <1>6 DEF Store!Staged, Store!Goto
  <2>2. StoreMoves(u, "staged", blob[u], began[u], seenVersion[u])
    BY <1>1, <1>3, <1>4, <2>1, <1>2 DEF StoreMoves
  <2> QED BY <1>2, <1>3, <2>1, <2>2, StoreGoesOn DEF Store!Phase, Store!Waiting
<1>7. CASE Store!StreamFails(u)
  <2>1. /\ storePhase' = [storePhase EXCEPT ![u] = "failed"] /\ storePhase[u] = "streaming" /\ staged' \subseteq Upload
        /\ UNCHANGED <<blob, began, seenVersion, storeClock, Store!tables, Store!reader, storeFaults>>
    BY <1>1, <1>7 DEF Store!StreamFails, Store!Goto
  <2>2. StoreMoves(u, "failed", blob[u], began[u], seenVersion[u])
    BY <1>1, <1>3, <1>4, <2>1, <1>2 DEF StoreMoves
  <2> QED BY <1>2, <1>3, <2>1, <2>2, StoreGoesOn DEF Store!Phase, Store!Waiting
<1>8. CASE Store!Put(u)
  <2>1. /\ storePhase' = [storePhase EXCEPT ![u] = "stored"] /\ storePhase[u] = "staged" /\ staged' \subseteq Upload
        /\ blob' = [blob EXCEPT ![u] = "stored"]
        /\ UNCHANGED <<began, seenVersion, storeClock, Store!tables, Store!reader, storeFaults>>
    BY <1>1, <1>8 DEF Store!Put, Store!Goto
  <2>2. StoreMoves(u, "stored", "stored", began[u], seenVersion[u])
    BY <1>1, <1>3, <1>4, <2>1, <1>2 DEF StoreMoves
  <2> QED BY <1>2, <1>3, <2>1, <2>2, StoreGoesOn DEF Store!Phase, Store!Waiting
<1>9. CASE Store!PutFails(u)
  <2>1. PICK b \in {"none", "stored"} :
           /\ storePhase' = [storePhase EXCEPT ![u] = "failed"] /\ storePhase[u] = "staged" /\ staged' \subseteq Upload
           /\ blob' = [blob EXCEPT ![u] = b] /\ storeFaults' \in 0 .. MaxStoreFaults
           /\ UNCHANGED <<began, seenVersion, storeClock, Store!tables, Store!reader>>
    BY <1>1, <1>9, StoreFaultFacts DEF Store!PutFails, Store!Goto
  <2>2. StoreMoves(u, "failed", b, began[u], seenVersion[u])
    BY <1>1, <1>3, <1>4, <2>1, <1>2 DEF StoreMoves
  <2> QED BY <1>2, <1>3, <2>1, <2>2, StoreGoesOn DEF Store!Phase, Store!Waiting
<1>10. CASE Store!Begin(u)
  <2>1. /\ storePhase' = [storePhase EXCEPT ![u] = "began"] /\ storePhase[u] = "stored" /\ storeClock' \in Nat
        /\ began' = [began EXCEPT ![u] = storeClock']
        /\ UNCHANGED <<staged, blob, seenVersion, Store!tables, Store!reader, storeFaults>>
    BY <1>1, <1>10 DEF Store!Begin, Store!Goto
  <2>2. StoreMoves(u, "began", blob[u], storeClock', seenVersion[u])
    BY <1>1, <1>3, <1>4, <2>1, <1>2 DEF StoreMoves
  <2> QED BY <1>2, <1>3, <2>1, <2>2, StoreGoesOn DEF Store!Phase, Store!Waiting
<1>11. CASE Store!Lock(u)
  <2>1. /\ storePhase' = [storePhase EXCEPT ![u] = "locked"] /\ storePhase[u] = "began" /\ Store!LockFree(u)
        /\ seenVersion' = [seenVersion EXCEPT ![u] = Len(storeVersions[o])]
        /\ UNCHANGED <<staged, blob, began, storeClock, Store!tables, Store!reader, storeFaults>>
    BY <1>1, <1>2, <1>11 DEF Store!Lock, Store!Goto
  <2>2. StoreMoves(u, "locked", blob[u], began[u], Len(storeVersions[o]))
    BY <1>1, <1>2, <1>3, <1>4, <2>1 DEF StoreMoves
  <2> QED BY <1>2, <1>3, <2>1, <2>2, StoreGoesOn DEF Store!Phase, Store!Waiting
<1>12. CASE Store!Refuse(u)
  <2>1. /\ storePhase' = [storePhase EXCEPT ![u] = "refused"] /\ storePhase[u] = "locked" /\ Store!Overtaken(u)
        /\ UNCHANGED <<staged, blob, began, seenVersion, storeClock, Store!tables, Store!reader, storeFaults>>
    BY <1>12 DEF Store!Refuse, Store!Goto, Store!Discard
  <2>2. \E w \in Store!Named : ObjectOf[w] = ObjectOf[u] /\ began[w] > began[u]
    BY <2>1, StoreOvertakenFacts
  <2>3. StoreMoves(u, "refused", blob[u], began[u], seenVersion[u])
    BY <1>1, <1>3, <1>4, <2>1, <2>2, <1>2 DEF StoreMoves
  <2> QED BY <1>2, <1>3, <2>1, <2>3, StoreGoesOn DEF Store!Phase, Store!Waiting
<1>13. CASE Store!Kill(u)
  <2>1. /\ storePhase' = [storePhase EXCEPT ![u] = "failed"] /\ storePhase[u] \in Store!Waiting /\ storeFaults' \in 0 .. MaxStoreFaults
        /\ UNCHANGED <<staged, blob, began, seenVersion, storeClock, Store!tables, Store!reader>>
    BY <1>13, StoreFaultFacts DEF Store!Kill, Store!Goto
  <2>2. StoreMoves(u, "failed", blob[u], began[u], seenVersion[u])
    BY <1>1, <1>3, <1>4, <2>1, <1>2 DEF StoreMoves
  <2> QED BY <1>2, <1>3, <2>1, <2>2, StoreGoesOn DEF Store!Phase, Store!Waiting
<1> QED BY <1>5, <1>6, <1>7, <1>8, <1>9, <1>10, <1>11, <1>12, <1>13

LEMMA StoreTransactionSteps ==
    ASSUME Store!ObjectsInv, NEW u \in Upload, Store!Commit(u) \/ Store!TransactionFails(u)
    PROVE  Store!ObjectsInv'
<1>1. /\ storePhase \in [Upload -> Store!Phase] /\ blob \in [Upload -> {"none", "stored", "lost"}] /\ staged \subseteq Upload
      /\ began \in [Upload -> Nat] /\ seenVersion \in [Upload -> Nat] /\ storeClock \in Nat /\ storeFaults \in 0 .. MaxStoreFaults
  BY DEF Store!ObjectsInv, Store!TypeOK
<1>2. /\ blob = [blob EXCEPT ![u] = blob[u]] /\ began = [began EXCEPT ![u] = began[u]]
      /\ seenVersion = [seenVersion EXCEPT ![u] = seenVersion[u]]
      /\ blob[u] \in {"none", "stored", "lost"} /\ began[u] \in Nat /\ seenVersion[u] \in Nat
  BY <1>1
<1>3. CASE Store!Commit(u)
  <2>1. /\ storePhase' = [storePhase EXCEPT ![u] = "answered"] /\ storePhase[u] = "locked" /\ ~ Store!Overtaken(u) /\ Store!AddVersion(u)
        /\ storeFaults' \in 0 .. MaxStoreFaults /\ UNCHANGED <<staged, blob, began, seenVersion, storeClock, Store!reader>>
    BY <1>1, <1>3 DEF Store!Commit, Store!Goto
  <2> QED BY <2>1, StoreCommitsVersion
<1>4. CASE Store!TransactionFails(u)
  <2>1. /\ storePhase' = [storePhase EXCEPT ![u] = "failed"] /\ storePhase[u] \in {"stored", "began", "locked"}
        /\ storeFaults' \in 0 .. MaxStoreFaults /\ UNCHANGED <<staged, blob, began, seenVersion, storeClock, Store!reader>>
        /\ UNCHANGED Store!tables \/ (storePhase[u] = "locked" /\ ~ Store!Overtaken(u) /\ Store!AddVersion(u))
    BY <1>4, StoreFaultFacts DEF Store!TransactionFails, Store!Goto, Store!Discard
  <2>2. CASE UNCHANGED Store!tables
    <3>1. StoreMoves(u, "failed", blob[u], began[u], seenVersion[u])
      BY <1>1, <1>2, <2>1, <2>2 DEF StoreMoves
    <3> QED BY <1>2, <2>1, <3>1, StoreGoesOn DEF Store!Phase, Store!Waiting
  <2>3. CASE storePhase[u] = "locked" /\ ~ Store!Overtaken(u) /\ Store!AddVersion(u)
    BY <2>1, <2>3, StoreCommitsVersion
  <2> QED BY <2>1, <2>2, <2>3
<1> QED BY <1>3, <1>4

(* Readers and the bucket.                                                 *)
StoreReads(r, to) ==
    /\ UNCHANGED <<storePhase, staged, began, seenVersion, storeClock, Store!tables, blob>>
    /\ storeReading' = [storeReading EXCEPT ![r] = to]
    /\ storeRecorded \subseteq storeRecorded' /\ storeRecorded' \subseteq Store!Download /\ storeServed' \subseteq Store!Download
    /\ storeReads' \in 0 .. MaxStoreReads /\ storeFaults' \in 0 .. MaxStoreFaults
    /\ to # Store!NotReading => /\ to.what.version \in DOMAIN storeVersions[to.what.object]
                                /\ to.what.content = storeVersions[to.what.object][to.what.version]
                                /\ to.step = "recorded" => to.what \in storeRecorded'

LEMMA StoreReaderSteps ==
    ASSUME Store!ObjectsInv, NEW r \in Reader,
           NEW to \in {Store!NotReading} \cup [step : {"found", "verified", "recorded"}, what : Store!Download],
           StoreReads(r, to)
    PROVE  Store!ObjectsInv'
<1> USE DEF StoreReads
<1>1. Store!TypeOK /\ Store!BytesFollowPhases /\ Store!LocksSerialise /\ Store!ReadersHaveVersions /\ Store!VersionsAreBacked /\ Store!RefusedWereOvertaken
  BY DEF Store!ObjectsInv
<1>2. UNCHANGED <<storeVersions, updated>> /\ Store!Named' = Store!Named
  BY DEF Store!tables, Store!Named
<1>3. storeReading'[r] = to /\ \A q \in Reader : q # r => storeReading'[q] = storeReading[q]
  BY <1>1 DEF Store!TypeOK
<1>4. Store!TypeOK'
  <2>1. storeReading' \in [Reader -> {Store!NotReading} \cup [step : {"found", "verified", "recorded"}, what : Store!Download]]
    BY <1>1 DEF Store!TypeOK
  <2> QED BY <1>1, <1>2, <2>1 DEF Store!TypeOK
<1>5. Store!BytesFollowPhases'
  BY <1>1, <1>2 DEF Store!BytesFollowPhases
<1>6. Store!LocksSerialise'
  BY <1>1, <1>2 DEF Store!LocksSerialise
<1>7. Store!ReadersHaveVersions'
  BY <1>1, <1>2, <1>3 DEF Store!ReadersHaveVersions
<1>8. Store!VersionsAreBacked'
  <2>1. \A u \in Store!Named : u \in Upload
    BY DEF Store!Named
  <2> QED BY <1>1, <1>2, <2>1 DEF Store!VersionsAreBacked
<1>9. Store!RefusedWereOvertaken'
  BY <1>1, <1>2 DEF Store!RefusedWereOvertaken
<1> QED BY <1>4, <1>5, <1>6, <1>7, <1>8, <1>9 DEF Store!ObjectsInv

LEMMA StoreReaderFacts ==
    ASSUME Store!ObjectsInv, NEW r \in Reader
    PROVE  /\ storeReading \in [Reader -> {Store!NotReading} \cup [step : {"found", "verified", "recorded"}, what : Store!Download]]
           /\ storeRecorded \subseteq Store!Download /\ storeServed \subseteq Store!Download
           /\ storeReads \in 0 .. MaxStoreReads /\ storeFaults \in 0 .. MaxStoreFaults
           /\ blob \in [Upload -> {"none", "stored", "lost"}]
           /\ storeReading[r] # Store!NotReading =>
                 /\ storeReading[r].step \in {"found", "verified", "recorded"} /\ storeReading[r].what \in Store!Download
                 /\ storeReading[r].what.object \in Object
                 /\ storeReading[r].what.version \in DOMAIN storeVersions[storeReading[r].what.object]
                 /\ storeReading[r].what.content = storeVersions[storeReading[r].what.object][storeReading[r].what.version]
                 /\ storeReading[r].step = "recorded" => storeReading[r].what \in storeRecorded
           /\ storeReading[r] = Store!NotReading => storeReading[r].step = "idle"
<1>1. Store!TypeOK /\ Store!ReadersHaveVersions
  BY DEF Store!ObjectsInv
<1>2. /\ storeReading[r] # Store!NotReading => storeReading[r].step \in {"found", "verified", "recorded"} /\ storeReading[r].what \in Store!Download
      /\ storeReading[r] = Store!NotReading => storeReading[r].step = "idle"
  BY <1>1 DEF Store!TypeOK, Store!NotReading
<1>3. storeReading[r] # Store!NotReading => storeReading[r].what.object \in Object
  BY <1>2 DEF Store!Download
<1> QED BY <1>1, <1>2, <1>3 DEF Store!TypeOK, Store!ReadersHaveVersions

LEMMA StoreReadSteps ==
    ASSUME Store!ObjectsInv, NEW r \in Reader,
           Store!Find(r) \/ Store!Verify(r) \/ Store!SendHeaders(r) \/ Store!RecordDownload(r) \/ Store!Send(r) \/ Store!ReadFails(r)
    PROVE  Store!ObjectsInv'
<1>1. PICK d : d = storeReading[r].what
  OBVIOUS
<1>2. CASE Store!Find(r)
  <2>1. PICK o \in Object : \E v \in DOMAIN storeVersions[o] :
           storeReading' = [storeReading EXCEPT ![r] = [step |-> "found",
              what |-> [object |-> o, version |-> v, content |-> storeVersions[o][v]]]]
    BY <1>2 DEF Store!Find
  <2>2. PICK v \in DOMAIN storeVersions[o] :
           storeReading' = [storeReading EXCEPT ![r] = [step |-> "found",
              what |-> [object |-> o, version |-> v, content |-> storeVersions[o][v]]]]
    BY <2>1
  <2>3. PICK w, to : w = [object |-> o, version |-> v, content |-> storeVersions[o][v]] /\ to = [step |-> "found", what |-> w]
    OBVIOUS
  <2>4. v \in Nat /\ storeVersions[o][v] \in Upload
    BY StoreNamedFacts
  <2>5. w \in Store!Download /\ to \in [step : {"found", "verified", "recorded"}, what : Store!Download]
    BY <2>3, <2>4 DEF Store!Download
  <2>6. storeReads' \in 0 .. MaxStoreReads
    BY <1>2, StoreReaderFacts, DataPlaneAssumptions DEF Store!Find,
       Store!GovernedObjectsAssumption
  <2>7. UNCHANGED <<storePhase, staged, blob, began, seenVersion, storeClock, Store!tables, storeRecorded, storeServed, storeFaults>>
    BY <1>2 DEF Store!Find, Store!upload
  <2>8. StoreReads(r, to)
    BY <2>2, <2>3, <2>6, <2>7, StoreReaderFacts DEF StoreReads
  <2> QED BY <2>5, <2>8, StoreReaderSteps
<1>3. CASE Store!Verify(r)
  <2>1. PICK to : to = [storeReading[r] EXCEPT !.step = "verified"]
    OBVIOUS
  <2>2. /\ storeReading' = [storeReading EXCEPT ![r] = to] /\ storeReading[r].step = "found"
        /\ UNCHANGED <<storePhase, staged, blob, began, seenVersion, storeClock, Store!tables, storeRecorded, storeServed, storeReads, storeFaults>>
    BY <1>3, <2>1 DEF Store!Verify, Store!upload
  <2>3. storeReading[r] # Store!NotReading
    BY <2>2, StoreReaderFacts
  <2>4. to \in [step : {"found", "verified", "recorded"}, what : Store!Download] /\ to.what = d /\ to.step = "verified"
    BY <1>1, <2>1, <2>3, StoreReaderFacts
  <2>5. StoreReads(r, to)
    BY <1>1, <2>2, <2>3, <2>4, StoreReaderFacts DEF StoreReads
  <2> QED BY <2>4, <2>5, StoreReaderSteps
<1>4. CASE Store!SendHeaders(r) \/ Store!Send(r) \/ Store!ReadFails(r)
  <2>1. /\ storeReading' = [storeReading EXCEPT ![r] = Store!NotReading] /\ storeRecorded' = storeRecorded /\ storeReads' = storeReads
        /\ UNCHANGED <<storePhase, staged, blob, began, seenVersion, storeClock, Store!tables>>
    BY <1>4 DEF Store!SendHeaders, Store!Send, Store!ReadFails, Store!Ends, Store!upload
  <2>2. storeFaults' \in 0 .. MaxStoreFaults
    BY <1>4, StoreReaderFacts, StoreFaultFacts DEF Store!SendHeaders, Store!Send,
       Store!ReadFails
  <2>3. storeServed' \subseteq Store!Download
    <3>1. CASE Store!Send(r)
      <4>1. storeServed' = storeServed \cup {storeReading[r].what} /\ storeReading[r] # Store!NotReading
        BY <3>1, StoreReaderFacts DEF Store!Send
      <4> QED BY <4>1, StoreReaderFacts
    <3>2. CASE Store!SendHeaders(r) \/ Store!ReadFails(r)
      BY <3>2, StoreReaderFacts DEF Store!SendHeaders, Store!ReadFails
    <3> QED BY <1>4, <3>1, <3>2
  <2>4. StoreReads(r, Store!NotReading)
    BY <2>1, <2>2, <2>3, StoreReaderFacts DEF StoreReads
  <2> QED BY <2>4, StoreReaderSteps
<1>5. CASE Store!RecordDownload(r)
  <2>1. PICK to : to = [storeReading[r] EXCEPT !.step = "recorded"]
    OBVIOUS
  <2>2. /\ storeReading' = [storeReading EXCEPT ![r] = to] /\ storeReading[r].step = "verified" /\ storeRecorded' = storeRecorded \cup {d}
        /\ UNCHANGED <<storePhase, staged, blob, began, seenVersion, storeClock, Store!tables, storeServed, storeReads, storeFaults>>
    BY <1>1, <1>5, <2>1 DEF Store!RecordDownload, Store!upload
  <2>3. storeReading[r] # Store!NotReading
    BY <2>2, StoreReaderFacts
  <2>4. to \in [step : {"found", "verified", "recorded"}, what : Store!Download] /\ to.what = d /\ to.step = "recorded"
    BY <1>1, <2>1, <2>3, StoreReaderFacts
  <2>5. storeRecorded \subseteq storeRecorded' /\ storeRecorded' \subseteq Store!Download /\ d \in storeRecorded'
    BY <1>1, <2>2, <2>3, StoreReaderFacts
  <2>6. d.version \in DOMAIN storeVersions[d.object] /\ d.content = storeVersions[d.object][d.version]
    BY <1>1, <2>3, StoreReaderFacts
  <2>7. StoreReads(r, to)
    BY <2>2, <2>4, <2>5, <2>6, StoreReaderFacts DEF StoreReads
  <2> QED BY <2>4, <2>7, StoreReaderSteps
<1> QED BY <1>2, <1>3, <1>4, <1>5

LEMMA StoreLoseInv == ASSUME Store!ObjectsInv, Store!Lose PROVE Store!ObjectsInv'
<1>1. Store!TypeOK /\ Store!BytesFollowPhases /\ Store!LocksSerialise /\ Store!ReadersHaveVersions /\ Store!VersionsAreBacked /\ Store!RefusedWereOvertaken
  BY DEF Store!ObjectsInv
<1>2. /\ UNCHANGED <<storePhase, staged, began, seenVersion, storeClock, storeVersions, updated, storeReading, storeRecorded, storeServed, storeReads>>
      /\ Store!Named' = Store!Named /\ storeFaults' \in 0 .. MaxStoreFaults
  BY StoreFaultFacts DEF Store!Lose, Store!tables, Store!reader, Store!Named
<1>3. PICK u \in Upload : blob[u] = "stored" /\ blob' = [blob EXCEPT ![u] = "lost"]
  BY DEF Store!Lose
<1>4. /\ blob' \in [Upload -> {"none", "stored", "lost"}]
      /\ \A w \in Upload : blob'[w] = "none" <=> blob[w] = "none"
  BY <1>1, <1>3 DEF Store!TypeOK
<1>5. Store!TypeOK'
  BY <1>1, <1>2, <1>4 DEF Store!TypeOK
<1>6. Store!BytesFollowPhases' /\ Store!LocksSerialise' /\ Store!ReadersHaveVersions' /\ Store!RefusedWereOvertaken'
  BY <1>1, <1>2, <1>4 DEF Store!BytesFollowPhases, Store!LocksSerialise,
     Store!ReadersHaveVersions, Store!RefusedWereOvertaken
<1>7. Store!VersionsAreBacked'
  <2>1. \A w \in Store!Named : w \in Upload
    BY DEF Store!Named
  <2> QED BY <1>1, <1>2, <1>4, <2>1 DEF Store!VersionsAreBacked
<1> QED BY <1>5, <1>6, <1>7 DEF Store!ObjectsInv

LEMMA StoreStepInv == ASSUME Store!ObjectsInv, Store!Next \/ UNCHANGED Store!vars PROVE Store!ObjectsInv'
<1>1. CASE UNCHANGED Store!vars
  BY <1>1 DEF Store!vars, Store!upload, Store!tables, Store!reader, Store!ObjectsInv,
     Store!TypeOK, Store!BytesFollowPhases, Store!LocksSerialise,
     Store!ReadersHaveVersions, Store!VersionsAreBacked, Store!RefusedWereOvertaken, Store!Named
<1>2. CASE Store!Lose
  BY <1>2, StoreLoseInv
<1>3. ASSUME NEW u \in Upload,
             \/ Store!Stream(u) \/ Store!Staged(u) \/ Store!StreamFails(u) \/ Store!Put(u) \/ Store!PutFails(u)
             \/ Store!Begin(u) \/ Store!Lock(u) \/ Store!Commit(u) \/ Store!Refuse(u) \/ Store!TransactionFails(u) \/ Store!Kill(u)
      PROVE  Store!ObjectsInv'
  BY <1>3, StoreUploadSteps, StoreTransactionSteps
<1>4. ASSUME NEW r \in Reader,
             Store!Find(r) \/ Store!Verify(r) \/ Store!SendHeaders(r) \/ Store!RecordDownload(r) \/ Store!Send(r) \/ Store!ReadFails(r)
      PROVE  Store!ObjectsInv'
  BY <1>4, StoreReadSteps
<1> QED BY <1>1, <1>2, <1>3, <1>4 DEF Store!Next

-----------------------------------------------------------------------------
(* The archive: each step appends a version, records or serves, or none.   *)
LEMMA StoreInitArchive == Store!Init => Store!Archive!Init
  BY DEF Store!Init, Store!Archive!Init

LEMMA StoreStepArchive == ASSUME Store!ObjectsInv, Store!Next \/ UNCHANGED Store!vars PROVE [Store!Archive!Next]_(Store!Archive!vars)
<1>1. CASE UNCHANGED Store!vars
  BY <1>1 DEF Store!vars, Store!tables, Store!reader, Store!Archive!vars
<1>2. CASE Store!Lose
  BY <1>2 DEF Store!Lose, Store!tables, Store!reader, Store!Archive!vars
<1>3. ASSUME NEW u \in Upload,
             \/ Store!Stream(u) \/ Store!Staged(u) \/ Store!StreamFails(u) \/ Store!Put(u) \/ Store!PutFails(u)
             \/ Store!Begin(u) \/ Store!Lock(u) \/ Store!Refuse(u) \/ Store!Kill(u)
      PROVE  UNCHANGED Store!Archive!vars
  BY <1>3 DEF Store!Stream, Store!Staged, Store!StreamFails, Store!Put, Store!PutFails,
     Store!Begin, Store!Lock, Store!Refuse, Store!Kill, Store!tables, Store!reader,
     Store!Archive!vars
<1>4. ASSUME NEW u \in Upload, Store!Commit(u) \/ Store!TransactionFails(u)
      PROVE  [Store!Archive!Next]_(Store!Archive!vars)
  <2>1. UNCHANGED <<storeRecorded, storeServed>> /\ (UNCHANGED storeVersions \/ Store!AddVersion(u))
    BY <1>4 DEF Store!Commit, Store!TransactionFails, Store!tables, Store!reader
  <2>2. ObjectOf[u] \in Object
    BY DataPlaneAssumptions DEF Store!GovernedObjectsAssumption
  <2>3. CASE Store!AddVersion(u)
    <3>1. Store!Archive!Store(ObjectOf[u], u)
      BY <2>1, <2>3 DEF Store!AddVersion, Store!Archive!Store
    <3> QED BY <2>2, <3>1 DEF Store!Archive!Next
  <2> QED BY <2>1, <2>3 DEF Store!Archive!vars
<1>5. ASSUME NEW r \in Reader, Store!Find(r) \/ Store!Verify(r) \/ Store!SendHeaders(r) \/ Store!ReadFails(r)
      PROVE  UNCHANGED Store!Archive!vars
  BY <1>5 DEF Store!Find, Store!Verify, Store!SendHeaders, Store!ReadFails, Store!tables,
     Store!Archive!vars
<1>6. ASSUME NEW r \in Reader, Store!RecordDownload(r) PROVE Store!Archive!Next
  <2>1. storeReading[r] # Store!NotReading /\ UNCHANGED <<storeVersions, storeServed>> /\ storeRecorded' = storeRecorded \cup {storeReading[r].what}
    BY <1>6, StoreReaderFacts DEF Store!RecordDownload, Store!tables
  <2>2. PICK o \in Object, v \in Nat, c \in Upload :
           storeReading[r].what = [object |-> o, version |-> v, content |-> c]
    BY <2>1, StoreReaderFacts DEF Store!Download
  <2>3. v \in DOMAIN storeVersions[o] /\ c = storeVersions[o][v]
    BY <2>1, <2>2, StoreReaderFacts
  <2>4. Store!Archive!Record(o, v)
    BY <2>1, <2>2, <2>3 DEF Store!Archive!Record
  <2> QED BY <2>3, <2>4 DEF Store!Archive!Next
<1>7. ASSUME NEW r \in Reader, Store!Send(r) PROVE Store!Archive!Next
  <2>1. /\ storeReading[r] # Store!NotReading /\ UNCHANGED <<storeVersions, storeRecorded>> /\ storeServed' = storeServed \cup {storeReading[r].what}
        /\ storeReading[r].what \in storeRecorded
    BY <1>7, StoreReaderFacts DEF Store!Send, Store!tables
  <2>2. Store!Archive!Serve(storeReading[r].what)
    BY <2>1 DEF Store!Archive!Serve
  <2> QED BY <2>1, <2>2 DEF Store!Archive!Next
<1> QED BY <1>1, <1>2, <1>3, <1>4, <1>5, <1>6, <1>7 DEF Store!Next

(***************************************************************************)
(* For any uploads, objects and readers, whatever is killed, fails, is not *)
(* answered or taken from the bucket: a committed version names bytes that *)
(* were stored before it, the lock orders the uploads of an object, and    *)
(* readers get what was uploaded, after the event that says so             *)
(* (PostgresGovernedObjectStore.upload(), download()). *)
(***************************************************************************)
THEOREM StoreStaysBacked == DataSpec => StoredIsBacked
<1> DEFINE I == dataPart = "store" => Store!ObjectsInv
<1>1. DataInit => I /\ (dataPart = "store" => Store!Archive!Init)
  BY StoreInitInv, StoreInitArchive DEF DataInit
<1>2. I /\ [DataNext]_dataVars =>
         /\ I'
         /\ [dataPart = "store" =>
               /\ Store!VersionsAreBacked' /\ Store!RefusedWereOvertaken'
               /\ [Store!Archive!Next]_(Store!Archive!vars)]_storeVars
  <2> SUFFICES ASSUME I, [DataNext]_dataVars
               PROVE  /\ I'
                      /\ dataPart = "store" =>
                            /\ Store!VersionsAreBacked' /\ Store!RefusedWereOvertaken'
                            /\ [Store!Archive!Next]_(Store!Archive!vars)
    OBVIOUS
  <2>1. dataPart' = dataPart
    BY DEF DataNext, dataVars
  <2>2. ASSUME dataPart = "store"
        PROVE  Store!ObjectsInv' /\ [Store!Archive!Next]_(Store!Archive!vars)
    <3>1. Store!ObjectsInv
      BY <2>2
    <3>2. Store!Next \/ UNCHANGED Store!vars
      BY <2>2 DEF DataNext, dataVars, storeVars, Store!vars, Store!upload, Store!tables,
         Store!reader
    <3> QED BY <3>1, <3>2, StoreStepInv, StoreStepArchive
  <2>3. Store!ObjectsInv' => Store!VersionsAreBacked' /\ Store!RefusedWereOvertaken'
    BY DEF Store!ObjectsInv
  <2> QED BY <2>1, <2>2, <2>3
<1> QED BY <1>1, <1>2, PTL DEF DataSpec, StoredIsBacked

-----------------------------------------------------------------------------
GraphPhases == {"idle", "adding", "publishing", "opened", "checked", "written"}

(* Versions and views are only added to, and published.                    *)
GraphGrows ==
    /\ UNCHANGED <<graph, batches>>
    /\ modelState' \in [GraphVersion -> {"none", "draft", "published"}]
    /\ views' \in [GraphVersion -> SUBSET GraphView]
    /\ graphRequests' \in 0 .. MaxRequests
    /\ graphFaults' \in 0 .. MaxGraphFaults
    /\ \A v \in GraphVersion : modelState[v] = "published" => modelState'[v] = "published" /\ views[v] \subseteq views'[v]

(* What the transaction of a client may come to be.                        *)
GraphTurned(c, p, j) ==
    /\ p \in GraphPhases
    /\ p \in {"opened", "checked", "written"} => j \in GraphBatch /\ Graph!Usable(j)
    /\ p = "adding" => j \in GraphVersion \X GraphView
    /\ p = "publishing" => j \in GraphVersion
    /\ p \in {"checked", "written"} => /\ ~ Graph!Seen(j)
                                       /\ \A d \in GraphClient \ {c} : Graph!Holding(d) => graphJob[d].key # j.key
    /\ p = "written" => /\ Graph!SameModel(j)
                        /\ \A d \in GraphClient \ {c} : graphPhase[d] = "written" => DOMAIN graphJob[d].items \cap DOMAIN j.items = {}

LEMMA GraphBatchFacts ==
    ASSUME NEW b \in GraphBatch
    PROVE  /\ b.version \in GraphVersion /\ b.key \in Graph!BatchKey /\ DOMAIN b.items \subseteq GraphInstance /\ b # Nil
           /\ \A i \in DOMAIN b.items : b.items[i] \in Graph!Item /\ b.items[i].version = b.version
  BY DataPlaneAssumptions DEF Graph!ModelGraphAssumption, Graph!BatchKey

LEMMA GraphJobFacts ==
    ASSUME Graph!GraphInv, NEW c \in GraphClient
    PROVE  /\ graphPhase[c] \in GraphPhases
           /\ graphPhase[c] \in {"opened", "checked", "written"} => graphJob[c] \in GraphBatch /\ Graph!Usable(graphJob[c])
           /\ graphPhase[c] = "adding" => graphJob[c] \in GraphVersion \X GraphView
           /\ graphPhase[c] = "publishing" => graphJob[c] \in GraphVersion
           /\ Graph!Holding(c) => ~ Graph!Seen(graphJob[c])
           /\ graphPhase[c] = "written" => Graph!SameModel(graphJob[c])
  BY DEF Graph!GraphInv, Graph!TypeOK, Graph!OpenBatches, Graph!Holding, GraphPhases

(* What is bound stays bound, and what is open stays usable.               *)
LEMMA GraphGrowFacts ==
    ASSUME Graph!GraphInv, GraphGrows
    PROVE  /\ Graph!InstancesAreBound'
           /\ \A b \in GraphBatch : Graph!Usable(b) => /\ modelState'[b.version] = "published"
                                                       /\ \A i \in DOMAIN b.items : b.items[i].view \in views'[b.version]
<1>1. \A i \in GraphInstance : graph[i] \in Graph!Item => graph[i].version \in GraphVersion
  BY DEF Graph!Item
<1>2. Graph!InstancesAreBound'
  BY <1>1 DEF Graph!GraphInv, Graph!InstancesAreBound, GraphGrows
<1>3. ASSUME NEW b \in GraphBatch, Graph!Usable(b)
      PROVE  modelState'[b.version] = "published" /\ \A i \in DOMAIN b.items : b.items[i].view \in views'[b.version]
  BY <1>3, GraphBatchFacts DEF Graph!Usable, GraphGrows
<1> QED BY <1>2, <1>3

(* A request that does not commit a batch.                                 *)
LEMMA GraphTurnsInv ==
    ASSUME Graph!GraphInv, GraphGrows, NEW C \in SUBSET GraphClient, \A c, d \in C : c = d,
           graphPhase' = [c \in GraphClient |-> graphPhase'[c]], graphJob' = [c \in GraphClient |-> graphJob'[c]],
           \A c \in GraphClient \ C : graphPhase'[c] = graphPhase[c] /\ graphJob'[c] = graphJob[c],
           \A c \in C : GraphTurned(c, graphPhase'[c], graphJob'[c])
    PROVE  Graph!GraphInv'
<1>1. UNCHANGED <<graph, batches>>
  BY DEF GraphGrows
<1>2. \A c \in GraphClient :
         /\ graphPhase'[c] \in GraphPhases
         /\ graphPhase'[c] \in {"opened", "checked", "written"} => graphJob'[c] \in GraphBatch /\ Graph!Usable(graphJob'[c])
         /\ graphPhase'[c] = "adding" => graphJob'[c] \in GraphVersion \X GraphView
         /\ graphPhase'[c] = "publishing" => graphJob'[c] \in GraphVersion
         /\ graphPhase'[c] \in {"checked", "written"} => ~ Graph!Seen(graphJob'[c])
         /\ graphPhase'[c] = "written" => Graph!SameModel(graphJob'[c])
  BY GraphJobFacts DEF GraphTurned, Graph!Holding
<1>3. Graph!TypeOK'
  BY <1>1, <1>2 DEF Graph!GraphInv, Graph!TypeOK, GraphGrows, GraphPhases
<1>4. ASSUME NEW c \in GraphClient, NEW d \in GraphClient, c # d, graphPhase'[c] \in {"checked", "written"}, graphPhase'[d] \in {"checked", "written"}
      PROVE  graphJob'[c].key # graphJob'[d].key
  <2>1. CASE c \in C
    <3>1. d \notin C
      BY <1>4, <2>1
    <3> QED BY <1>4, <2>1, <3>1 DEF GraphTurned, Graph!Holding
  <2>2. CASE d \in C
    <3>1. c \notin C
      BY <1>4, <2>2
    <3> QED BY <1>4, <2>2, <3>1 DEF GraphTurned, Graph!Holding
  <2>3. CASE c \notin C /\ d \notin C
    BY <1>4, <2>3 DEF Graph!GraphInv, Graph!OpenBatches, Graph!Holding
  <2> QED BY <2>1, <2>2, <2>3
<1>5. ASSUME NEW c \in GraphClient, NEW d \in GraphClient, c # d, graphPhase'[c] = "written", graphPhase'[d] = "written"
      PROVE  DOMAIN graphJob'[c].items \cap DOMAIN graphJob'[d].items = {}
  <2>1. CASE c \in C
    <3>1. d \notin C
      BY <1>5, <2>1
    <3>2. DOMAIN graphJob[d].items \cap DOMAIN graphJob'[c].items = {} /\ graphJob'[d] = graphJob[d]
      BY <1>5, <2>1, <3>1 DEF GraphTurned
    <3> QED BY <3>2
  <2>2. CASE d \in C
    <3>1. c \notin C
      BY <1>5, <2>2
    <3>2. DOMAIN graphJob[c].items \cap DOMAIN graphJob'[d].items = {} /\ graphJob'[c] = graphJob[c]
      BY <1>5, <2>2, <3>1 DEF GraphTurned
    <3> QED BY <3>2
  <2>3. CASE c \notin C /\ d \notin C
    BY <1>5, <2>3 DEF Graph!GraphInv, Graph!OpenBatches
  <2> QED BY <2>1, <2>2, <2>3
<1>6. \A c \in GraphClient : graphPhase'[c] \in {"opened", "checked", "written"} =>
         /\ modelState'[graphJob'[c].version] = "published"
         /\ \A i \in DOMAIN graphJob'[c].items : graphJob'[c].items[i].view \in views'[graphJob'[c].version]
  BY <1>2, GraphGrowFacts
<1>7. Graph!OpenBatches'
  BY <1>1, <1>2, <1>4, <1>5, <1>6 DEF Graph!OpenBatches, Graph!Holding, Graph!Usable,
     Graph!Seen, Graph!SameModel
<1> QED BY <1>3, <1>7, GraphGrowFacts DEF Graph!GraphInv

(* One client's request moves, and the tables grow or stay.                *)
LEMMA GraphMovesInv ==
    ASSUME Graph!GraphInv, GraphGrows, NEW c \in GraphClient, NEW p, NEW j,
           graphPhase' = [graphPhase EXCEPT ![c] = p], graphJob' = [graphJob EXCEPT ![c] = j], GraphTurned(c, p, j)
    PROVE  Graph!GraphInv'
<1>1. graphPhase = [d \in GraphClient |-> graphPhase[d]] /\ graphJob = [d \in GraphClient |-> graphJob[d]]
  BY DEF Graph!GraphInv, Graph!TypeOK
<1>2. /\ graphPhase' = [d \in GraphClient |-> graphPhase'[d]] /\ graphJob' = [d \in GraphClient |-> graphJob'[d]]
      /\ graphPhase'[c] = p /\ graphJob'[c] = j
      /\ \A d \in GraphClient \ {c} : graphPhase'[d] = graphPhase[d] /\ graphJob'[d] = graphJob[d]
  BY <1>1
<1>3. PICK C \in SUBSET GraphClient : C = {c}
  OBVIOUS
<1>4. /\ \A d, e \in C : d = e
      /\ \A d \in GraphClient \ C : graphPhase'[d] = graphPhase[d] /\ graphJob'[d] = graphJob[d]
      /\ \A d \in C : GraphTurned(d, graphPhase'[d], graphJob'[d])
  BY <1>2, <1>3
<1> QED BY <1>2, <1>4, GraphTurnsInv

LEMMA GraphEnded == ASSUME NEW c \in GraphClient PROVE GraphTurned(c, "idle", Nil)
  BY DEF GraphTurned, GraphPhases

LEMMA GraphStillGrows ==
    ASSUME Graph!GraphInv, UNCHANGED Graph!tables, graphRequests' \in 0 .. MaxRequests, graphFaults' \in 0 .. MaxGraphFaults
    PROVE  GraphGrows
  BY DEF Graph!GraphInv, Graph!TypeOK, Graph!tables, GraphGrows

LEMMA GraphSpendFacts == ASSUME Graph!GraphInv, Graph!Spend PROVE graphRequests' \in 0 .. MaxRequests /\ graphFaults' \in 0 .. MaxGraphFaults
  BY DataPlaneAssumptions DEF Graph!Spend, Graph!GraphInv, Graph!TypeOK,
     Graph!ModelGraphAssumption

LEMMA GraphCreateVersionInv == ASSUME Graph!GraphInv, Graph!CreateVersion PROVE Graph!GraphInv'
<1>1. PICK v \in GraphVersion : \E chosen \in SUBSET GraphView : \E status \in {"draft", "published"} :
         /\ modelState[v] = "none" /\ modelState' = [modelState EXCEPT ![v] = status] /\ views' = [views EXCEPT ![v] = chosen]
  BY DEF Graph!CreateVersion
<1>2. GraphGrows
  BY <1>1, GraphSpendFacts DEF Graph!CreateVersion, GraphGrows, Graph!GraphInv, Graph!TypeOK
<1>3. UNCHANGED <<graphPhase, graphJob>>
  BY DEF Graph!CreateVersion
<1>4. graphPhase = [d \in GraphClient |-> graphPhase[d]] /\ graphJob = [d \in GraphClient |-> graphJob[d]]
  BY DEF Graph!GraphInv, Graph!TypeOK
<1>5. /\ {} \in SUBSET GraphClient /\ \A c, d \in {} : c = d
      /\ graphPhase' = [d \in GraphClient |-> graphPhase'[d]] /\ graphJob' = [d \in GraphClient |-> graphJob'[d]]
      /\ \A c \in GraphClient \ {} : graphPhase'[c] = graphPhase[c] /\ graphJob'[c] = graphJob[c]
      /\ \A c \in {} : GraphTurned(c, graphPhase'[c], graphJob'[c])
  BY <1>3, <1>4
<1> QED BY <1>2, <1>5, GraphTurnsInv

LEMMA GraphVersionSteps ==
    ASSUME Graph!GraphInv, NEW c \in GraphClient, Graph!AskView(c) \/ Graph!InsertView(c) \/ Graph!AskPublish(c) \/ Graph!Publish(c)
    PROVE  Graph!GraphInv'
<1>1. modelState \in [GraphVersion -> {"none", "draft", "published"}] /\ views \in [GraphVersion -> SUBSET GraphView]
      /\ graphRequests \in 0 .. MaxRequests /\ graphFaults \in 0 .. MaxGraphFaults
  BY DEF Graph!GraphInv, Graph!TypeOK
<1>2. CASE Graph!AskView(c)
  <2>1. PICK j \in GraphVersion \X GraphView : graphPhase' = [graphPhase EXCEPT ![c] = "adding"] /\ graphJob' = [graphJob EXCEPT ![c] = j]
    BY <1>2 DEF Graph!AskView, Graph!Start
  <2>2. GraphTurned(c, "adding", j)
    BY DEF GraphTurned, GraphPhases
  <2>3. GraphGrows
    BY <1>2, GraphSpendFacts, GraphStillGrows DEF Graph!AskView
  <2> QED BY <2>1, <2>2, <2>3, GraphMovesInv
<1>3. CASE Graph!InsertView(c)
  <2>1. PICK v \in GraphVersion, w \in GraphView : graphJob[c] = <<v, w>>
    BY <1>3, GraphJobFacts DEF Graph!InsertView
  <2>2. views' = [views EXCEPT ![v] = views[v] \cup {w}]
    BY <1>3, <2>1 DEF Graph!InsertView
  <2>3. GraphGrows
    <3>1. views' \in [GraphVersion -> SUBSET GraphView] /\ \A x \in GraphVersion : views[x] \subseteq views'[x]
      BY <1>1, <2>1, <2>2
    <3> QED BY <1>1, <1>3, <3>1 DEF Graph!InsertView, GraphGrows
  <2> QED BY <1>3, <2>3, GraphEnded, GraphMovesInv DEF Graph!InsertView, Graph!End
<1>4. CASE Graph!AskPublish(c)
  <2>1. PICK v \in GraphVersion : graphPhase' = [graphPhase EXCEPT ![c] = "publishing"] /\ graphJob' = [graphJob EXCEPT ![c] = v]
    BY <1>4 DEF Graph!AskPublish, Graph!Start
  <2>2. GraphTurned(c, "publishing", v)
    BY DEF GraphTurned, GraphPhases
  <2>3. GraphGrows
    BY <1>4, GraphSpendFacts, GraphStillGrows DEF Graph!AskPublish
  <2> QED BY <2>1, <2>2, <2>3, GraphMovesInv
<1>5. CASE Graph!Publish(c)
  <2>1. GraphGrows
    BY <1>1, <1>5, GraphJobFacts DEF Graph!Publish, GraphGrows
  <2> QED BY <1>5, <2>1, GraphEnded, GraphMovesInv DEF Graph!Publish, Graph!End
<1> QED BY <1>2, <1>3, <1>4, <1>5

LEMMA GraphBatchSteps ==
    ASSUME Graph!GraphInv, NEW c \in GraphClient, Graph!Ask(c) \/ Graph!Answer(c) \/ Graph!Check(c) \/ Graph!Write(c)
    PROVE  Graph!GraphInv'
<1>1. /\ graphPhase = [d \in GraphClient |-> graphPhase[d]] /\ graphJob = [d \in GraphClient |-> graphJob[d]]
      /\ graphRequests \in 0 .. MaxRequests /\ graphFaults \in 0 .. MaxGraphFaults
  BY DEF Graph!GraphInv, Graph!TypeOK
<1>2. graphJob = [graphJob EXCEPT ![c] = graphJob[c]]
  BY <1>1
<1>3. CASE Graph!Ask(c)
  <2>1. PICK b \in GraphBatch : Graph!Usable(b) /\ graphPhase' = [graphPhase EXCEPT ![c] = "opened"] /\ graphJob' = [graphJob EXCEPT ![c] = b]
    BY <1>3 DEF Graph!Ask, Graph!Start
  <2>2. GraphTurned(c, "opened", b)
    BY <2>1 DEF GraphTurned, GraphPhases
  <2>3. GraphGrows
    BY <1>3, GraphSpendFacts, GraphStillGrows DEF Graph!Ask
  <2> QED BY <2>1, <2>2, <2>3, GraphMovesInv
<1>4. CASE Graph!Answer(c)
  <2>1. GraphGrows
    BY <1>1, <1>4, GraphStillGrows DEF Graph!Answer
  <2> QED BY <1>4, <2>1, GraphEnded, GraphMovesInv DEF Graph!Answer, Graph!End
<1>5. CASE Graph!Check(c)
  <2>1. GraphGrows
    BY <1>1, <1>5, GraphStillGrows DEF Graph!Check
  <2>2. CASE Graph!End(c)
    BY <2>1, <2>2, GraphEnded, GraphMovesInv DEF Graph!End
  <2>3. CASE Graph!Goto(c, "checked")
    <3>1. graphPhase' = [graphPhase EXCEPT ![c] = "checked"] /\ graphJob' = [graphJob EXCEPT ![c] = graphJob[c]]
      BY <1>2, <2>3 DEF Graph!Goto
    <3>2. GraphTurned(c, "checked", graphJob[c])
      BY <1>5, GraphJobFacts DEF Graph!Check, Graph!LockFree, GraphTurned, GraphPhases,
         Graph!Holding
    <3> QED BY <2>1, <3>1, <3>2, GraphMovesInv
  <2> QED BY <1>5, <2>2, <2>3 DEF Graph!Check
<1>6. CASE Graph!Write(c)
  <2>1. GraphGrows
    BY <1>1, <1>6, GraphStillGrows DEF Graph!Write
  <2>2. CASE Graph!End(c)
    BY <2>1, <2>2, GraphEnded, GraphMovesInv DEF Graph!End
  <2>3. CASE Graph!SameModel(graphJob[c]) /\ Graph!Goto(c, "written")
    <3>1. graphPhase' = [graphPhase EXCEPT ![c] = "written"] /\ graphJob' = [graphJob EXCEPT ![c] = graphJob[c]]
      BY <1>2, <2>3 DEF Graph!Goto
    <3>2. graphPhase[c] = "checked" /\ Graph!RowsFree(c)
      BY <1>6 DEF Graph!Write
    <3>3. \A d \in GraphClient \ {c} : Graph!Holding(d) => graphJob[d].key # graphJob[c].key
      BY <3>2 DEF Graph!GraphInv, Graph!OpenBatches, Graph!Holding
    <3>4. GraphTurned(c, "written", graphJob[c])
      BY <2>3, <3>2, <3>3, GraphJobFacts DEF Graph!RowsFree, GraphTurned, GraphPhases,
         Graph!Holding
    <3> QED BY <2>1, <3>1, <3>4, GraphMovesInv
  <2> QED BY <1>6, <2>2, <2>3 DEF Graph!Write
<1> QED BY <1>3, <1>4, <1>5, <1>6

(* The commit of a batch: it has its rows, and its key, for itself.        *)
LEMMA GraphAppliedFacts ==
    ASSUME Graph!GraphInv, NEW c \in GraphClient, graphPhase[c] = "written",
           Graph!Apply(graphJob[c])
    PROVE  /\ Graph!KeepsModels /\ Graph!InstancesAreBound'
           /\ graph' \in [GraphInstance -> Graph!Item \cup {Missing, Outside}]
           /\ batches' \in [Graph!BatchKey -> GraphBatch \cup {Nil}]
<1>1. PICK b \in GraphBatch : b = graphJob[c]
  BY GraphJobFacts
<1>2. /\ Graph!Usable(b) /\ Graph!SameModel(b)
      /\ graph' = [i \in GraphInstance |-> IF i \in DOMAIN b.items THEN b.items[i] ELSE graph[i]]
      /\ batches' = [batches EXCEPT ![b.key] = b] /\ UNCHANGED <<modelState, views>>
  BY <1>1, GraphJobFacts DEF Graph!Apply
<1>3. /\ graph \in [GraphInstance -> Graph!Item \cup {Missing, Outside}] /\ batches \in [Graph!BatchKey -> GraphBatch \cup {Nil}]
      /\ Graph!InstancesAreBound
  BY DEF Graph!GraphInv, Graph!TypeOK
<1>4. Missing \notin Graph!Item /\ Outside \notin Graph!Item /\ Missing # Outside /\ Anchored \subseteq GraphInstance
  BY DataPlaneAssumptions DEF Graph!ModelGraphAssumption
<1>5. graph' \in [GraphInstance -> Graph!Item \cup {Missing, Outside}] /\ batches' \in [Graph!BatchKey -> GraphBatch \cup {Nil}]
  BY <1>2, <1>3, GraphBatchFacts
<1>6. Graph!KeepsModels
  <2> SUFFICES ASSUME NEW i \in GraphInstance, graph[i] \in Graph!Item
               PROVE  graph'[i] \in Graph!Item /\ graph'[i].version = graph[i].version
    BY DEF Graph!KeepsModels
  <2>1. CASE i \in DOMAIN b.items
    <3>1. graph'[i] = b.items[i] /\ b.items[i] \in Graph!Item /\ b.items[i].version = b.version
      BY <1>2, <2>1, GraphBatchFacts
    <3>2. graph[i].version = b.version
      BY <1>2, <1>4, <2>1 DEF Graph!SameModel
    <3> QED BY <3>1, <3>2
  <2>2. CASE i \notin DOMAIN b.items
    BY <1>2, <2>2
  <2> QED BY <2>1, <2>2
<1>7. Graph!InstancesAreBound'
  <2>1. ASSUME NEW i \in Anchored PROVE graph'[i] = Outside
    <3>1. i \in GraphInstance /\ graph[i] = Outside
      BY <1>3, <1>4 DEF Graph!InstancesAreBound
    <3>2. i \notin DOMAIN b.items
      BY <1>2, <1>4, <3>1 DEF Graph!SameModel
    <3> QED BY <1>2, <3>1, <3>2
  <2>2. ASSUME NEW i \in GraphInstance, graph'[i] \in Graph!Item
        PROVE  modelState[graph'[i].version] = "published" /\ graph'[i].view \in views[graph'[i].version]
    <3>1. CASE i \in DOMAIN b.items
      <4>1. graph'[i] = b.items[i] /\ b.items[i].version = b.version
        BY <1>2, <3>1, GraphBatchFacts
      <4> QED BY <1>2, <3>1, <4>1 DEF Graph!Usable
    <3>2. CASE i \notin DOMAIN b.items
      BY <1>2, <1>3, <2>2, <3>2 DEF Graph!InstancesAreBound
    <3> QED BY <3>1, <3>2
  <2> QED BY <1>2, <2>1, <2>2 DEF Graph!InstancesAreBound
<1> QED BY <1>5, <1>6, <1>7

LEMMA GraphApplyInv ==
    ASSUME Graph!GraphInv, NEW c \in GraphClient, graphPhase[c] = "written",
           Graph!Apply(graphJob[c]), Graph!End(c),
           graphRequests' \in 0 .. MaxRequests, graphFaults' \in 0 .. MaxGraphFaults
    PROVE  Graph!GraphInv'
<1>1. PICK b \in GraphBatch : b = graphJob[c]
  BY GraphJobFacts
<1>2. /\ graph' = [i \in GraphInstance |-> IF i \in DOMAIN b.items THEN b.items[i] ELSE graph[i]]
      /\ batches' = [batches EXCEPT ![b.key] = b] /\ UNCHANGED <<modelState, views>>
  BY <1>1 DEF Graph!Apply
<1>3. /\ graphPhase \in [GraphClient -> GraphPhases] /\ graphJob = [d \in GraphClient |-> graphJob[d]]
      /\ batches \in [Graph!BatchKey -> GraphBatch \cup {Nil}]
      /\ modelState \in [GraphVersion -> {"none", "draft", "published"}] /\ views \in [GraphVersion -> SUBSET GraphView]
  BY DEF Graph!GraphInv, Graph!TypeOK, GraphPhases
<1>4. /\ graphPhase'[c] = "idle" /\ graphPhase' \in [GraphClient -> GraphPhases] /\ graphJob' = [d \in GraphClient |-> graphJob'[d]]
      /\ \A d \in GraphClient : d # c => graphPhase'[d] = graphPhase[d] /\ graphJob'[d] = graphJob[d]
  BY <1>3 DEF Graph!End, GraphPhases
<1>5. Graph!TypeOK'
  <2>1. \A d \in GraphClient :
           /\ graphPhase'[d] \in {"opened", "checked", "written"} => graphJob'[d] \in GraphBatch
           /\ graphPhase'[d] = "adding" => graphJob'[d] \in GraphVersion \X GraphView
           /\ graphPhase'[d] = "publishing" => graphJob'[d] \in GraphVersion
    BY <1>4, GraphJobFacts
  <2> QED BY <1>2, <1>3, <1>4, <2>1, GraphAppliedFacts DEF Graph!TypeOK, GraphPhases
<1>6. ASSUME NEW d \in GraphClient, d # c, graphPhase[d] \in {"opened", "checked", "written"}
      PROVE  /\ graphJob[d] \in GraphBatch /\ Graph!Usable(graphJob[d]) /\ DOMAIN graphJob[d].items \subseteq GraphInstance
             /\ Graph!Holding(d) => batches'[graphJob[d].key] = Nil
             /\ graphPhase[d] = "written" => \A i \in DOMAIN graphJob[d].items : graph'[i] = graph[i]
  <2>1. graphJob[d] \in GraphBatch /\ Graph!Usable(graphJob[d]) /\ graphJob[d].key \in Graph!BatchKey /\ DOMAIN graphJob[d].items \subseteq GraphInstance
    BY <1>6, GraphJobFacts, GraphBatchFacts
  <2>2. ASSUME Graph!Holding(d) PROVE batches'[graphJob[d].key] = Nil
    <3>1. graphJob[d].key # b.key /\ batches[graphJob[d].key] = Nil
      BY <1>1, <1>6, <2>2 DEF Graph!GraphInv, Graph!OpenBatches, Graph!Holding, Graph!Seen
    <3> QED BY <1>2, <1>3, <2>1, <3>1
  <2>3. ASSUME graphPhase[d] = "written", NEW i \in DOMAIN graphJob[d].items
        PROVE  graph'[i] = graph[i]
    <3>1. DOMAIN graphJob[d].items \cap DOMAIN b.items = {}
      BY <1>1, <1>6, <2>3 DEF Graph!GraphInv, Graph!OpenBatches
    <3> QED BY <1>2, <2>1, <2>3, <3>1
  <2> QED BY <2>1, <2>2, <2>3
<1>7. Graph!OpenBatches'
  <2>1. \A d \in GraphClient : graphPhase'[d] \in {"opened", "checked", "written"} =>
           /\ modelState'[graphJob'[d].version] = "published"
           /\ \A i \in DOMAIN graphJob'[d].items : graphJob'[d].items[i].view \in views'[graphJob'[d].version]
    BY <1>2, <1>4, <1>6 DEF Graph!Usable
  <2>2. \A d \in GraphClient : graphPhase'[d] \in {"checked", "written"} => batches'[graphJob'[d].key] = Nil
    BY <1>4, <1>6 DEF Graph!Holding
  <2>3. \A d, e \in GraphClient : d # e /\ graphPhase'[d] \in {"checked", "written"} /\ graphPhase'[e] \in {"checked", "written"} =>
                                graphJob'[d].key # graphJob'[e].key
    BY <1>4 DEF Graph!GraphInv, Graph!OpenBatches, Graph!Holding
  <2>4. ASSUME NEW d \in GraphClient, graphPhase'[d] = "written", NEW i \in DOMAIN graphJob'[d].items, graph'[i] # Missing
        PROVE  graph'[i] # Outside /\ graph'[i].version = graphJob'[d].version
    <3>1. d # c /\ graphPhase[d] = "written" /\ graphJob'[d] = graphJob[d]
      BY <1>4, <2>4
    <3>2. graph'[i] = graph[i] /\ Graph!SameModel(graphJob[d])
      BY <1>6, <2>4, <3>1, GraphJobFacts
    <3> QED BY <2>4, <3>1, <3>2 DEF Graph!SameModel
  <2>5. \A d, e \in GraphClient : d # e /\ graphPhase'[d] = "written" /\ graphPhase'[e] = "written" =>
                                DOMAIN graphJob'[d].items \cap DOMAIN graphJob'[e].items = {}
    BY <1>4 DEF Graph!GraphInv, Graph!OpenBatches
  <2> QED BY <2>1, <2>2, <2>3, <2>4, <2>5 DEF Graph!OpenBatches, Graph!Holding, Graph!Usable,
             Graph!Seen, Graph!SameModel
<1> QED BY <1>5, <1>7, GraphAppliedFacts DEF Graph!GraphInv

LEMMA GraphCommitSteps == ASSUME Graph!GraphInv, NEW c \in GraphClient, Graph!Commit(c) \/ Graph!Fail(c) PROVE Graph!GraphInv'
<1>1. graphRequests \in 0 .. MaxRequests /\ graphFaults \in 0 .. MaxGraphFaults
  BY DEF Graph!GraphInv, Graph!TypeOK
<1>2. Graph!End(c) /\ graphRequests' \in 0 .. MaxRequests /\ graphFaults' \in 0 .. MaxGraphFaults
  BY <1>1, DataPlaneAssumptions DEF Graph!Commit, Graph!Fail, Graph!ModelGraphAssumption
<1>3. CASE graphPhase[c] = "written" /\ Graph!Apply(graphJob[c])
  BY <1>2, <1>3, GraphApplyInv
<1>4. CASE UNCHANGED Graph!tables
  BY <1>2, <1>4, GraphStillGrows, GraphEnded, GraphMovesInv DEF Graph!End
<1> QED BY <1>3, <1>4 DEF Graph!Commit, Graph!Fail

LEMMA GraphInitInv == Graph!Init => Graph!GraphInv
<1> SUFFICES ASSUME Graph!Init PROVE Graph!GraphInv
  OBVIOUS
<1>1. Missing \notin Graph!Item /\ Outside \notin Graph!Item /\ Missing # Outside /\ Anchored \subseteq GraphInstance
  BY DataPlaneAssumptions DEF Graph!ModelGraphAssumption
<1>2. Graph!TypeOK
  BY DataPlaneAssumptions DEF Graph!Init, Graph!TypeOK, Graph!ModelGraphAssumption
<1>3. Graph!InstancesAreBound
  BY <1>1 DEF Graph!Init, Graph!InstancesAreBound
<1>4. Graph!OpenBatches
  BY DEF Graph!Init, Graph!OpenBatches, Graph!Holding
<1> QED BY <1>2, <1>3, <1>4 DEF Graph!GraphInv

LEMMA GraphStepInv == ASSUME Graph!GraphInv, Graph!Next \/ UNCHANGED Graph!vars PROVE Graph!GraphInv'
<1>1. CASE UNCHANGED Graph!vars
  BY <1>1 DEF Graph!vars, Graph!tables, Graph!GraphInv, Graph!TypeOK, Graph!InstancesAreBound,
     Graph!OpenBatches, Graph!Holding, Graph!Usable, Graph!Seen, Graph!SameModel
<1>2. CASE Graph!CreateVersion
  BY <1>2, GraphCreateVersionInv
<1>3. ASSUME NEW c \in GraphClient,
             \/ Graph!AskView(c) \/ Graph!InsertView(c) \/ Graph!AskPublish(c) \/ Graph!Publish(c)
             \/ Graph!Ask(c) \/ Graph!Answer(c) \/ Graph!Check(c) \/ Graph!Write(c) \/ Graph!Commit(c) \/ Graph!Fail(c)
      PROVE  Graph!GraphInv'
  BY <1>3, GraphVersionSteps, GraphBatchSteps, GraphCommitSteps
<1> QED BY <1>1, <1>2, <1>3 DEF Graph!Next

-----------------------------------------------------------------------------
(* The ledger: a batch is entered when it commits, and only then.          *)
LEMMA GraphInitLedger == Graph!Init => Graph!Ledger!Init
  BY DataPlaneAssumptions DEF Graph!Init, Graph!Ledger!Init, Graph!ModelGraphAssumption

LEMMA GraphEntersBatch ==
    ASSUME Graph!GraphInv, NEW c \in GraphClient, graphPhase[c] = "written", Graph!Apply(graphJob[c])
    PROVE  Graph!Ledger!Next
<1>1. PICK b \in GraphBatch : b = graphJob[c]
  BY GraphJobFacts
<1>2. /\ graph' = [i \in GraphInstance |-> IF i \in DOMAIN b.items THEN b.items[i] ELSE graph[i]]
      /\ batches' = [batches EXCEPT ![b.key] = b]
  BY <1>1 DEF Graph!Apply
<1>3. batches \in [Graph!BatchKey -> GraphBatch \cup {Nil}] /\ batches[b.key] = Nil /\ b.key \in Graph!BatchKey /\ b # Nil
  BY <1>1, GraphJobFacts, GraphBatchFacts DEF Graph!GraphInv, Graph!TypeOK, Graph!Holding,
     Graph!Seen
<1>4. PICK e : e = [key |-> b.key, parent |-> b.items, value |-> [p \in {} |-> p]]
  OBVIOUS
<1>5. Graph!Ledger!Enter(e)
  <2>1. e.key = b.key /\ e.parent = b.items /\ e.value = [p \in {} |-> p]
    BY <1>4
  <2>2. [k \in Graph!BatchKey |-> IF batches'[k] = Nil THEN Nil ELSE
                 [key |-> k, parent |-> batches'[k].items, value |-> [p \in {} |-> p]]]
        = [[k \in Graph!BatchKey |-> IF batches[k] = Nil THEN Nil ELSE
                 [key |-> k, parent |-> batches[k].items, value |-> [p \in {} |-> p]]] EXCEPT ![b.key] = e]
    BY <1>2, <1>3, <1>4
  <2>3. [i \in GraphInstance \ Anchored |-> graph'[i]]
        = [i \in GraphInstance \ Anchored |-> IF i \in DOMAIN e.parent THEN e.parent[i] ELSE [j \in GraphInstance \ Anchored |-> graph[j]][i]]
    BY <1>2, <2>1
  <2>4. [p \in {} |-> p] = [p \in {} |-> IF p \in DOMAIN e.value THEN e.value[p] ELSE [q \in {} |-> q][p]]
    OBVIOUS
  <2> QED BY <1>3, <2>1, <2>2, <2>3, <2>4 DEF Graph!Ledger!Enter
<1> QED BY <1>4, <1>5 DEF Graph!Ledger!Next

LEMMA GraphStepLedger == ASSUME Graph!GraphInv, Graph!Next \/ UNCHANGED Graph!vars PROVE Graph!KeepsModels /\ [Graph!Ledger!Next]_(Graph!Ledger!vars)
<1>1. CASE UNCHANGED <<graph, batches>>
  BY <1>1 DEF Graph!KeepsModels, Graph!Ledger!vars
<1>2. ASSUME NEW c \in GraphClient, graphPhase[c] = "written", Graph!Apply(graphJob[c])
      PROVE  Graph!KeepsModels /\ Graph!Ledger!Next
  BY <1>2, GraphAppliedFacts, GraphEntersBatch
<1>3. CASE UNCHANGED Graph!vars \/ Graph!CreateVersion
  BY <1>1, <1>3 DEF Graph!vars, Graph!tables, Graph!CreateVersion
<1>4. ASSUME NEW c \in GraphClient,
             \/ Graph!AskView(c) \/ Graph!InsertView(c) \/ Graph!AskPublish(c) \/ Graph!Publish(c)
             \/ Graph!Ask(c) \/ Graph!Answer(c) \/ Graph!Check(c) \/ Graph!Write(c)
      PROVE  UNCHANGED <<graph, batches>>
  BY <1>4 DEF Graph!AskView, Graph!InsertView, Graph!AskPublish, Graph!Publish, Graph!Ask,
     Graph!Answer, Graph!Check, Graph!Write, Graph!tables
<1>5. ASSUME NEW c \in GraphClient, Graph!Commit(c) \/ Graph!Fail(c)
      PROVE  UNCHANGED <<graph, batches>> \/ (graphPhase[c] = "written" /\ Graph!Apply(graphJob[c]))
  BY <1>5 DEF Graph!Commit, Graph!Fail, Graph!tables
<1> QED BY <1>1, <1>2, <1>3, <1>4, <1>5 DEF Graph!Next

(***************************************************************************)
(* For any clients, versions, views, instances and batches, however        *)
(* requests interleave, fail and are retried: a batch is entered once and  *)
(* whole under its key, what it binds is of a published version that has   *)
(* the view, and no race moves an instance to another version              *)
(* (upsertModelInstances(), createModelVersion(), publishModelVersion()).  *)
(***************************************************************************)
THEOREM BatchesStayBound == DataSpec => GraphStaysBound
<1> DEFINE I == dataPart = "graph" => Graph!GraphInv
<1>1. DataInit => I /\ (dataPart = "graph" => Graph!Ledger!Init)
  BY GraphInitInv, GraphInitLedger DEF DataInit
<1>2. I /\ [DataNext]_dataVars =>
         /\ I'
         /\ [dataPart = "graph" =>
               /\ Graph!InstancesAreBound' /\ Graph!KeepsModels
               /\ [Graph!Ledger!Next]_(Graph!Ledger!vars)]_graphVars
  <2> SUFFICES ASSUME I, [DataNext]_dataVars
               PROVE  /\ I'
                      /\ dataPart = "graph" =>
                            /\ Graph!InstancesAreBound' /\ Graph!KeepsModels
                            /\ [Graph!Ledger!Next]_(Graph!Ledger!vars)
    OBVIOUS
  <2>1. dataPart' = dataPart
    BY DEF DataNext, dataVars
  <2>2. ASSUME dataPart = "graph"
        PROVE  Graph!GraphInv' /\ Graph!KeepsModels /\ [Graph!Ledger!Next]_(Graph!Ledger!vars)
    <3>1. Graph!GraphInv
      BY <2>2
    <3>2. Graph!Next \/ UNCHANGED Graph!vars
      BY <2>2 DEF DataNext, dataVars, graphVars, Graph!vars, Graph!tables
    <3> QED BY <3>1, <3>2, GraphStepInv, GraphStepLedger
  <2>3. Graph!GraphInv' => Graph!InstancesAreBound'
    BY DEF Graph!GraphInv
  <2> QED BY <2>1, <2>2, <2>3
<1> QED BY <1>1, <1>2, PTL DEF DataSpec, GraphStaysBound

-----------------------------------------------------------------------------
-----------------------------------------------------------------------------
(* The SQLite ingest.  Its finite sets are those of the library; a         *)
(* non-empty set of naturals has a least element.                          *)
LEMMA LocalFinType == ASSUME NEW S, Ingest!IsFiniteSet(S) PROVE Ingest!Cardinality(S) \in Nat
<1>1. IsFiniteSet(S)
  BY DEF Ingest!IsFiniteSet, IsFiniteSet
<1>2. Ingest!Cardinality(S) = Cardinality(S)
  BY DEF Ingest!Cardinality, Cardinality
<1> QED BY <1>1, <1>2, FS_CardinalityType

LEMMA LeastNatural ==
    ASSUME NEW S \in SUBSET Nat, S # {} PROVE \E x \in S : \A y \in S : x <= y
<1>1. PICK R : R = OpToRel(<, Nat)
  OBVIOUS
<1>2. \A x, y \in Nat : x < y => <<x, y>> \in R
  BY <1>1 DEF OpToRel
<1>3. IsWellFoundedOn(R, Nat)
  BY <1>1, NatLessThanWellFounded
<1>4. PICK x \in S : \A y \in S : ~ (<<y, x>> \in R)
  BY <1>3, WFMin
<1>5. ASSUME NEW y \in S PROVE x <= y
  <2>1. x \in Nat /\ y \in Nat /\ ~(y < x)
    BY <1>2, <1>4
  <2> QED BY <2>1
<1> QED BY <1>5


(* Before the first bundle no chain of parents leads anywhere.             *)
LEMMA LocalEmptyForest ==
    ASSUME NEW tree, \A x \in IngestAsset : tree[x] = Missing, NEW a \in IngestAsset
    PROVE  ~ Ingest!OwnAncestor(tree, a)
<1>1. PICK n \in Nat : n = Ingest!Cardinality(IngestAsset)
  BY DataPlaneAssumptions, LocalFinType DEF Ingest!LocalIngestAssumption
<1>2. Missing \notin IngestAsset
  BY DataPlaneAssumptions DEF Ingest!LocalIngestAssumption
<1>3. PICK g : g = [m \in 0 .. n |-> {Missing}]
  OBVIOUS
<1>4. g = [m \in 0 .. n |-> IF m = 0 THEN {tree[a]} ELSE g[m - 1] \cup {tree[x] : x \in g[m - 1] \cap IngestAsset}]
  <2>1. ASSUME NEW m \in 0 .. n
        PROVE  g[m] = IF m = 0 THEN {tree[a]} ELSE g[m - 1] \cup {tree[x] : x \in g[m - 1] \cap IngestAsset}
    <3>1. CASE m = 0
      BY <1>3, <3>1
    <3>2. CASE m # 0
      <4>1. m - 1 \in 0 .. n
        BY <3>2
      <4>2. g[m - 1] = {Missing} /\ g[m] = {Missing} /\ g[m - 1] \cap IngestAsset = {}
        BY <1>2, <1>3, <4>1
      <4> QED BY <3>2, <4>2
    <3> QED BY <3>1, <3>2
  <2> QED BY <1>3, <2>1
<1>5. PICK f : f = CHOOSE h : h = [m \in 0 .. n |-> IF m = 0 THEN {tree[a]} ELSE h[m - 1] \cup {tree[x] : x \in h[m - 1] \cap IngestAsset}]
  OBVIOUS
<1>6. f = [m \in 0 .. n |-> IF m = 0 THEN {tree[a]} ELSE f[m - 1] \cup {tree[x] : x \in f[m - 1] \cap IngestAsset}]
  BY <1>4, <1>5
<1>7. Ingest!OwnAncestor(tree, a) <=> a \in f[n]
  BY <1>1, <1>5 DEF Ingest!OwnAncestor
<1>8. {m \in 0 .. n : f[m] # {Missing}} = {}
  <2> SUFFICES ASSUME {m \in 0 .. n : f[m] # {Missing}} # {} PROVE FALSE
    OBVIOUS
  <2>1. PICK m \in 0 .. n : f[m] # {Missing} /\ \A k \in 0 .. n : f[k] # {Missing} => m <= k
    <3>1. {m \in 0 .. n : f[m] # {Missing}} \in SUBSET Nat
      OBVIOUS
    <3> QED BY <3>1, LeastNatural
  <2>2. m # 0
    BY <1>6, <2>1
  <2>3. m - 1 \in 0 .. n /\ ~ (m <= m - 1)
    BY <2>2
  <2>4. f[m - 1] = {Missing}
    BY <2>1, <2>3
  <2>5. f[m] = f[m - 1] \cup {tree[x] : x \in f[m - 1] \cap IngestAsset}
    BY <1>6, <2>2
  <2>6. {tree[x] : x \in f[m - 1] \cap IngestAsset} = {}
    BY <1>2, <2>4
  <2> QED BY <2>1, <2>4, <2>5, <2>6
<1>9. f[n] = {Missing}
  BY <1>1, <1>8
<1> QED BY <1>2, <1>7, <1>9

-----------------------------------------------------------------------------
(* Bundles, and what a replay makes of one.                                *)
LocalDecision == [id : {a.id : a \in Ingest!Asserted}, status : {"proposed", "accepted", "rejected"}]
LocalStated == UNION {{b.value[p] : p \in DOMAIN b.value} : b \in IngestBundle}

LEMMA LocalReplayFacts ==
    ASSUME NEW b \in IngestBundle, NEW r \in ReplayKey
    PROVE  /\ Ingest!Replay(b, r) \in Ingest!Replays /\ Ingest!Replay(b, r).key = r
           /\ Ingest!Replay(b, r).parent = b.parent /\ Ingest!Replay(b, r).value = b.value /\ Ingest!Replay(b, r).rel = b.rel
<1>1. b = [key |-> b.key, parent |-> b.parent, value |-> b.value, rel |-> b.rel]
  BY DataPlaneAssumptions DEF Ingest!LocalIngestAssumption
<1>2. PICK k, q, v, l : b = [key |-> k, parent |-> q, value |-> v, rel |-> l]
  BY <1>1
<1>3. Ingest!Replay(b, r) = [key |-> r, parent |-> q, value |-> v, rel |-> l]
  BY <1>2 DEF Ingest!Replay
<1> QED BY <1>2, <1>3 DEF Ingest!Replays

LEMMA LocalSentFacts ==
    ASSUME NEW b \in IngestBundle
    PROVE  /\ b.key \in IngestKey
           /\ DOMAIN b.parent \subseteq IngestAsset /\ \A a \in DOMAIN b.parent : b.parent[a] \in IngestAsset \cup {TreeRoot}
           /\ DOMAIN b.value \subseteq IngestPoint /\ DOMAIN b.rel \subseteq IngestRelation
           /\ \A p \in DOMAIN b.value : b.value[p] \in LocalStated
           /\ \A r \in DOMAIN b.rel : b.rel[r] \in LocalDecision
<1>1. \A a \in Ingest!Asserted : a \in LocalDecision
  <2> SUFFICES ASSUME NEW a \in Ingest!Asserted PROVE a \in LocalDecision
    OBVIOUS
  <2>1. PICK i, s : a = [id |-> i, status |-> s] /\ i = a.id /\ s = a.status
    BY DataPlaneAssumptions DEF Ingest!LocalIngestAssumption
  <2>2. s \in {"proposed", "accepted", "rejected"} /\ i \in {x.id : x \in Ingest!Asserted}
    BY <2>1, DataPlaneAssumptions DEF Ingest!LocalIngestAssumption
  <2> QED BY <2>1, <2>2 DEF LocalDecision
<1>2. \A r \in DOMAIN b.rel : b.rel[r] \in Ingest!Asserted
  BY DEF Ingest!Asserted
<1>3. \A p \in DOMAIN b.value : b.value[p] \in LocalStated
  BY DEF LocalStated
<1> QED BY <1>1, <1>2, <1>3, DataPlaneAssumptions DEF Ingest!LocalIngestAssumption

LEMMA LocalBundleFacts ==
    ASSUME NEW b \in IngestBundle \cup Ingest!Replays
    PROVE  /\ b.key \in Ingest!AnyKey /\ b # Nil
           /\ DOMAIN b.parent \subseteq IngestAsset /\ \A a \in DOMAIN b.parent : b.parent[a] \in IngestAsset \cup {TreeRoot}
           /\ DOMAIN b.value \subseteq IngestPoint /\ DOMAIN b.rel \subseteq IngestRelation
           /\ \A p \in DOMAIN b.value : b.value[p] \in LocalStated
           /\ \A r \in DOMAIN b.rel : b.rel[r] \in LocalDecision
<1>1. b # Nil
  BY DataPlaneAssumptions DEF Ingest!LocalIngestAssumption
<1>2. CASE b \in IngestBundle
  BY <1>1, <1>2, LocalSentFacts DEF Ingest!AnyKey
<1>3. CASE b \in Ingest!Replays
  <2>1. PICK c \in IngestBundle, r \in ReplayKey : b = Ingest!Replay(c, r)
    BY <1>3 DEF Ingest!Replays
  <2> QED BY <1>1, <2>1, LocalReplayFacts, LocalSentFacts DEF Ingest!AnyKey
<1> QED BY <1>2, <1>3

-----------------------------------------------------------------------------
(* The ingest transaction.                                                 *)
LEMMA LocalOutcomeFacts ==
    ASSUME NEW b
    PROVE  /\ Ingest!Outcome(b) \in {"conflict", "completed", "failed"}
           /\ Ingest!Outcome(b) # "conflict" => bundleFile[b.key] \in {Nil, b}
           /\ Ingest!Outcome(b) = "failed" => ingestRun[b.key] # "completed"
           /\ bundleFile[b.key] \in {Nil, b} /\ ingestRun[b.key] = "completed" => Ingest!Outcome(b) = "completed"
           /\ Ingest!Outcome(b) = "completed" /\ ingestRun[b.key] # "completed" =>
                 ~ Ingest!AssetsRefused(b) /\ ~ Ingest!PointConflict(b) /\ ~ Ingest!RelationConflict(b)
<1>1. CASE bundleFile[b.key] \notin {Nil, b}
  <2>1. Ingest!Outcome(b) = "conflict"
    BY <1>1 DEF Ingest!Outcome
  <2> QED BY <1>1, <2>1
<1>2. CASE bundleFile[b.key] \in {Nil, b} /\ ingestRun[b.key] = "completed"
  <2>1. Ingest!Outcome(b) = "completed"
    BY <1>2 DEF Ingest!Outcome
  <2> QED BY <1>2, <2>1
<1>3. CASE bundleFile[b.key] \in {Nil, b} /\ ingestRun[b.key] # "completed"
  <2>1. Ingest!Outcome(b) = IF Ingest!AssetsRefused(b) THEN "failed" ELSE IF Ingest!PointConflict(b) THEN "conflict"
                     ELSE IF Ingest!RelationRefused(b) THEN "failed" ELSE IF Ingest!RelationConflict(b) THEN "conflict"
                     ELSE IF Ingest!IdTaken(b) THEN "failed" ELSE "completed"
    BY <1>3 DEF Ingest!Outcome
  <2>2. CASE Ingest!AssetsRefused(b) \/ Ingest!PointConflict(b) \/ Ingest!RelationConflict(b)
    BY <1>3, <2>1, <2>2
  <2>3. CASE ~ (Ingest!AssetsRefused(b) \/ Ingest!PointConflict(b) \/ Ingest!RelationConflict(b))
    BY <1>3, <2>1, <2>3
  <2> QED BY <2>2, <2>3
<1> QED BY <1>1, <1>2, <1>3

(* What one ingest leaves behind, whether it is applied, found completed,  *)
(* refused, or in conflict.                                                *)
LocalPresence == {a \in IngestAsset : assetParent[a] # Missing}

LocalIngested(b) ==
    /\ ingestRun' \in [Ingest!AnyKey -> {"none", "failed", "completed"}]
    /\ bundleFile' \in [Ingest!AnyKey -> IngestBundle \cup Ingest!Replays \cup {Nil}]
    /\ pointValue' \in [IngestPoint -> {Nil} \cup LocalStated]
    /\ assetParent' \in [IngestAsset -> IngestAsset \cup {TreeRoot, Missing}]
    /\ relationRow' \in [IngestRelation -> {Missing} \cup LocalDecision]
    /\ Ingest!HierarchyIsForest' /\ Ingest!RunsAreWhole'
    /\ \A k \in Ingest!AnyKey : ingestRun[k] = "completed" => ingestRun'[k] = "completed" /\ bundleFile'[k] = bundleFile[k]
    /\ \A k \in Ingest!AnyKey : k # b.key => ingestRun'[k] = ingestRun[k] /\ bundleFile'[k] = bundleFile[k]
    /\ LocalPresence' = LocalPresence \cup Ingest!Indexed(b)
    /\ Ingest!Outcome(b) = "completed" => ingestRun'[b.key] = "completed" /\ bundleFile'[b.key] = b
    /\ Ingest!KeepsDecisions
    /\ [Ingest!Ledger!Next]_(Ingest!Ledger!vars)

LEMMA LocalTypeFacts ==
    ASSUME Ingest!TypeOK
    PROVE  /\ ingestRun \in [Ingest!AnyKey -> {"none", "failed", "completed"}]
           /\ bundleFile \in [Ingest!AnyKey -> IngestBundle \cup Ingest!Replays \cup {Nil}]
           /\ pointValue \in [IngestPoint -> {Nil} \cup LocalStated]
           /\ assetParent \in [IngestAsset -> IngestAsset \cup {TreeRoot, Missing}]
           /\ relationRow \in [IngestRelation -> {Missing} \cup LocalDecision]
  BY DEF Ingest!TypeOK, LocalStated, LocalDecision

(* It changes no fact: a conflict, an error, a run completed before.       *)
LEMMA LocalRefusedFacts ==
    ASSUME Ingest!IngestInv, NEW b \in IngestBundle \cup Ingest!Replays, Ingest!Ingest(b),
           Ingest!Outcome(b) = "completed" => ingestRun[b.key] = "completed"
    PROVE  LocalIngested(b)
<1>1. /\ Ingest!TypeOK /\ Ingest!HierarchyIsForest /\ Ingest!RunsAreWhole
      /\ ingestRun \in [Ingest!AnyKey -> {"none", "failed", "completed"}]
      /\ bundleFile \in [Ingest!AnyKey -> IngestBundle \cup Ingest!Replays \cup {Nil}] /\ b.key \in Ingest!AnyKey /\ b # Nil
  BY LocalTypeFacts, LocalBundleFacts DEF Ingest!IngestInv
<1>2. UNCHANGED <<pointValue, assetParent, relationRow>>
  BY DEF Ingest!Ingest, Ingest!facts
<1>3. /\ ingestRun' = IF Ingest!Outcome(b) = "conflict" THEN ingestRun ELSE [ingestRun EXCEPT ![b.key] = Ingest!Outcome(b)]
      /\ bundleFile' = IF Ingest!Outcome(b) = "conflict" THEN bundleFile ELSE [bundleFile EXCEPT ![b.key] = b]
  BY DEF Ingest!Ingest
<1>4. /\ ingestRun' \in [Ingest!AnyKey -> {"none", "failed", "completed"}]
      /\ bundleFile' \in [Ingest!AnyKey -> IngestBundle \cup Ingest!Replays \cup {Nil}]
  BY <1>1, <1>3, LocalOutcomeFacts
<1>5. /\ \A k \in Ingest!AnyKey : k # b.key => ingestRun'[k] = ingestRun[k] /\ bundleFile'[k] = bundleFile[k]
      /\ Ingest!Outcome(b) = "conflict" => ingestRun'[b.key] = ingestRun[b.key] /\ bundleFile'[b.key] = bundleFile[b.key]
      /\ Ingest!Outcome(b) # "conflict" => ingestRun'[b.key] = Ingest!Outcome(b) /\ bundleFile'[b.key] = b
  BY <1>1, <1>3
<1>6. ingestRun[b.key] = "completed" => bundleFile[b.key] # Nil
  BY <1>1 DEF Ingest!RunsAreWhole
<1>7. /\ ingestRun[b.key] = "completed" => ingestRun'[b.key] = "completed" /\ bundleFile'[b.key] = bundleFile[b.key]
      /\ ingestRun'[b.key] = "completed" => ingestRun[b.key] = "completed"
  BY <1>5, <1>6, LocalOutcomeFacts
<1>8. \A k \in Ingest!AnyKey : /\ ingestRun[k] = "completed" => ingestRun'[k] = "completed" /\ bundleFile'[k] = bundleFile[k]
                               /\ ingestRun'[k] = "completed" => ingestRun[k] = "completed" /\ bundleFile'[k] = bundleFile[k]
  BY <1>5, <1>7
<1>9. Ingest!HierarchyIsForest'
  BY <1>1, <1>2 DEF Ingest!HierarchyIsForest
<1>10. Ingest!RunsAreWhole'
  <2>1. \A k \in Ingest!AnyKey : ingestRun'[k] # "none" => bundleFile'[k] # Nil
    BY <1>1, <1>5 DEF Ingest!RunsAreWhole
  <2>2. \A k \in Ingest!AnyKey : ingestRun'[k] = "completed" => \A a \in DOMAIN bundleFile'[k].parent : assetParent'[a] # Missing
    BY <1>1, <1>2, <1>8 DEF Ingest!RunsAreWhole
  <2> QED BY <2>1, <2>2 DEF Ingest!RunsAreWhole
<1>11. LocalPresence' = LocalPresence \cup Ingest!Indexed(b)
  <2>1. LocalPresence' = LocalPresence
    BY <1>2 DEF LocalPresence
  <2>2. CASE Ingest!Outcome(b) = "completed"
    <3>1. bundleFile[b.key] = b
      BY <1>6, <2>2, LocalOutcomeFacts
    <3>2. \A a \in DOMAIN b.parent : a \in IngestAsset /\ assetParent[a] # Missing
      BY <1>1, <2>2, <3>1, LocalBundleFacts DEF Ingest!RunsAreWhole
    <3> QED BY <2>1, <2>2, <3>2 DEF LocalPresence, Ingest!Indexed
  <2>3. CASE Ingest!Outcome(b) # "completed"
    BY <2>1, <2>3 DEF Ingest!Indexed
  <2> QED BY <2>2, <2>3
<1>12. Ingest!KeepsDecisions
  BY <1>2 DEF Ingest!KeepsDecisions
<1>13. UNCHANGED Ingest!Ledger!vars
  <2>1. [k \in Ingest!AnyKey |-> IF ingestRun'[k] = "completed" THEN bundleFile'[k] ELSE Nil]
        = [k \in Ingest!AnyKey |-> IF ingestRun[k] = "completed" THEN bundleFile[k] ELSE Nil]
    BY <1>8
  <2> QED BY <1>2, <2>1 DEF Ingest!Ledger!vars
<1> QED BY <1>1, <1>2, <1>4, <1>5, <1>8, <1>9, <1>10, <1>11, <1>12, <1>13, LocalTypeFacts DEF
           LocalIngested

LEMMA LocalUpsertedFacts ==
    ASSUME Ingest!TypeOK, NEW b \in IngestBundle \cup Ingest!Replays
    PROVE  /\ Ingest!Upserted(b) \in [IngestAsset -> IngestAsset \cup {TreeRoot, Missing}]
           /\ \A a \in IngestAsset : Ingest!Upserted(b)[a] # Missing <=> assetParent[a] # Missing \/ a \in DOMAIN b.parent
<1>1. assetParent \in [IngestAsset -> IngestAsset \cup {TreeRoot, Missing}] /\ Missing \notin IngestAsset \cup {TreeRoot}
  BY LocalTypeFacts, DataPlaneAssumptions DEF Ingest!LocalIngestAssumption
<1> QED BY <1>1, LocalBundleFacts DEF Ingest!Upserted

(* It enters the bundle, all of it.                                        *)
LEMMA LocalEnteredFacts ==
    ASSUME Ingest!IngestInv, NEW b \in IngestBundle \cup Ingest!Replays, Ingest!Ingest(b),
           Ingest!Outcome(b) = "completed", ingestRun[b.key] # "completed"
    PROVE  LocalIngested(b)
<1>1. /\ Ingest!TypeOK /\ Ingest!RunsAreWhole
      /\ ingestRun \in [Ingest!AnyKey -> {"none", "failed", "completed"}]
      /\ bundleFile \in [Ingest!AnyKey -> IngestBundle \cup Ingest!Replays \cup {Nil}] /\ b.key \in Ingest!AnyKey /\ b # Nil
      /\ pointValue \in [IngestPoint -> {Nil} \cup LocalStated]
      /\ assetParent \in [IngestAsset -> IngestAsset \cup {TreeRoot, Missing}]
      /\ relationRow \in [IngestRelation -> {Missing} \cup LocalDecision]
  BY LocalTypeFacts, LocalBundleFacts DEF Ingest!IngestInv
<1>2. PICK tree : tree = Ingest!Upserted(b)
  OBVIOUS
<1>3. /\ ingestRun' = [ingestRun EXCEPT ![b.key] = "completed"] /\ bundleFile' = [bundleFile EXCEPT ![b.key] = b]
      /\ assetParent' = tree
      /\ pointValue' = [p \in IngestPoint |-> IF p \in DOMAIN b.value THEN b.value[p] ELSE pointValue[p]]
      /\ relationRow' = [r \in IngestRelation |-> IF r \in DOMAIN b.rel THEN b.rel[r] ELSE relationRow[r]]
  BY <1>2 DEF Ingest!Ingest
<1>4. ~ Ingest!AssetsRefused(b) /\ ~ Ingest!PointConflict(b) /\ ~ Ingest!RelationConflict(b)
  BY LocalOutcomeFacts
<1>5. /\ ingestRun' \in [Ingest!AnyKey -> {"none", "failed", "completed"}]
      /\ bundleFile' \in [Ingest!AnyKey -> IngestBundle \cup Ingest!Replays \cup {Nil}]
      /\ assetParent' \in [IngestAsset -> IngestAsset \cup {TreeRoot, Missing}]
      /\ \A a \in IngestAsset : assetParent'[a] # Missing <=> assetParent[a] # Missing \/ a \in DOMAIN b.parent
  BY <1>1, <1>2, <1>3, LocalUpsertedFacts
<1>6. pointValue' \in [IngestPoint -> {Nil} \cup LocalStated] /\ relationRow' \in [IngestRelation -> {Missing} \cup LocalDecision]
  BY <1>1, <1>3, LocalBundleFacts
<1>7. /\ ingestRun'[b.key] = "completed" /\ bundleFile'[b.key] = b
      /\ \A k \in Ingest!AnyKey : k # b.key => ingestRun'[k] = ingestRun[k] /\ bundleFile'[k] = bundleFile[k]
  BY <1>1, <1>3
<1>8. Ingest!HierarchyIsForest'
  <2>1. \A a \in IngestAsset : ~ Ingest!OwnAncestor(tree, a)
    BY <1>2, <1>4 DEF Ingest!AssetsRefused, Ingest!Cyclic
  <2> QED BY <1>3, <2>1 DEF Ingest!HierarchyIsForest
<1>9. Ingest!RunsAreWhole'
  <2>1. \A k \in Ingest!AnyKey : ingestRun'[k] # "none" => bundleFile'[k] # Nil
    BY <1>1, <1>7 DEF Ingest!RunsAreWhole
  <2>2. ASSUME NEW k \in Ingest!AnyKey, ingestRun'[k] = "completed", NEW a \in DOMAIN bundleFile'[k].parent
        PROVE  assetParent'[a] # Missing
    <3>1. CASE k = b.key
      BY <1>5, <1>7, <2>2, <3>1, LocalBundleFacts
    <3>2. CASE k # b.key
      <4>1. bundleFile[k] \in IngestBundle \cup Ingest!Replays /\ assetParent[a] # Missing /\ bundleFile'[k] = bundleFile[k]
        BY <1>1, <1>7, <2>2, <3>2 DEF Ingest!RunsAreWhole
      <4>2. a \in IngestAsset
        BY <2>2, <4>1, LocalBundleFacts
      <4> QED BY <1>5, <4>1, <4>2
    <3> QED BY <3>1, <3>2
  <2> QED BY <2>1, <2>2 DEF Ingest!RunsAreWhole
<1>10. LocalPresence' = LocalPresence \cup Ingest!Indexed(b)
  BY <1>5, LocalBundleFacts DEF LocalPresence, Ingest!Indexed
<1>11. Ingest!KeepsDecisions
  <2> SUFFICES ASSUME NEW r \in IngestRelation, relationRow[r] # Missing, relationRow[r].status # "proposed"
               PROVE  relationRow'[r] = relationRow[r]
    BY DEF Ingest!KeepsDecisions
  <2>1. r \notin DOMAIN b.rel
    BY <1>4 DEF Ingest!RelationConflict
  <2> QED BY <1>3, <2>1
<1>12. Ingest!Ledger!Enter(b)
  <2>1. [k \in Ingest!AnyKey |-> IF ingestRun'[k] = "completed" THEN bundleFile'[k] ELSE Nil]
        = [[k \in Ingest!AnyKey |-> IF ingestRun[k] = "completed" THEN bundleFile[k] ELSE Nil] EXCEPT ![b.key] = b]
    BY <1>1, <1>7
  <2>2. \A p \in DOMAIN b.value : pointValue[p] \in {Nil, b.value[p]}
    BY <1>4 DEF Ingest!PointConflict
  <2>3. assetParent' = [a \in IngestAsset |-> IF a \in DOMAIN b.parent THEN b.parent[a] ELSE assetParent[a]]
    BY <1>2, <1>3 DEF Ingest!Upserted
  <2>4. [k \in Ingest!AnyKey |-> IF ingestRun[k] = "completed" THEN bundleFile[k] ELSE Nil][b.key] = Nil
    BY <1>1
  <2> QED BY <1>3, <2>1, <2>2, <2>3, <2>4 DEF Ingest!Ledger!Enter
<1>13. Ingest!Ledger!Next
  BY <1>12 DEF Ingest!Ledger!Next
<1>14. \A k \in Ingest!AnyKey : ingestRun[k] = "completed" => ingestRun'[k] = "completed" /\ bundleFile'[k] = bundleFile[k]
  BY <1>7
<1> QED BY <1>5, <1>6, <1>7, <1>8, <1>9, <1>10, <1>11, <1>13, <1>14 DEF LocalIngested

LEMMA LocalIngestFacts ==
    ASSUME Ingest!IngestInv, NEW b \in IngestBundle \cup Ingest!Replays, Ingest!Ingest(b)
    PROVE  LocalIngested(b)
  BY LocalRefusedFacts, LocalEnteredFacts

-----------------------------------------------------------------------------
(* What a step keeps of the plant, of the archive and of the requests.     *)
LocalPlantKept ==
    /\ ingestRun' \in [Ingest!AnyKey -> {"none", "failed", "completed"}]
    /\ bundleFile' \in [Ingest!AnyKey -> IngestBundle \cup Ingest!Replays \cup {Nil}]
    /\ pointValue' \in [IngestPoint -> {Nil} \cup LocalStated]
    /\ assetParent' \in [IngestAsset -> IngestAsset \cup {TreeRoot, Missing}]
    /\ relationRow' \in [IngestRelation -> {Missing} \cup LocalDecision]
    /\ Ingest!HierarchyIsForest' /\ Ingest!RunsAreWhole'
    /\ \A k \in Ingest!AnyKey : ingestRun[k] = "completed" => ingestRun'[k] = "completed" /\ bundleFile'[k] = bundleFile[k]

LocalArchiveKept ==
    /\ ingestFile' \in [IngestBundle -> {"none", "torn", "whole"}]
    /\ ingestRow' \in [IngestKey -> IngestBundle \cup {Nil}]
    /\ ingestState' \in [IngestKey -> {"none", "received", "accepted", "failed"}]
    /\ replayState' \in [IngestKey -> ReplayKey \cup {Nil}]
    /\ \A b \in IngestBundle : ingestFile[b] = "whole" => ingestFile'[b] = "whole"
    /\ \A k \in IngestKey : ingestRow[k] # Nil => ingestRow'[k] = ingestRow[k]
    /\ \A k \in IngestKey : ingestRow'[k] # Nil => ingestRow'[k] = ingestRow[k] \/ (ingestRow'[k].key = k /\ ingestFile'[ingestRow'[k]] = "whole")
    /\ \A k \in IngestKey : ingestState'[k] = "accepted" =>
          ingestState[k] = "accepted" \/ (ingestRun'[k] = "completed" /\ bundleFile'[k] = ingestRow'[k])
    /\ \A k \in IngestKey : replayState'[k] # Nil =>
          \/ replayState'[k] = replayState[k]
          \/ /\ ingestRow'[k] # Nil /\ ingestRun'[replayState'[k]] = "completed"
             /\ bundleFile'[replayState'[k]] = Ingest!Replay(ingestRow'[k], replayState'[k])

LocalWaits == {"idle", "open", "write", "compare", "land", "reread"}

LocalRequestsKept ==
    /\ ingestPhase' \in [IngestClient -> LocalWaits]
    /\ ingestJob' \in [IngestClient -> IngestBundle \cup {Nil}]
    /\ \A c \in IngestClient : /\ ingestPhase'[c] # "idle" => ingestJob'[c] \in IngestBundle
                               /\ ingestPhase'[c] = "land" => ingestFile'[ingestJob'[c]] = "whole"
                               /\ ingestPhase'[c] = "reread" => ingestRow'[ingestJob'[c].key] = ingestJob'[c]
    /\ bundleSends' \in 0 .. MaxBundleSends
    /\ ingestFaults' \in 0 .. MaxIngestFaults

LEMMA LocalInvFacts ==
    ASSUME Ingest!IngestInv
    PROVE  /\ Ingest!TypeOK /\ Ingest!HierarchyIsForest /\ Ingest!RunsAreWhole
           /\ ingestPhase \in [IngestClient -> LocalWaits] /\ ingestJob \in [IngestClient -> IngestBundle \cup {Nil}]
           /\ ingestFile \in [IngestBundle -> {"none", "torn", "whole"}]
           /\ ingestRow \in [IngestKey -> IngestBundle \cup {Nil}]
           /\ ingestState \in [IngestKey -> {"none", "received", "accepted", "failed"}]
           /\ replayState \in [IngestKey -> ReplayKey \cup {Nil}]
           /\ bundleSends \in 0 .. MaxBundleSends /\ ingestFaults \in 0 .. MaxIngestFaults
           /\ \A c \in IngestClient : /\ ingestPhase[c] # "idle" => ingestJob[c] \in IngestBundle /\ ingestJob[c].key \in IngestKey /\ ingestJob[c] # Nil
                                      /\ ingestPhase[c] = "land" => ingestFile[ingestJob[c]] = "whole"
                                      /\ ingestPhase[c] = "reread" => ingestRow[ingestJob[c].key] = ingestJob[c]
           /\ ingestIndexed = LocalPresence
           /\ IngestKey \subseteq Ingest!AnyKey /\ ReplayKey \subseteq Ingest!AnyKey
<1>1. Ingest!TypeOK /\ Ingest!HierarchyIsForest /\ Ingest!RunsAreWhole /\ Ingest!RowsAreWhole
  BY DEF Ingest!IngestInv
<1>2. \A b \in IngestBundle : b.key \in IngestKey /\ b # Nil
  BY LocalSentFacts, DataPlaneAssumptions DEF Ingest!LocalIngestAssumption
<1> QED BY <1>1, <1>2 DEF Ingest!TypeOK, Ingest!RowsAreWhole, LocalWaits, LocalPresence,
           Ingest!AnyKey

LEMMA LocalKeptInv ==
    ASSUME Ingest!IngestInv, LocalPlantKept, LocalArchiveKept, LocalRequestsKept,
           ingestIndexed' = LocalPresence'
    PROVE  Ingest!IngestInv'
<1>1. Ingest!TypeOK'
  <2>1. ingestIndexed' \subseteq IngestAsset
    BY DEF LocalPresence
  <2> QED BY <2>1 DEF Ingest!TypeOK, LocalPlantKept, LocalArchiveKept, LocalRequestsKept,
             LocalWaits, LocalStated, LocalDecision
<1>2. Ingest!RowsAreWhole'
  <2>1. \A k \in IngestKey : ingestRow'[k] # Nil => ingestRow'[k].key = k /\ ingestFile'[ingestRow'[k]] = "whole"
    <3> SUFFICES ASSUME NEW k \in IngestKey, ingestRow'[k] # Nil, ingestRow'[k] = ingestRow[k]
                 PROVE  ingestRow'[k].key = k /\ ingestFile'[ingestRow'[k]] = "whole"
      BY DEF LocalArchiveKept
    <3>1. ingestRow[k] \in IngestBundle /\ ingestRow[k].key = k /\ ingestFile[ingestRow[k]] = "whole"
      BY LocalInvFacts DEF Ingest!IngestInv, Ingest!RowsAreWhole
    <3> QED BY <3>1 DEF LocalArchiveKept
  <2>2. \A k \in IngestKey : replayState'[k] # Nil => ingestRow'[k] # Nil
    BY DEF LocalArchiveKept, Ingest!IngestInv, Ingest!RowsAreWhole
  <2> QED BY <2>1, <2>2 DEF LocalRequestsKept, Ingest!RowsAreWhole, LocalPresence
<1>3. ASSUME NEW k \in IngestKey, ingestState'[k] = "accepted"
      PROVE  ingestRun'[k] = "completed" /\ bundleFile'[k] = ingestRow'[k]
  <2>1. CASE ingestState[k] = "accepted"
    <3>1. ingestRun[k] = "completed" /\ bundleFile[k] = ingestRow[k] /\ k \in Ingest!AnyKey
      BY <2>1, LocalInvFacts DEF Ingest!IngestInv, Ingest!AcceptedIsBacked
    <3>2. ingestRow[k] # Nil
      BY <3>1 DEF Ingest!IngestInv, Ingest!RunsAreWhole
    <3> QED BY <3>1, <3>2 DEF LocalPlantKept, LocalArchiveKept
  <2>2. CASE ingestState[k] # "accepted"
    BY <1>3, <2>2 DEF LocalArchiveKept
  <2> QED BY <2>1, <2>2
<1>4. ASSUME NEW k \in IngestKey, replayState'[k] # Nil
      PROVE  ingestRun'[replayState'[k]] = "completed" /\ bundleFile'[replayState'[k]] = Ingest!Replay(ingestRow'[k], replayState'[k])
  <2>1. CASE replayState'[k] = replayState[k]
    <3>1. PICK r \in ReplayKey : r = replayState[k]
      BY <1>4, <2>1, LocalInvFacts
    <3>2. /\ ingestRun[r] = "completed" /\ bundleFile[r] = Ingest!Replay(ingestRow[k], r) /\ ingestRow[k] # Nil /\ r \in Ingest!AnyKey
      BY <1>4, <2>1, <3>1, LocalInvFacts DEF Ingest!IngestInv, Ingest!AcceptedIsBacked,
         Ingest!RowsAreWhole
    <3>3. ingestRow'[k] = ingestRow[k] /\ ingestRun'[r] = "completed" /\ bundleFile'[r] = bundleFile[r]
      BY <3>2 DEF LocalPlantKept, LocalArchiveKept
    <3> QED BY <2>1, <3>1, <3>2, <3>3
  <2>2. CASE replayState'[k] # replayState[k]
    BY <1>4, <2>2 DEF LocalArchiveKept
  <2> QED BY <2>1, <2>2
<1>5. Ingest!AcceptedIsBacked'
  BY <1>2, <1>3, <1>4 DEF Ingest!AcceptedIsBacked, Ingest!RowsAreWhole
<1> QED BY <1>1, <1>2, <1>5 DEF Ingest!IngestInv, LocalPlantKept

(* The plant rests, or takes a bundle; the archive rests.                  *)
LEMMA LocalPlantRests ==
    ASSUME Ingest!IngestInv, UNCHANGED <<ingestRun, bundleFile, Ingest!facts>>
    PROVE  LocalPlantKept /\ LocalPresence' = LocalPresence
<1>1. UNCHANGED <<pointValue, assetParent, relationRow>>
  BY DEF Ingest!facts
<1>2. Ingest!HierarchyIsForest' /\ Ingest!RunsAreWhole' /\ LocalPresence' = LocalPresence
  BY <1>1, LocalInvFacts DEF Ingest!HierarchyIsForest, Ingest!RunsAreWhole, LocalPresence
<1> QED BY <1>1, <1>2, LocalInvFacts, LocalTypeFacts DEF LocalPlantKept

LEMMA LocalPlantIngests == ASSUME NEW b, LocalIngested(b) PROVE LocalPlantKept
  BY DEF LocalIngested, LocalPlantKept

LEMMA LocalArchiveRests == ASSUME Ingest!IngestInv, UNCHANGED <<ingestFile, ingestRow, ingestState, replayState>> PROVE LocalArchiveKept
  BY LocalInvFacts DEF LocalArchiveKept

(* Requests end, go on, or die with the process.                           *)
LEMMA LocalRequestEnds ==
    ASSUME Ingest!IngestInv, LocalArchiveKept, NEW c \in IngestClient, Ingest!End(c),
           bundleSends' \in 0 .. MaxBundleSends, ingestFaults' \in 0 .. MaxIngestFaults
    PROVE  LocalRequestsKept
<1>1. /\ ingestPhase' = [ingestPhase EXCEPT ![c] = "idle"] /\ ingestJob' = [ingestJob EXCEPT ![c] = Nil]
  BY DEF Ingest!End, Ingest!Goto
<1>2. /\ ingestPhase' \in [IngestClient -> LocalWaits] /\ ingestJob' \in [IngestClient -> IngestBundle \cup {Nil}]
      /\ ingestPhase'[c] = "idle"
      /\ \A d \in IngestClient : d # c => ingestPhase'[d] = ingestPhase[d] /\ ingestJob'[d] = ingestJob[d]
  BY <1>1, LocalInvFacts DEF LocalWaits
<1>3. \A d \in IngestClient : /\ ingestPhase[d] = "land" => ingestFile'[ingestJob[d]] = "whole"
                              /\ ingestPhase[d] = "reread" => ingestRow'[ingestJob[d].key] = ingestJob[d]
  BY LocalInvFacts DEF LocalArchiveKept
<1> QED BY <1>2, <1>3, LocalInvFacts DEF LocalRequestsKept

LEMMA LocalRequestGoes ==
    ASSUME Ingest!IngestInv, LocalArchiveKept, NEW c \in IngestClient, NEW p \in LocalWaits,
           NEW b \in IngestBundle,
           ingestPhase' = [ingestPhase EXCEPT ![c] = p], ingestJob' = [ingestJob EXCEPT ![c] = b],
           p = "land" => ingestFile'[b] = "whole", p = "reread" => ingestRow'[b.key] = b,
           bundleSends' \in 0 .. MaxBundleSends, ingestFaults' \in 0 .. MaxIngestFaults
    PROVE  LocalRequestsKept
<1>1. /\ ingestPhase' \in [IngestClient -> LocalWaits] /\ ingestJob' \in [IngestClient -> IngestBundle \cup {Nil}]
      /\ ingestPhase'[c] = p /\ ingestJob'[c] = b
      /\ \A d \in IngestClient : d # c => ingestPhase'[d] = ingestPhase[d] /\ ingestJob'[d] = ingestJob[d]
  BY LocalInvFacts
<1>2. \A d \in IngestClient : /\ ingestPhase[d] = "land" => ingestFile'[ingestJob[d]] = "whole"
                              /\ ingestPhase[d] = "reread" => ingestRow'[ingestJob[d].key] = ingestJob[d]
  BY LocalInvFacts DEF LocalArchiveKept
<1> QED BY <1>1, <1>2, LocalInvFacts DEF LocalRequestsKept

LEMMA LocalCountFacts ==
    ASSUME Ingest!IngestInv
    PROVE  Ingest!Spend \/ Ingest!Fault \/ UNCHANGED Ingest!bounds => bundleSends' \in 0 .. MaxBundleSends /\ ingestFaults' \in 0 .. MaxIngestFaults
  BY LocalInvFacts, DataPlaneAssumptions DEF Ingest!Spend, Ingest!Fault, Ingest!bounds,
     Ingest!LocalIngestAssumption

LEMMA LocalKillInv == ASSUME Ingest!IngestInv, LocalPlantKept, LocalArchiveKept, Ingest!Kill PROVE Ingest!IngestInv'
<1>1. LocalRequestsKept
  BY LocalCountFacts DEF Ingest!Kill, LocalRequestsKept, LocalWaits
<1>2. ingestIndexed' = LocalPresence'
  BY DEF Ingest!Kill, Ingest!Rebuild, LocalPresence
<1> QED BY <1>1, <1>2, LocalKeptInv

(* Requests before and between their commits.                              *)
LEMMA LocalQuietSteps ==
    ASSUME Ingest!IngestInv, NEW c \in IngestClient,
           \/ Ingest!Send(c) \/ Ingest!Open(c) \/ Ingest!OpenExists(c) \/ Ingest!Write(c) \/ Ingest!WriteFails(c) \/ Ingest!Compare(c) \/ Ingest!AskReplay(c)
    PROVE  Ingest!IngestInv'
<1>1. UNCHANGED <<ingestRow, ingestState, replayState, ingestRun, bundleFile, Ingest!facts, ingestIndexed>>
  BY DEF Ingest!Send, Ingest!Open, Ingest!OpenExists, Ingest!Write, Ingest!WriteFails,
     Ingest!Compare, Ingest!AskReplay, Ingest!archive, Ingest!plant
<1>2. LocalPlantKept /\ ingestIndexed' = LocalPresence'
  BY <1>1, LocalPlantRests, LocalInvFacts
<1>3. bundleSends' \in 0 .. MaxBundleSends /\ ingestFaults' \in 0 .. MaxIngestFaults
  BY LocalCountFacts DEF Ingest!Send, Ingest!Open, Ingest!OpenExists, Ingest!Write,
     Ingest!WriteFails, Ingest!Compare, Ingest!AskReplay
<1>4. ingestJob = [ingestJob EXCEPT ![c] = ingestJob[c]]
  BY LocalInvFacts
<1>5. LocalArchiveKept
  <2>1. /\ ingestFile' \in [IngestBundle -> {"none", "torn", "whole"}]
        /\ \A b \in IngestBundle : ingestFile[b] = "whole" => ingestFile'[b] = "whole"
    <3>1. CASE Ingest!Open(c)
      <4>1. ingestFile' = [ingestFile EXCEPT ![ingestJob[c]] = "torn"] /\ ingestFile[ingestJob[c]] = "none"
        BY <3>1 DEF Ingest!Open
      <4> QED BY <4>1, LocalInvFacts
    <3>2. CASE Ingest!Write(c)
      <4>1. ingestFile' = [ingestFile EXCEPT ![ingestJob[c]] = "whole"]
        BY <3>2 DEF Ingest!Write
      <4> QED BY <4>1, LocalInvFacts
    <3>3. CASE Ingest!Send(c) \/ Ingest!OpenExists(c) \/ Ingest!WriteFails(c) \/ Ingest!Compare(c) \/ Ingest!AskReplay(c)
      <4>1. ingestFile' = ingestFile
        BY <3>3 DEF Ingest!Send, Ingest!OpenExists, Ingest!WriteFails, Ingest!Compare,
           Ingest!AskReplay, Ingest!archive
      <4> QED BY <4>1, LocalInvFacts
    <3> QED BY <3>1, <3>2, <3>3
  <2> QED BY <1>1, <2>1, LocalInvFacts DEF LocalArchiveKept
<1>6. CASE Ingest!Send(c)
  <2>1. PICK b \in IngestBundle : ingestPhase' = [ingestPhase EXCEPT ![c] = "open"] /\ ingestJob' = [ingestJob EXCEPT ![c] = b]
    BY <1>6 DEF Ingest!Send, Ingest!Goto
  <2>2. LocalRequestsKept
    BY <1>3, <1>5, <2>1, LocalRequestGoes DEF LocalWaits
  <2> QED BY <1>2, <1>5, <2>2, LocalKeptInv
<1>7. CASE Ingest!AskReplay(c)
  <2>1. PICK k \in IngestKey : ingestRow[k] # Nil /\ ingestJob' = [ingestJob EXCEPT ![c] = ingestRow[k]]
    BY <1>7 DEF Ingest!AskReplay
  <2>2. PICK b \in IngestBundle : b = ingestRow[k] /\ b.key = k
    BY <2>1, LocalInvFacts DEF Ingest!IngestInv, Ingest!RowsAreWhole
  <2>3. ingestPhase' = [ingestPhase EXCEPT ![c] = "reread"] /\ ingestJob' = [ingestJob EXCEPT ![c] = b] /\ ingestRow'[b.key] = b
    BY <1>1, <1>7, <2>1, <2>2 DEF Ingest!AskReplay, Ingest!Goto
  <2>4. LocalRequestsKept
    BY <1>3, <1>5, <2>3, LocalRequestGoes DEF LocalWaits
  <2> QED BY <1>2, <1>5, <2>4, LocalKeptInv
<1>8. CASE Ingest!End(c)
  BY <1>2, <1>3, <1>5, <1>8, LocalRequestEnds, LocalKeptInv
<1>9. ASSUME ~ Ingest!Send(c), ~ Ingest!AskReplay(c), ~ Ingest!End(c) PROVE Ingest!IngestInv'
  <2>1. PICK p \in {"write", "compare", "land"} :
            /\ Ingest!Goto(c, p) /\ ingestJob' = ingestJob /\ ingestPhase[c] # "idle"
            /\ p = "land" => ingestFile'[ingestJob[c]] = "whole"
    <3>1. CASE Ingest!Open(c)
      BY <3>1 DEF Ingest!Open
    <3>2. CASE Ingest!OpenExists(c)
      BY <3>2 DEF Ingest!OpenExists
    <3>3. CASE Ingest!Write(c)
      BY <3>3, LocalInvFacts DEF Ingest!Write
    <3>4. CASE Ingest!Compare(c)
      BY <1>9, <3>4 DEF Ingest!Compare, Ingest!archive
    <3> QED BY <1>9, <3>1, <3>2, <3>3, <3>4 DEF Ingest!WriteFails
  <2>2. PICK b \in IngestBundle : b = ingestJob[c]
    BY <2>1, LocalInvFacts
  <2>3. ingestPhase' = [ingestPhase EXCEPT ![c] = p] /\ ingestJob' = [ingestJob EXCEPT ![c] = b]
    BY <1>4, <2>1, <2>2 DEF Ingest!Goto
  <2>4. p \in LocalWaits /\ (p = "land" => ingestFile'[b] = "whole") /\ (p = "reread" => ingestRow'[b.key] = b)
    BY <2>1, <2>2 DEF LocalWaits
  <2>5. LocalRequestsKept
    BY <1>3, <1>5, <2>3, <2>4, LocalRequestGoes
  <2> QED BY <1>2, <1>5, <2>5, LocalKeptInv
<1> QED BY <1>6, <1>7, <1>8, <1>9

(* Requests stay as they are.                                              *)
LEMMA LocalRequestsRest ==
    ASSUME Ingest!IngestInv, LocalArchiveKept, UNCHANGED <<ingestPhase, ingestJob>>,
           bundleSends' \in 0 .. MaxBundleSends, ingestFaults' \in 0 .. MaxIngestFaults
    PROVE  LocalRequestsKept
<1>1. \A d \in IngestClient : /\ ingestPhase[d] = "land" => ingestFile'[ingestJob[d]] = "whole"
                              /\ ingestPhase[d] = "reread" => ingestRow'[ingestJob[d].key] = ingestJob[d]
  BY LocalInvFacts DEF LocalArchiveKept
<1> QED BY <1>1, LocalInvFacts DEF LocalRequestsKept

(* The row takes the bundle, or has it, and says how its ingest ended.     *)
LEMMA LocalRowLands ==
    ASSUME Ingest!IngestInv, NEW b \in IngestBundle, ingestRow[b.key] \in {Nil, b},
           ingestFile[b] = "whole",
           ingestRow' = [ingestRow EXCEPT ![b.key] = b], UNCHANGED <<ingestFile, replayState>>,
           NEW s \in {"received", "accepted", "failed"}, ingestState' = [ingestState EXCEPT ![b.key] = s],
           \/ s = "accepted" => ingestRun'[b.key] = "completed" /\ bundleFile'[b.key] = b
           \/ s = ingestState[b.key]
    PROVE  LocalArchiveKept
<1>1. b.key \in IngestKey /\ b # Nil
  BY LocalSentFacts, DataPlaneAssumptions DEF Ingest!LocalIngestAssumption
<1>2. /\ ingestRow' \in [IngestKey -> IngestBundle \cup {Nil}] /\ ingestRow'[b.key] = b
      /\ \A k \in IngestKey : k # b.key => ingestRow'[k] = ingestRow[k]
      /\ ingestState' \in [IngestKey -> {"none", "received", "accepted", "failed"}] /\ ingestState'[b.key] = s
      /\ \A k \in IngestKey : k # b.key => ingestState'[k] = ingestState[k]
  BY <1>1, LocalInvFacts
<1>3. \A k \in IngestKey : ingestRow'[k] # Nil => ingestRow'[k] = ingestRow[k] \/ (ingestRow'[k].key = k /\ ingestFile'[ingestRow'[k]] = "whole")
  BY <1>2
<1>4. \A k \in IngestKey : ingestState'[k] = "accepted" =>
          ingestState[k] = "accepted" \/ (ingestRun'[k] = "completed" /\ bundleFile'[k] = ingestRow'[k])
  BY <1>2
<1> QED BY <1>1, <1>2, <1>3, <1>4, LocalInvFacts DEF LocalArchiveKept

(* A bundle archived before is applied again, or found applied.            *)
LEMMA LocalSendAgainInv == ASSUME Ingest!IngestInv, Ingest!SendAgain PROVE Ingest!IngestInv'
<1>1. PICK b \in IngestBundle : ingestRow[b.key] = b /\ Ingest!Ingest(b) /\ ingestIndexed' = ingestIndexed \cup Ingest!Indexed(b) /\ Ingest!Complete(b)
  BY DEF Ingest!SendAgain
<1>2. LocalIngested(b)
  BY <1>1, LocalIngestFacts
<1>3. LocalPlantKept /\ ingestIndexed' = LocalPresence'
  BY <1>1, <1>2, LocalPlantIngests, LocalInvFacts DEF LocalIngested
<1>4. UNCHANGED <<ingestPhase, ingestJob, ingestFile, ingestRow, replayState>>
  BY DEF Ingest!SendAgain, Ingest!request
<1>5. b.key \in IngestKey /\ b # Nil
  BY LocalSentFacts, DataPlaneAssumptions DEF Ingest!LocalIngestAssumption
<1>6. PICK s \in {"received", "accepted", "failed"} :
          /\ ingestState' = [ingestState EXCEPT ![b.key] = s]
          /\ s = "accepted" => ingestRun'[b.key] = "completed" /\ bundleFile'[b.key] = b
  BY <1>1, <1>2 DEF Ingest!Complete, LocalIngested
<1>7. ingestRow' = [ingestRow EXCEPT ![b.key] = b] /\ ingestFile[b] = "whole"
  BY <1>1, <1>4, <1>5, LocalInvFacts DEF Ingest!IngestInv, Ingest!RowsAreWhole
<1>8. LocalArchiveKept
  BY <1>1, <1>4, <1>6, <1>7, LocalRowLands
<1>9. bundleSends' \in 0 .. MaxBundleSends /\ ingestFaults' \in 0 .. MaxIngestFaults
  BY LocalCountFacts DEF Ingest!SendAgain
<1>10. LocalRequestsKept
  BY <1>4, <1>8, <1>9, LocalRequestsRest
<1> QED BY <1>3, <1>8, <1>10, LocalKeptInv

(* The landing row, the ingest, the index and the completion.              *)
LEMMA LocalLandInv == ASSUME Ingest!IngestInv, NEW c \in IngestClient, Ingest!Land(c) PROVE Ingest!IngestInv'
<1>1. PICK b \in IngestBundle : b = ingestJob[c] /\ ingestFile[b] = "whole"
  BY LocalInvFacts DEF Ingest!Land
<1>2. Ingest!End(c) /\ UNCHANGED <<ingestFile, replayState>>
  BY DEF Ingest!Land
<1>3. bundleSends' \in 0 .. MaxBundleSends /\ ingestFaults' \in 0 .. MaxIngestFaults
  BY LocalCountFacts DEF Ingest!Land
<1>4. CASE Ingest!Landed(b)
  <2>1. /\ ingestRow' = [ingestRow EXCEPT ![b.key] = b] /\ Ingest!Ingest(b)
        /\ ingestIndexed' = ingestIndexed \cup Ingest!Indexed(b) /\ Ingest!Complete(b)
    BY <1>1, <1>4 DEF Ingest!Land
  <2>2. LocalIngested(b)
    BY <2>1, LocalIngestFacts
  <2>3. LocalPlantKept /\ ingestIndexed' = LocalPresence'
    BY <2>1, <2>2, LocalPlantIngests, LocalInvFacts DEF LocalIngested
  <2>4. PICK s \in {"received", "accepted", "failed"} :
            /\ ingestState' = [ingestState EXCEPT ![b.key] = s]
            /\ s = "accepted" => ingestRun'[b.key] = "completed" /\ bundleFile'[b.key] = b
    BY <2>1, <2>2 DEF Ingest!Complete, LocalIngested
  <2>5. LocalArchiveKept
    BY <1>1, <1>2, <1>4, <2>1, <2>4, LocalRowLands DEF Ingest!Landed
  <2>6. LocalRequestsKept
    BY <1>2, <1>3, <2>5, LocalRequestEnds
  <2> QED BY <2>3, <2>5, <2>6, LocalKeptInv
<1>5. CASE ~ Ingest!Landed(b)
  <2>1. UNCHANGED <<ingestRow, ingestState, ingestRun, bundleFile, Ingest!facts, ingestIndexed>>
    BY <1>1, <1>5 DEF Ingest!Land, Ingest!plant
  <2>2. LocalPlantKept /\ ingestIndexed' = LocalPresence'
    BY <2>1, LocalPlantRests, LocalInvFacts
  <2>3. LocalArchiveKept
    BY <1>2, <2>1, LocalArchiveRests
  <2>4. LocalRequestsKept
    BY <1>2, <1>3, <2>3, LocalRequestEnds
  <2> QED BY <2>2, <2>3, <2>4, LocalKeptInv
<1> QED BY <1>4, <1>5

(* A replay: the archived bundle under a run id of its own.                *)
LEMMA LocalRereadInv == ASSUME Ingest!IngestInv, NEW c \in IngestClient, Ingest!Reread(c) PROVE Ingest!IngestInv'
<1>1. PICK d \in IngestBundle : d = ingestJob[c] /\ ingestRow[d.key] = d /\ d.key \in IngestKey /\ d # Nil
  BY LocalInvFacts DEF Ingest!Reread
<1>2. PICK r \in ReplayKey :
          /\ Ingest!Ingest(Ingest!Replay(d, r)) /\ ingestIndexed' = ingestIndexed \cup Ingest!Indexed(Ingest!Replay(d, r))
          /\ replayState' = IF Ingest!Outcome(Ingest!Replay(d, r)) = "completed" THEN [replayState EXCEPT ![d.key] = r] ELSE replayState
  BY <1>1 DEF Ingest!Reread
<1>3. PICK b \in Ingest!Replays : b = Ingest!Replay(d, r) /\ b.key = r
  BY LocalReplayFacts
<1>4. LocalIngested(b)
  BY <1>2, <1>3, LocalIngestFacts
<1>5. LocalPlantKept /\ ingestIndexed' = LocalPresence'
  BY <1>2, <1>3, <1>4, LocalPlantIngests, LocalInvFacts DEF LocalIngested
<1>6. Ingest!End(c) /\ UNCHANGED <<ingestFile, ingestRow, ingestState>>
  BY DEF Ingest!Reread
<1>7. LocalArchiveKept
  <2>1. replayState' \in [IngestKey -> ReplayKey \cup {Nil}]
    BY <1>1, <1>2, LocalInvFacts
  <2>2. ASSUME NEW k \in IngestKey, replayState'[k] # replayState[k]
        PROVE  /\ ingestRow'[k] # Nil /\ ingestRun'[replayState'[k]] = "completed"
               /\ bundleFile'[replayState'[k]] = Ingest!Replay(ingestRow'[k], replayState'[k])
    <3>1. Ingest!Outcome(b) = "completed" /\ k = d.key /\ replayState'[k] = r
      BY <1>1, <1>2, <1>3, <2>2, LocalInvFacts
    <3>2. ingestRun'[r] = "completed" /\ bundleFile'[r] = b
      BY <1>3, <1>4, <3>1 DEF LocalIngested
    <3>3. ingestRow'[k] = d
      BY <1>1, <1>6, <3>1
    <3> QED BY <1>1, <1>3, <3>1, <3>2, <3>3
  <2> QED BY <1>6, <2>1, <2>2, LocalInvFacts DEF LocalArchiveKept
<1>8. bundleSends' \in 0 .. MaxBundleSends /\ ingestFaults' \in 0 .. MaxIngestFaults
  BY LocalCountFacts DEF Ingest!Reread
<1>9. LocalRequestsKept
  BY <1>6, <1>7, <1>8, LocalRequestEnds
<1> QED BY <1>5, <1>7, <1>9, LocalKeptInv

(* The process dies: while requests wait, after a commit of a landing, and *)
(* after the ingest of a replay.                                           *)
LEMMA LocalKillWaitingInv == ASSUME Ingest!IngestInv, Ingest!KillWaiting PROVE Ingest!IngestInv'
<1>1. UNCHANGED <<ingestFile, ingestRow, ingestState, replayState, ingestRun, bundleFile, Ingest!facts>> /\ Ingest!Kill
  BY DEF Ingest!KillWaiting, Ingest!archive
<1> QED BY <1>1, LocalPlantRests, LocalArchiveRests, LocalKillInv

LEMMA LocalKillReplayingInv == ASSUME Ingest!IngestInv, Ingest!KillReplaying PROVE Ingest!IngestInv'
<1>1. UNCHANGED <<ingestFile, ingestRow, ingestState, replayState>> /\ Ingest!Kill
  BY DEF Ingest!KillReplaying, Ingest!archive
<1>2. PICK c \in IngestClient, r \in ReplayKey : ingestPhase[c] = "reread" /\ Ingest!Ingest(Ingest!Replay(ingestJob[c], r))
  BY DEF Ingest!KillReplaying
<1>3. ingestJob[c] \in IngestBundle
  BY <1>2, LocalInvFacts
<1>4. LocalPlantKept
  BY <1>2, <1>3, LocalReplayFacts, LocalIngestFacts, LocalPlantIngests
<1> QED BY <1>1, <1>4, LocalArchiveRests, LocalKillInv

LEMMA LocalKillLandingInv == ASSUME Ingest!IngestInv, Ingest!KillLanding PROVE Ingest!IngestInv'
<1>1. UNCHANGED <<ingestFile, replayState>> /\ Ingest!Kill
  BY DEF Ingest!KillLanding
<1>2. PICK c \in IngestClient :
          /\ ingestPhase[c] = "land" /\ Ingest!Landed(ingestJob[c])
          /\ ingestRow' = [ingestRow EXCEPT ![ingestJob[c].key] = ingestJob[c]]
          /\ ingestState' = [ingestState EXCEPT ![ingestJob[c].key] =
                           IF ingestRow[ingestJob[c].key] = Nil THEN "received" ELSE ingestState[ingestJob[c].key]]
          /\ Ingest!Ingest(ingestJob[c]) \/ UNCHANGED <<ingestRun, bundleFile, Ingest!facts>>
  BY DEF Ingest!KillLanding
<1>3. PICK b \in IngestBundle : b = ingestJob[c] /\ b.key \in IngestKey /\ ingestFile[b] = "whole"
  BY <1>2, LocalInvFacts
<1>4. LocalPlantKept
  BY <1>2, <1>3, LocalIngestFacts, LocalPlantIngests, LocalPlantRests
<1>5. LocalArchiveKept
  <2>1. ingestRow[b.key] \in {Nil, b} /\ ingestRow' = [ingestRow EXCEPT ![b.key] = b]
    BY <1>2, <1>3 DEF Ingest!Landed
  <2>2. CASE ingestRow[b.key] = Nil
    <3>1. ingestState' = [ingestState EXCEPT ![b.key] = "received"]
      BY <1>2, <1>3, <2>2
    <3> QED BY <1>1, <1>3, <2>1, <3>1, LocalRowLands
  <2>3. CASE ingestRow[b.key] = b /\ b # Nil
    <3>1. ingestState' = ingestState
      BY <1>2, <1>3, <2>3, LocalInvFacts
    <3>2. ingestRow' = ingestRow
      BY <1>3, <2>1, <2>3, LocalInvFacts
    <3> QED BY <1>1, <3>1, <3>2, LocalArchiveRests
  <2> QED BY <2>1, <2>2, <2>3
<1> QED BY <1>1, <1>4, <1>5, LocalKillInv

(* A reviewer decides.                                                     *)
LEMMA LocalReviewFacts ==
    ASSUME Ingest!IngestInv, Ingest!Review
    PROVE  Ingest!KeepsDecisions /\ relationRow' \in [IngestRelation -> {Missing} \cup LocalDecision]
<1>1. PICK r \in IngestRelation, decision \in {"accepted", "rejected"} :
          /\ relationRow[r] # Missing /\ relationRow[r].status = "proposed"
          /\ relationRow' = [relationRow EXCEPT ![r].status = decision]
  BY DEF Ingest!Review
<1>2. relationRow \in [IngestRelation -> {Missing} \cup LocalDecision]
  BY LocalInvFacts, LocalTypeFacts
<1>3. relationRow'[r] \in LocalDecision /\ \A s \in IngestRelation : s # r => relationRow'[s] = relationRow[s]
  BY <1>1, <1>2 DEF LocalDecision
<1>4. relationRow' \in [IngestRelation -> {Missing} \cup LocalDecision]
  BY <1>1, <1>2, <1>3
<1> QED BY <1>1, <1>3, <1>4 DEF Ingest!KeepsDecisions

LEMMA LocalReviewInv == ASSUME Ingest!IngestInv, Ingest!Review PROVE Ingest!IngestInv'
<1>1. UNCHANGED <<ingestPhase, ingestJob, ingestFile, ingestRow, ingestState, replayState, ingestRun, bundleFile, pointValue, assetParent, ingestIndexed>>
  BY DEF Ingest!Review, Ingest!request, Ingest!archive
<1>2. Ingest!HierarchyIsForest' /\ Ingest!RunsAreWhole' /\ LocalPresence' = LocalPresence
  BY <1>1, LocalInvFacts DEF Ingest!HierarchyIsForest, Ingest!RunsAreWhole, LocalPresence
<1>3. LocalPlantKept
  BY <1>1, <1>2, LocalInvFacts, LocalTypeFacts, LocalReviewFacts DEF LocalPlantKept
<1>4. LocalArchiveKept
  BY <1>1, LocalArchiveRests
<1>5. bundleSends' \in 0 .. MaxBundleSends /\ ingestFaults' \in 0 .. MaxIngestFaults
  BY LocalCountFacts DEF Ingest!Review
<1>6. LocalRequestsKept
  BY <1>1, <1>4, <1>5, LocalRequestsRest
<1>7. ingestIndexed' = LocalPresence'
  BY <1>1, <1>2, LocalInvFacts
<1> QED BY <1>3, <1>4, <1>6, <1>7, LocalKeptInv

-----------------------------------------------------------------------------
LEMMA LocalInitInv == Ingest!Init => Ingest!IngestInv
<1> SUFFICES ASSUME Ingest!Init PROVE Ingest!IngestInv
  OBVIOUS
<1>1. Ingest!TypeOK
  <2>1. bundleSends \in 0 .. MaxBundleSends /\ ingestFaults \in 0 .. MaxIngestFaults
    BY DataPlaneAssumptions DEF Ingest!Init, Ingest!LocalIngestAssumption
  <2> QED BY <2>1 DEF Ingest!Init, Ingest!TypeOK
<1>2. Ingest!HierarchyIsForest
  BY LocalEmptyForest DEF Ingest!Init, Ingest!HierarchyIsForest
<1>3. Ingest!RunsAreWhole
  BY DEF Ingest!Init, Ingest!RunsAreWhole
<1>4. Ingest!RowsAreWhole
  BY DEF Ingest!Init, Ingest!RowsAreWhole
<1>5. Ingest!AcceptedIsBacked
  BY DEF Ingest!Init, Ingest!AcceptedIsBacked
<1> QED BY <1>1, <1>2, <1>3, <1>4, <1>5 DEF Ingest!IngestInv

LEMMA LocalRestInv == ASSUME Ingest!IngestInv, UNCHANGED Ingest!vars PROVE Ingest!IngestInv'
  BY DEF Ingest!vars, Ingest!request, Ingest!archive, Ingest!plant, Ingest!facts,
     Ingest!bounds, Ingest!IngestInv, Ingest!TypeOK, Ingest!HierarchyIsForest,
     Ingest!RunsAreWhole,
         Ingest!RowsAreWhole, Ingest!AcceptedIsBacked

LEMMA LocalStepInv == ASSUME Ingest!IngestInv, Ingest!Next \/ UNCHANGED Ingest!vars PROVE Ingest!IngestInv'
<1>1. CASE Ingest!Next
  BY <1>1, LocalSendAgainInv, LocalKillWaitingInv, LocalKillLandingInv, LocalKillReplayingInv,
     LocalReviewInv, LocalQuietSteps, LocalLandInv, LocalRereadInv
     DEF Ingest!Next
<1> QED BY <1>1, LocalRestInv

LEMMA LocalInitLedger == Ingest!Init => Ingest!Ledger!Init
  BY DEF Ingest!Init, Ingest!Ledger!Init

LEMMA LocalFactsRest == ASSUME UNCHANGED <<ingestRun, bundleFile, Ingest!facts>> PROVE Ingest!KeepsDecisions /\ UNCHANGED Ingest!Ledger!vars
  BY DEF Ingest!facts, Ingest!KeepsDecisions, Ingest!Ledger!vars

LEMMA LocalStepLedger ==
    ASSUME Ingest!IngestInv, Ingest!Next \/ UNCHANGED Ingest!vars
    PROVE  Ingest!KeepsDecisions /\ [Ingest!Ledger!Next]_(Ingest!Ledger!vars)
<1>1. CASE Ingest!SendAgain \/ (\E c \in IngestClient : Ingest!Land(c))
  <2>1. UNCHANGED <<ingestRun, bundleFile, Ingest!facts>> \/ \E b \in IngestBundle : Ingest!Ingest(b)
    BY <1>1, LocalInvFacts DEF Ingest!SendAgain, Ingest!Land, Ingest!plant
  <2> QED BY <2>1, LocalFactsRest, LocalIngestFacts DEF LocalIngested
<1>2. CASE Ingest!KillLanding
  <2>1. UNCHANGED <<ingestRun, bundleFile, Ingest!facts>> \/ \E b \in IngestBundle : Ingest!Ingest(b)
    BY <1>2, LocalInvFacts DEF Ingest!KillLanding
  <2> QED BY <2>1, LocalFactsRest, LocalIngestFacts DEF LocalIngested
<1>3. CASE Ingest!KillReplaying \/ (\E c \in IngestClient : Ingest!Reread(c))
  <2>1. \E b \in Ingest!Replays : Ingest!Ingest(b)
    BY <1>3, LocalInvFacts, LocalReplayFacts DEF Ingest!KillReplaying, Ingest!Reread
  <2> QED BY <2>1, LocalIngestFacts DEF LocalIngested
<1>4. CASE Ingest!Review
  <2>1. UNCHANGED Ingest!Ledger!vars
    BY <1>4 DEF Ingest!Review, Ingest!Ledger!vars
  <2> QED BY <1>4, <2>1, LocalReviewFacts
<1>5. CASE \/ Ingest!KillWaiting \/ UNCHANGED Ingest!vars
           \/ \E c \in IngestClient : \/ Ingest!Send(c) \/ Ingest!Open(c) \/ Ingest!OpenExists(c) \/ Ingest!Write(c) \/ Ingest!WriteFails(c)
                                      \/ Ingest!Compare(c) \/ Ingest!AskReplay(c)
  <2>1. UNCHANGED <<ingestRun, bundleFile, Ingest!facts>>
    BY <1>5 DEF Ingest!KillWaiting, Ingest!vars, Ingest!plant, Ingest!Send, Ingest!Open,
       Ingest!OpenExists, Ingest!Write, Ingest!WriteFails, Ingest!Compare, Ingest!AskReplay
  <2> QED BY <2>1, LocalFactsRest
<1> QED BY <1>1, <1>2, <1>3, <1>4, <1>5 DEF Ingest!Next

(***************************************************************************)
(* For any requests, bundles, run ids, assets, points and relations: on    *)
(* the SQLite plane too, however bundles, retries, replays, reviews, torn  *)
(* files and kills interleave, the hierarchy stays a forest, what is       *)
(* accepted or indexed is backed, a decision stands, and every run id is   *)
(* entered once and whole (RawLandingStore.archive(),                      *)
(* SqliteIndustrialPersistence.ingest(), reviewRelation()).                 *)
(***************************************************************************)
THEOREM EmbeddedIngestKeepsEvidence == DataSpec => IngestKeepsEvidence
<1> DEFINE I == dataPart = "ingest" => Ingest!IngestInv
<1>1. DataInit => I /\ (dataPart = "ingest" => Ingest!Ledger!Init)
  BY LocalInitInv, LocalInitLedger DEF DataInit
<1>2. I /\ [DataNext]_dataVars =>
         /\ I'
         /\ [dataPart = "ingest" =>
               /\ Ingest!HierarchyIsForest' /\ Ingest!AcceptedIsBacked'
               /\ Ingest!KeepsDecisions
               /\ [Ingest!Ledger!Next]_(Ingest!Ledger!vars)]_ingestVars
  <2> SUFFICES ASSUME I, [DataNext]_dataVars
               PROVE  /\ I'
                      /\ dataPart = "ingest" =>
                            /\ Ingest!HierarchyIsForest' /\ Ingest!AcceptedIsBacked'
                            /\ Ingest!KeepsDecisions
                            /\ [Ingest!Ledger!Next]_(Ingest!Ledger!vars)
    OBVIOUS
  <2>1. dataPart' = dataPart
    BY DEF DataNext, dataVars
  <2>2. ASSUME dataPart = "ingest"
        PROVE  Ingest!IngestInv' /\ Ingest!KeepsDecisions /\ [Ingest!Ledger!Next]_(Ingest!Ledger!vars)
    <3>1. Ingest!IngestInv
      BY <2>2
    <3>2. Ingest!Next \/ UNCHANGED Ingest!vars
      BY <2>2 DEF DataNext, dataVars, ingestVars, Ingest!vars, Ingest!request, Ingest!archive, Ingest!plant,
                  Ingest!facts, Ingest!bounds
    <3> QED BY <3>1, <3>2, LocalStepInv, LocalStepLedger
  <2>3. Ingest!IngestInv' => Ingest!HierarchyIsForest' /\ Ingest!AcceptedIsBacked'
    BY DEF Ingest!IngestInv
  <2> QED BY <2>1, <2>2, <2>3
<1> QED BY <1>1, <1>2, PTL DEF DataSpec, IngestKeepsEvidence
=============================================================================
