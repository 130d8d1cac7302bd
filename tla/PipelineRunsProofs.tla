------------------------- MODULE PipelineRunsProofs -------------------------
(***************************************************************************)
(* Proofs about PipelineRuns for any set of runs and workers, any scopes   *)
(* and any sizes.                                                          *)
(***************************************************************************)
EXTENDS PipelineRuns, CatalogPlane, FiniteSetTheorems, SequenceTheorems, WellFoundedInduction, TLAPS

Phase == {"idle", "polling", "working", "stopped"}
Job == {"none", "waiting", "loading", "succeeded", "failed"}

\* The type of everything but the tables, the fault counter and the stops.
Types ==
    /\ locked \in [Worker -> SUBSET Run]
    /\ phase \in [Worker -> Phase]
    /\ visit \in [Worker -> Seq(Range(Scopes))]
    /\ offset \in [Worker -> 0 .. Len(Scopes) - 1]
    /\ job \in [Worker -> [Run -> Job]]
    /\ stopping \in [Worker -> BOOLEAN]
    /\ aborted \in [Worker -> BOOLEAN]

Rows == state \in [Run -> RunState] /\ events \in [Run -> Seq(RunState)]

LEMMA TypeParts ==
    TypeOK <=> Rows /\ Types /\ stops \in 0 .. MaxStops /\ faults \in 0 .. MaxFaults
BY DEF TypeOK, Rows, Types, Phase, Job

-----------------------------------------------------------------------------
(* The tables. *)

(* The history of one run: what EventsTellState says of it.                *)
History(s, e) ==
    /\ s = (IF e = <<>> THEN "none" ELSE Last(e))
    /\ e # <<>> => e[1] = "queued"
    /\ \A i \in 1 .. Len(e) - 1 : ValidTransition(e[i], e[i + 1])

LEMMA HistoryParts == EventsTellState <=> \A r \in Run : History(state[r], events[r])
BY DEF EventsTellState, History

(* A valid transition, or the first event, extends a history.              *)
LEMMA HistoryGrows ==
    ASSUME NEW s \in RunState, NEW e \in Seq(RunState), History(s, e), NEW t \in RunState,
           ValidTransition(s, t) \/ (s = "none" /\ t = "queued")
    PROVE  /\ History(t, Append(e, t)) /\ Append(e, t) \in Seq(RunState)
           /\ IsPrefix(e, Append(e, t))
<1> DEFINE f == Append(e, t)
<1>1. PICK n \in Nat : n = Len(e)
  OBVIOUS
<1>2. /\ f \in Seq(RunState) /\ Len(f) = n + 1 /\ f[n + 1] = t /\ \A i \in 1 .. n : f[i] = e[i]
  BY <1>1, AppendProperties
<1> HIDE DEF f
<1>3. f # <<>> /\ Last(f) = t
  BY <1>2 DEF Last
<1>4. e = <<>> <=> n = 0
  BY <1>1
<1>5. e = <<>> => s = "none" /\ t = "queued"
  BY DEF History, ValidTransition
<1>6. e # <<>> => s = e[n] /\ s # "none"
  <2>1. ASSUME e # <<>> PROVE s = e[n] /\ s # "none"
    <3>1. s = e[n]
      BY <1>1, <2>1 DEF History, Last
    <3>2. CASE n = 1
      BY <3>1, <3>2, <2>1 DEF History
    <3>3. CASE n # 1
      <4>1. n - 1 \in 1 .. Len(e) - 1 /\ (n - 1) + 1 = n
        BY <1>1, <1>4, <2>1, <3>3
      <4>2. ValidTransition(e[n - 1], e[n])
        BY <4>1 DEF History
      <4>3. QED
        BY <3>1, <4>2 DEF ValidTransition, Terminal
    <3>4. QED
      BY <3>2, <3>3
  <2>2. QED
    BY <2>1
<1>7. f[1] = "queued"
  <2>1. CASE e = <<>>
    BY <2>1, <1>2, <1>4, <1>5
  <2>2. CASE e # <<>>
    BY <2>2, <1>2, <1>4 DEF History
  <2>3. QED
    BY <2>1, <2>2
<1>8. ASSUME NEW i \in 1 .. n PROVE ValidTransition(f[i], f[i + 1])
  <2>1. CASE i = n
    BY <2>1, <1>2, <1>4, <1>6, <1>8
  <2>2. CASE i # n
    <3>1. i \in 1 .. Len(e) - 1 /\ i + 1 \in 1 .. n
      BY <1>1, <1>8, <2>2
    <3>2. QED
      BY <3>1, <1>2 DEF History
  <2>3. QED
    BY <2>1, <2>2
<1>9. IsPrefix(e, f)
  BY <1>1, <1>2 DEF IsPrefix
<1>10. History(t, f)
  BY <1>2, <1>3, <1>7, <1>8 DEF History
<1>11. QED
  BY <1>2, <1>9, <1>10 DEF f

LEMMA PrefixOfItself == ASSUME NEW S, NEW e \in Seq(S) PROVE IsPrefix(e, e)
BY DEF IsPrefix

(* The runs of R move on, and everything else stays.                       *)
LEMMA RecordEffect ==
    ASSUME Rows, EventsTellState, NEW R \in SUBSET Run, NEW t \in RunState, Record(R, t),
           \A r \in R : ValidTransition(state[r], t) \/ (state[r] = "none" /\ t = "queued")
    PROVE  /\ Rows' /\ EventsTellState'
           /\ \A r \in Run : /\ state'[r] = IF r \in R THEN t ELSE state[r]
                             /\ IsPrefix(events[r], events'[r])
<1>1. ASSUME NEW r \in Run
      PROVE  /\ state'[r] \in RunState /\ events'[r] \in Seq(RunState)
             /\ History(state'[r], events'[r])
             /\ state'[r] = IF r \in R THEN t ELSE state[r]
             /\ IsPrefix(events[r], events'[r])
  <2>1. state[r] \in RunState /\ events[r] \in Seq(RunState) /\ History(state[r], events[r])
    BY HistoryParts DEF Rows
  <2>2. CASE r \in R
    <3>1. state'[r] = t /\ events'[r] = Append(events[r], t)
      BY <2>2 DEF Record
    <3>2. QED
      BY <2>1, <2>2, <3>1, HistoryGrows
  <2>3. CASE r \notin R
    <3>1. state'[r] = state[r] /\ events'[r] = events[r]
      BY <2>3 DEF Record
    <3>2. QED
      BY <2>1, <2>3, <3>1, PrefixOfItself
  <2>4. QED
    BY <2>2, <2>3
<1>2. Rows'
  BY <1>1 DEF Record, Rows
<1>3. EventsTellState'
  BY <1>1, HistoryParts DEF EventsTellState, History
<1>4. QED
  BY <1>1, <1>2, <1>3

(* A transition of one run, or no change.                                  *)
LEMMA TransitionEffect ==
    ASSUME Rows, EventsTellState, NEW r \in Run, NEW old, NEW new \in RunState,
           Transition(r, old, new)
    PROVE  /\ Rows' /\ EventsTellState'
           /\ \A q \in Run : /\ state'[q] = IF q = r /\ state[r] = old THEN new ELSE state[q]
                             /\ IsPrefix(events[q], events'[q])
<1>1. CASE state[r] = old
  <2>1. Record({r}, new) /\ ValidTransition(state[r], new)
    BY <1>1 DEF Transition
  <2>2. QED
    BY <1>1, <2>1, RecordEffect
<1>2. CASE state[r] # old
  <2>1. state' = state /\ events' = events
    BY <1>2 DEF Transition, tables
  <2>2. \A q \in Run : IsPrefix(events[q], events[q])
    BY PrefixOfItself DEF Rows
  <2>3. QED
    BY <1>2, <2>1, <2>2 DEF Rows, EventsTellState
<1>3. QED
  BY <1>1, <1>2

LEMMA SameTables ==
    ASSUME Rows, EventsTellState, UNCHANGED tables
    PROVE  /\ Rows' /\ EventsTellState'
           /\ \A q \in Run : state'[q] = state[q] /\ IsPrefix(events[q], events'[q])
BY PrefixOfItself DEF tables, Rows, EventsTellState

-----------------------------------------------------------------------------
(* Initially. *)

LEMMA InitInv == Init => PipelineInv
<1> SUFFICES ASSUME Init PROVE PipelineInv
  OBVIOUS
<1> USE DEF Init
<1>1. Len(Scopes) \in Nat /\ Len(Scopes) > 0
  BY PipelineAssumption
<1>2. TypeOK
  BY <1>1, PipelineAssumption DEF TypeOK, RunState, NoJobs
<1>3. ClaimedOnce /\ NothingAbandoned /\ LockInv
  BY DEF ClaimedOnce, NothingAbandoned, LockInv, NoJobs
<1>4. EventsTellState
  BY DEF EventsTellState
<1>5. QED
  BY <1>2, <1>3, <1>4 DEF PipelineInv

-----------------------------------------------------------------------------
(* Steps of callers and of the cycle. *)

(* A caller changes rows that are not locked; a run that was queued or     *)
(* running may be cancelled, and none becomes running.                     *)
LEMMA CallerStep ==
    ASSUME PipelineInv, Rows', EventsTellState', UNCHANGED <<locked, process, control, faults>>,
           \A q \in Run : \/ state'[q] = state[q]
                          \/ state[q] = "none" /\ state'[q] = "queued"
                          \/ /\ state[q] \in {"queued", "running"} /\ state'[q] = "cancelled"
                             /\ Free(q)
    PROVE  PipelineInv'
<1>1. TypeOK /\ Types /\ ClaimedOnce /\ NothingAbandoned /\ LockInv
  BY TypeParts DEF PipelineInv
<1>2. TypeOK'
  BY <1>1, TypeParts DEF Types, process, control, TypeOK, Rows
<1>3. job' = job /\ locked' = locked /\ phase' = phase /\ visit' = visit /\ faults' = faults
  BY DEF process
<1>4. ClaimedOnce'
  BY <1>1, <1>3 DEF ClaimedOnce
<1>5. NothingAbandoned'
  BY <1>1, <1>3 DEF NothingAbandoned
<1>6. ASSUME NEW w \in Worker, NEW q \in locked[w] PROVE state'[q] = "queued"
  <2>1. q \in Run /\ state[q] = "queued" /\ ~Free(q)
    BY <1>1, <1>6 DEF Types, LockInv, Free
  <2>2. QED
    BY <2>1
<1>7. LockInv'
  BY <1>1, <1>3, <1>6 DEF LockInv
<1>8. QED
  BY <1>2, <1>4, <1>5, <1>7 DEF PipelineInv

LEMMA CreateInv == ASSUME PipelineInv, NEW r \in Run, Create(r) PROVE PipelineInv'
<1>1. Record({r}, "queued") /\ state[r] = "none" /\ "queued" \in RunState
  BY DEF Create, RunState
<1>2. /\ Rows' /\ EventsTellState'
      /\ \A q \in Run : state'[q] = IF q = r THEN "queued" ELSE state[q]
  BY <1>1, RecordEffect, TypeParts DEF PipelineInv
<1>3. QED
  BY <1>1, <1>2, CallerStep DEF Create

LEMMA CancelInv == ASSUME PipelineInv, NEW r \in Run, Cancel(r) PROVE PipelineInv'
<1>1. PICK old \in {"queued", "running"} : state[r] = old /\ Transition(r, old, "cancelled")
  BY DEF Cancel
<1>2. /\ Rows' /\ EventsTellState'
      /\ \A q \in Run : state'[q] = IF q = r THEN "cancelled" ELSE state[q]
  <2>1. "cancelled" \in RunState
    BY DEF RunState, Terminal
  <2>2. QED
    BY <1>1, <2>1, TransitionEffect, TypeParts DEF PipelineInv
<1>3. Free(r)
  BY <1>1 DEF Transition
<1>4. QED
  BY <1>1, <1>2, <1>3, CallerStep DEF Cancel

-----------------------------------------------------------------------------
(* Steps of a worker that do not touch the tables. *)

(* The worker w may change its phase, its round and its jobs, as long as   *)
(* it keeps what the invariant says of them.                               *)
LEMMA WorkerStep ==
    ASSUME PipelineInv, NEW w \in Worker, UNCHANGED tables,
           Types', stops' \in 0 .. MaxStops, faults' \in 0 .. MaxFaults,
           \A v \in Worker : v # w => /\ locked'[v] = locked[v] /\ phase'[v] = phase[v]
                                     /\ visit'[v] = visit[v] /\ job'[v] = job[v],
           \A r \in locked'[w] : state[r] = "queued" /\ \A v \in Worker : v # w => r \notin locked[v],
           locked'[w] # {} => phase'[w] = "polling" /\ visit'[w] # <<>>,
           phase'[w] \in {"idle", "stopped"} => \A r \in Run : job'[w][r] = "none",
           \A r \in Run : job'[w][r] # "none" => job[w][r] # "none",
           faults' = 0 => faults = 0 /\ \A r \in Run : job[w][r] # "none" => job'[w][r] # "none"
    PROVE  PipelineInv'
<1>1. TypeOK /\ Rows /\ Types /\ ClaimedOnce /\ EventsTellState /\ NothingAbandoned /\ LockInv
  BY TypeParts DEF PipelineInv
<1>2. Rows' /\ EventsTellState' /\ state' = state
  BY <1>1, SameTables DEF tables
<1>3. TypeOK'
  BY <1>1, <1>2, TypeParts DEF TypeOK, Rows, Types, Phase, Job
<1>4. ASSUME NEW v \in Worker, NEW r \in Run, job'[v][r] # "none" PROVE job[v][r] # "none"
  BY <1>4
<1>5. ClaimedOnce'
  BY <1>1, <1>2, <1>4 DEF ClaimedOnce
<1>6. NothingAbandoned'
  <2>1. ASSUME faults' = 0, NEW r \in Run, state'[r] = "running"
        PROVE  \E v \in Worker : job'[v][r] # "none"
    <3>1. PICK v \in Worker : job[v][r] # "none"
      BY <1>1, <1>2, <2>1 DEF NothingAbandoned
    <3>2. job'[v][r] # "none"
      BY <2>1, <3>1
    <3>3. QED
      BY <3>2
  <2>2. QED
    BY <2>1 DEF NothingAbandoned
<1>7. LockInv'
  <2>1. \A u, v \in Worker : \A r \in Run : r \in locked'[u] /\ r \in locked'[v] => u = v
    <3>1. ASSUME NEW u \in Worker, NEW v \in Worker, NEW r \in Run,
                 r \in locked'[u], r \in locked'[v]
          PROVE  u = v
      <4>1. CASE u = w
        BY <3>1, <4>1
      <4>2. CASE v = w
        BY <3>1, <4>2
      <4>3. CASE u # w /\ v # w
        BY <1>1, <3>1, <4>3 DEF LockInv
      <4>4. QED
        BY <4>1, <4>2, <4>3
    <3>2. QED
      BY <3>1
  <2>2. \A v \in Worker : \A r \in locked'[v] : state'[r] = "queued"
    BY <1>1, <1>2 DEF LockInv
  <2>3. \A v \in Worker : locked'[v] # {} => phase'[v] = "polling" /\ visit'[v] # <<>>
    BY <1>1 DEF LockInv
  <2>4. \A v \in Worker : phase'[v] \in {"idle", "stopped"} =>
          \A r \in Run : job'[v][r] = "none"
    BY <1>1 DEF LockInv
  <2>5. QED
    BY <2>1, <2>2, <2>3, <2>4 DEF LockInv
<1>8. QED
  BY <1>2, <1>3, <1>5, <1>6, <1>7 DEF PipelineInv

(* What the invariant says of one worker.                                  *)
LEMMA WorkerFacts ==
    ASSUME PipelineInv, NEW w \in Worker
    PROVE  /\ Types /\ stops \in 0 .. MaxStops /\ faults \in 0 .. MaxFaults
           /\ locked[w] \subseteq Run /\ visit[w] \in Seq(Range(Scopes))
           /\ job[w] \in [Run -> Job] /\ offset[w] \in 0 .. Len(Scopes) - 1
           /\ \A r \in locked[w] : state[r] = "queued" /\ \A v \in Worker : v # w => r \notin locked[v]
           /\ locked[w] # {} => phase[w] = "polling" /\ visit[w] # <<>>
           /\ phase[w] \in {"idle", "stopped"} => \A r \in Run : job[w][r] = "none"
           /\ Fault => faults' \in 0 .. MaxFaults /\ faults' # 0
<1>1. Types /\ stops \in 0 .. MaxStops /\ faults \in 0 .. MaxFaults /\ LockInv
  BY TypeParts DEF PipelineInv
<1>2. locked[w] \subseteq Run /\ visit[w] \in Seq(Range(Scopes)) /\ job[w] \in [Run -> Job]
      /\ offset[w] \in 0 .. Len(Scopes) - 1
  BY <1>1 DEF Types
<1>3. /\ \A r \in locked[w] : state[r] = "queued" /\ \A v \in Worker : v # w => r \notin locked[v]
      /\ locked[w] # {} => phase[w] = "polling" /\ visit[w] # <<>>
      /\ phase[w] \in {"idle", "stopped"} => \A r \in Run : job[w][r] = "none"
  BY <1>1, <1>2 DEF LockInv
<1>4. Fault => faults' \in 0 .. MaxFaults /\ faults' # 0
  BY <1>1, PipelineAssumption DEF Fault
<1>5. QED
  BY <1>1, <1>2, <1>3, <1>4

(* The scopes of a cycle are scopes, and the offset stays in their range.  *)
LEMMA RoundRobin ==
    ASSUME PipelineInv, NEW w \in Worker
    PROVE  /\ NextOffset(w) \in 0 .. Len(Scopes) - 1
           /\ [i \in 1 .. ScopesPerPoll |-> Scopes[((offset[w] + i - 1) % Len(Scopes)) + 1]]
                \in Seq(Range(Scopes))
<1>1. PICK n \in Nat \ {0} : n = Len(Scopes)
  BY PipelineAssumption
<1>2. PICK o \in 0 .. n - 1 : o = offset[w]
  BY <1>1, WorkerFacts
<1>3. PICK k \in 1 .. n : k = ScopesPerPoll
  BY <1>1, PipelineAssumption
<1>4. \A x \in Int : x % n \in 0 .. n - 1
  BY <1>1
<1>5. NextOffset(w) \in 0 .. n - 1
  <2>1. PICK x \in Int : x = o + k
    OBVIOUS
  <2>2. NextOffset(w) = x % n
    BY <1>1, <1>2, <1>3, <2>1 DEF NextOffset
  <2>3. QED
    BY <1>4, <2>2
<1>6. ASSUME NEW i \in 1 .. k PROVE Scopes[((o + i - 1) % n) + 1] \in Range(Scopes)
  <2>1. (o + i - 1) % n \in 0 .. n - 1
    BY <1>4
  <2>2. PICK m \in 0 .. n - 1 : m = (o + i - 1) % n
    BY <2>1
  <2>3. m + 1 \in 1 .. n
    OBVIOUS
  <2>4. Scopes[m + 1] \in Range(Scopes)
    BY <1>1, <2>3, PipelineAssumption DEF Range
  <2>5. QED
    BY <2>2, <2>4
<1>7. QED
  BY <1>1, <1>2, <1>3, <1>5, <1>6

LEMMA BeginCycleInv == ASSUME PipelineInv, NEW w \in Worker, BeginCycle(w) PROVE PipelineInv'
<1> DEFINE round == [i \in 1 .. ScopesPerPoll |-> Scopes[((offset[w] + i - 1) % Len(Scopes)) + 1]]
<1>1. round \in Seq(Range(Scopes)) /\ NextOffset(w) \in 0 .. Len(Scopes) - 1
  BY RoundRobin
<1>2. /\ phase[w] = "idle" /\ phase' = [phase EXCEPT ![w] = "polling"]
      /\ visit' = [visit EXCEPT ![w] = round]
      /\ offset' = [offset EXCEPT ![w] = NextOffset(w)]
      /\ UNCHANGED <<tables, locked, job, control, faults>>
  BY DEF BeginCycle
<1> HIDE DEF round
<1>3. Types'
  BY <1>1, <1>2, WorkerFacts DEF Types, Phase, control
<1>4. locked'[w] = {} /\ phase'[w] = "polling"
  BY <1>2, WorkerFacts DEF Types
<1>5. \A v \in Worker : v # w => /\ locked'[v] = locked[v] /\ phase'[v] = phase[v]
                               /\ visit'[v] = visit[v] /\ job'[v] = job[v]
  BY <1>2, WorkerFacts DEF Types
<1>6. QED
  BY <1>2, <1>3, <1>4, <1>5, WorkerFacts, WorkerStep DEF control

LEMMA ClaimInv == ASSUME PipelineInv, NEW w \in Worker, Claim(w) PROVE PipelineInv'
<1> DEFINE R == Lowest(Claimable(Head(visit[w])))
<1>1. /\ phase[w] = "polling" /\ visit[w] # <<>> /\ locked' = [locked EXCEPT ![w] = R]
      /\ visit' = visit \/ visit' = [visit EXCEPT ![w] = Tail(visit[w])]
      /\ R # {} => visit' = visit
      /\ UNCHANGED <<tables, phase, offset, job, control, faults>>
  BY DEF Claim, NextScope
<1>2. /\ R \subseteq Run
      /\ \A r \in R : state[r] = "queued" /\ \A v \in Worker : r \notin locked[v]
  BY DEF Lowest, Claimable, Free
<1> HIDE DEF R
<1>3. Tail(visit[w]) \in Seq(Range(Scopes))
  BY <1>1, WorkerFacts, HeadTailProperties
<1>4. /\ visit' \in [Worker -> Seq(Range(Scopes))]
      /\ \A v \in Worker : v # w => visit'[v] = visit[v]
  <2>1. visit \in [Worker -> Seq(Range(Scopes))]
    BY WorkerFacts DEF Types
  <2>2. CASE visit' = visit
    BY <2>1, <2>2
  <2>3. CASE visit' = [visit EXCEPT ![w] = Tail(visit[w])]
    BY <1>3, <2>1, <2>3
  <2>4. QED
    BY <1>1, <2>2, <2>3
<1>5. locked' \in [Worker -> SUBSET Run]
  BY <1>1, <1>2, WorkerFacts DEF Types
<1>6. Types'
  BY <1>1, <1>4, <1>5, WorkerFacts DEF Types, control
<1>7. locked'[w] = R /\ \A v \in Worker : v # w => locked'[v] = locked[v]
  BY <1>1, WorkerFacts DEF Types
<1>8. R # {} => visit'[w] # <<>>
  BY <1>1
<1>9. QED
  BY <1>1, <1>2, <1>4, <1>6, <1>7, <1>8, WorkerFacts, WorkerStep DEF control

LEMMA ClaimFailsInv == ASSUME PipelineInv, NEW w \in Worker, ClaimFails(w) PROVE PipelineInv'
<1>1. /\ phase[w] = "polling" /\ visit[w] # <<>> /\ locked' = [locked EXCEPT ![w] = {}]
      /\ visit' = [visit EXCEPT ![w] = Tail(@)] /\ Fault
      /\ UNCHANGED <<tables, phase, offset, job, control>>
  BY DEF ClaimFails, NextScope
<1>2. Tail(visit[w]) \in Seq(Range(Scopes))
  BY <1>1, WorkerFacts, HeadTailProperties
<1>3. Types'
  BY <1>1, <1>2, WorkerFacts DEF Types, control
<1>4. /\ locked'[w] = {} /\ phase'[w] = "polling"
      /\ \A v \in Worker : v # w => /\ locked'[v] = locked[v] /\ phase'[v] = phase[v]
                                  /\ visit'[v] = visit[v] /\ job'[v] = job[v]
  BY <1>1, WorkerFacts DEF Types
<1>5. QED
  BY <1>1, <1>3, <1>4, WorkerFacts, WorkerStep DEF control

LEMMA StartWorkInv == ASSUME PipelineInv, NEW w \in Worker, StartWork(w) PROVE PipelineInv'
<1>1. /\ phase[w] = "polling" /\ locked[w] = {}
      /\ phase' = [phase EXCEPT ![w] = "working"] /\ visit' = [visit EXCEPT ![w] = <<>>]
      /\ UNCHANGED <<tables, locked, offset, job, control, faults>>
  BY WorkerFacts DEF StartWork
<1>2. Types'
  BY <1>1, WorkerFacts DEF Types, Phase, control
<1>3. /\ locked'[w] = {} /\ phase'[w] = "working"
      /\ \A v \in Worker : v # w => /\ locked'[v] = locked[v] /\ phase'[v] = phase[v]
                                  /\ visit'[v] = visit[v] /\ job'[v] = job[v]
  BY <1>1, WorkerFacts DEF Types
<1>4. QED
  BY <1>1, <1>2, <1>3, WorkerFacts, WorkerStep DEF control

(* One job of a worker takes another kind.                                 *)
LEMMA JobStep ==
    ASSUME PipelineInv, NEW w \in Worker, NEW r \in Run, NEW kind \in Job, SetJob(w, r, kind)
    PROVE  /\ job' \in [Worker -> [Run -> Job]]
           /\ job'[w][r] = kind
           /\ \A q \in Run : q # r => job'[w][q] = job[w][q]
           /\ \A v \in Worker : v # w => job'[v] = job[v]
<1>1. job \in [Worker -> [Run -> Job]]
  BY WorkerFacts DEF Types
<1>2. job' = [job EXCEPT ![w] = [job[w] EXCEPT ![r] = kind]]
  BY <1>1 DEF SetJob
<1> DEFINE f == [job[w] EXCEPT ![r] = kind]
<1>3. f \in [Run -> Job] /\ f[r] = kind /\ \A q \in Run : q # r => f[q] = job[w][q]
  BY <1>1
<1> HIDE DEF f
<1>4. job' = [job EXCEPT ![w] = f]
  BY <1>2 DEF f
<1>5. QED
  BY <1>1, <1>3, <1>4

(* A job of a worker that works takes another kind, and no row changes.    *)
LEMMA JobKindInv ==
    ASSUME PipelineInv, NEW w \in Worker, NEW r \in Run, NEW kind \in Job,
           job[w][r] # "none", SetJob(w, r, kind), kind = "none" => Fault,
           Fault \/ UNCHANGED faults,
           UNCHANGED <<tables, locked, phase, visit, offset, control>>
    PROVE  PipelineInv'
<1>1. /\ job' \in [Worker -> [Run -> Job]]
      /\ job'[w][r] = kind
      /\ \A q \in Run : q # r => job'[w][q] = job[w][q]
      /\ \A v \in Worker : v # w => job'[v] = job[v]
  BY JobStep
<1>2. Types'
  BY <1>1, WorkerFacts DEF Types, control
<1>3. faults' \in 0 .. MaxFaults
  BY WorkerFacts
<1>4. phase'[w] \notin {"idle", "stopped"}
  BY WorkerFacts
<1>5. faults' = 0 => faults = 0 /\ kind # "none"
  BY WorkerFacts
<1>6. \A q \in Run : job'[w][q] # "none" => job[w][q] # "none"
  BY <1>1
<1>7. faults' = 0 => faults = 0 /\ \A q \in Run : job[w][q] # "none" => job'[w][q] # "none"
  BY <1>1, <1>5
<1>8. QED
  BY <1>1, <1>2, <1>3, <1>4, <1>6, <1>7, WorkerFacts, WorkerStep DEF control

LEMMA StartJobInv == ASSUME PipelineInv, NEW w \in Worker, StartJob(w) PROVE PipelineInv'
<1>1. PICK r \in Run : job[w][r] = "waiting" /\ SetJob(w, r, "loading")
  BY DEF StartJob, Jobs
<1>2. UNCHANGED <<tables, locked, phase, visit, offset, control, faults>>
  BY DEF StartJob
<1>3. QED
  BY <1>1, <1>2, JobKindInv DEF Job

LEMMA ExecuteInv ==
    ASSUME PipelineInv, NEW w \in Worker, NEW r \in Run, Execute(w, r) PROVE PipelineInv'
<1>1. PICK outcome \in {"succeeded", "failed"} : SetJob(w, r, outcome)
  BY DEF Execute
<1>2. job[w][r] = "loading" /\ UNCHANGED <<tables, locked, phase, visit, offset, control, faults>>
  BY DEF Execute
<1>3. QED
  BY <1>1, <1>2, JobKindInv DEF Job

LEMMA FinishFailsInv ==
    ASSUME PipelineInv, NEW w \in Worker, NEW r \in Run, FinishFails(w, r) PROVE PipelineInv'
<1>1. /\ job[w][r] # "none" /\ SetJob(w, r, "none") /\ Fault
      /\ UNCHANGED <<tables, locked, phase, visit, offset, control>>
  BY DEF FinishFails
<1>2. QED
  BY <1>1, JobKindInv DEF Job

LEMMA EndCycleInv == ASSUME PipelineInv, NEW w \in Worker, EndCycle(w) PROVE PipelineInv'
<1>1. /\ phase[w] = "working" /\ job[w] = NoJobs /\ phase' = [phase EXCEPT ![w] = "idle"]
      /\ UNCHANGED <<tables, locked, visit, offset, job, control, faults>>
  BY DEF EndCycle
<1>2. Types'
  BY <1>1, WorkerFacts DEF Types, Phase, control
<1>3. /\ locked'[w] = {} /\ \A r \in Run : job'[w][r] = "none"
      /\ \A v \in Worker : v # w => /\ locked'[v] = locked[v] /\ phase'[v] = phase[v]
                                  /\ visit'[v] = visit[v] /\ job'[v] = job[v]
  <2>1. \A r \in Run : job'[w][r] = "none"
    BY <1>1 DEF NoJobs
  <2>2. locked'[w] = {}
    BY <1>1, WorkerFacts
  <2>3. \A v \in Worker : v # w => /\ locked'[v] = locked[v] /\ phase'[v] = phase[v]
                                  /\ visit'[v] = visit[v] /\ job'[v] = job[v]
    BY <1>1, WorkerFacts DEF Types
  <2>4. QED
    BY <2>1, <2>2, <2>3
<1>4. QED
  BY <1>1, <1>2, <1>3, WorkerFacts, WorkerStep DEF control

-----------------------------------------------------------------------------
(* The process. *)

LEMMA StoppedInv == ASSUME PipelineInv, NEW w \in Worker, Stopped(w) PROVE PipelineInv'
<1>1. /\ phase[w] = "idle" /\ phase' = [phase EXCEPT ![w] = "stopped"]
      /\ UNCHANGED <<tables, locked, visit, offset, job, control, faults>>
  BY DEF Stopped
<1>2. Types'
  BY <1>1, WorkerFacts DEF Types, Phase, control
<1>3. /\ locked'[w] = {} /\ \A r \in Run : job'[w][r] = "none"
      /\ \A v \in Worker : v # w => /\ locked'[v] = locked[v] /\ phase'[v] = phase[v]
                                  /\ visit'[v] = visit[v] /\ job'[v] = job[v]
  <2>1. \A r \in Run : job'[w][r] = "none"
    BY <1>1, WorkerFacts
  <2>2. locked'[w] = {}
    BY <1>1, WorkerFacts
  <2>3. \A v \in Worker : v # w => /\ locked'[v] = locked[v] /\ phase'[v] = phase[v]
                                  /\ visit'[v] = visit[v] /\ job'[v] = job[v]
    BY <1>1, WorkerFacts DEF Types
  <2>4. QED
    BY <2>1, <2>2, <2>3
<1>4. QED
  BY <1>1, <1>2, <1>3, WorkerFacts, WorkerStep DEF control

(* A request to stop and the end of the grace period change only flags.    *)
LEMMA FlagInv ==
    ASSUME PipelineInv, NEW w \in Worker, UNCHANGED <<tables, locked, process, faults>>,
           stopping' \in [Worker -> BOOLEAN], aborted' \in [Worker -> BOOLEAN],
           stops' \in 0 .. MaxStops
    PROVE  PipelineInv'
<1>1. Types'
  BY WorkerFacts DEF Types, process
<1>2. QED
  BY <1>1, WorkerFacts, WorkerStep DEF process

LEMMA StopInv == ASSUME PipelineInv, NEW w \in Worker, Stop(w) PROVE PipelineInv'
<1>1. stopping' \in [Worker -> BOOLEAN] /\ aborted' \in [Worker -> BOOLEAN]
  BY WorkerFacts DEF Stop, Types
<1>2. stops' \in 0 .. MaxStops
  BY WorkerFacts, PipelineAssumption DEF Stop
<1>3. QED
  BY <1>1, <1>2, FlagInv DEF Stop

LEMMA AbortInv == ASSUME PipelineInv, NEW w \in Worker, Abort(w) PROVE PipelineInv'
<1>1. stopping' \in [Worker -> BOOLEAN] /\ aborted' \in [Worker -> BOOLEAN]
  BY WorkerFacts DEF Abort, Types
<1>2. stops' \in 0 .. MaxStops
  BY WorkerFacts DEF Abort
<1>3. QED
  BY <1>1, <1>2, FlagInv DEF Abort

(* A new process takes the place of one without jobs, or after a fault.    *)
LEMMA FreshInv ==
    ASSUME PipelineInv, NEW w \in Worker, Fresh(w), Fault \/ UNCHANGED faults,
           UNCHANGED faults => phase[w] = "stopped"
    PROVE  PipelineInv'
<1>1. /\ locked' = [locked EXCEPT ![w] = {}] /\ phase' = [phase EXCEPT ![w] = "idle"]
      /\ visit' = [visit EXCEPT ![w] = <<>>] /\ offset' = [offset EXCEPT ![w] = 0]
      /\ job' = [job EXCEPT ![w] = NoJobs]
      /\ stopping' = [stopping EXCEPT ![w] = FALSE] /\ aborted' = [aborted EXCEPT ![w] = FALSE]
      /\ UNCHANGED <<tables, stops>>
  BY DEF Fresh
<1>2. NoJobs \in [Run -> Job] /\ \A r \in Run : NoJobs[r] = "none"
  BY DEF NoJobs, Job
<1>3. 0 \in 0 .. Len(Scopes) - 1 /\ <<>> \in Seq(Range(Scopes))
  BY PipelineAssumption
<1>4. /\ locked' \in [Worker -> SUBSET Run] /\ phase' \in [Worker -> Phase]
      /\ visit' \in [Worker -> Seq(Range(Scopes))] /\ offset' \in [Worker -> 0 .. Len(Scopes) - 1]
  BY <1>1, <1>3, WorkerFacts DEF Types, Phase
<1>5. /\ job' \in [Worker -> [Run -> Job]]
      /\ stopping' \in [Worker -> BOOLEAN] /\ aborted' \in [Worker -> BOOLEAN]
  BY <1>1, <1>2, WorkerFacts DEF Types
<1>6. Types'
  BY <1>4, <1>5 DEF Types
<1>7. /\ locked'[w] = {} /\ \A r \in Run : job'[w][r] = "none"
      /\ \A v \in Worker : v # w => /\ locked'[v] = locked[v] /\ phase'[v] = phase[v]
                                  /\ visit'[v] = visit[v] /\ job'[v] = job[v]
  BY <1>1, <1>2, WorkerFacts DEF Types
<1>8. faults' \in 0 .. MaxFaults
  BY WorkerFacts
<1>9. faults' = 0 => faults = 0 /\ \A r \in Run : job[w][r] = "none"
  BY WorkerFacts
<1>10. QED
  BY <1>1, <1>6, <1>7, <1>8, <1>9, WorkerFacts, WorkerStep

LEMMA StartInv == ASSUME PipelineInv, NEW w \in Worker, Start(w) PROVE PipelineInv'
BY FreshInv DEF Start

LEMMA CrashInv == ASSUME PipelineInv, NEW w \in Worker, Crash(w) PROVE PipelineInv'
<1>1. Fault /\ Fresh(w) /\ faults' # faults
  BY WorkerFacts DEF Crash, Fault
<1>2. QED
  BY <1>1, FreshInv

-----------------------------------------------------------------------------
(* Steps that change the tables. *)

(* The runs that w has locked are running now; unless its answer is lost,  *)
(* w has them.                                                             *)
LEMMA CommitStep ==
    ASSUME PipelineInv, NEW w \in Worker, locked[w] # {}, Record(locked[w], "running"),
           locked' = [locked EXCEPT ![w] = {}], NextScope(w),
           UNCHANGED <<phase, offset, control>>,
           job' \in [Worker -> [Run -> Job]], \A v \in Worker : v # w => job'[v] = job[v],
           \A r \in Run : job'[w][r] # "none" => job[w][r] # "none" \/ r \in locked[w],
           faults' \in 0 .. MaxFaults,
           faults' = 0 => /\ faults = 0
                          /\ \A r \in Run : job[w][r] # "none" \/ r \in locked[w] => job'[w][r] # "none"
    PROVE  PipelineInv'
<1>1. TypeOK /\ Rows /\ Types /\ ClaimedOnce /\ EventsTellState /\ NothingAbandoned /\ LockInv
  BY TypeParts DEF PipelineInv
<1>2. /\ locked[w] \subseteq Run /\ phase[w] = "polling"
      /\ \A r \in locked[w] : state[r] = "queued" /\ \A v \in Worker : v # w => r \notin locked[v]
  BY WorkerFacts
<1>3. /\ Rows' /\ EventsTellState'
      /\ \A r \in Run : state'[r] = IF r \in locked[w] THEN "running" ELSE state[r]
  <2>1. "running" \in RunState /\ \A r \in locked[w] : ValidTransition(state[r], "running")
    BY <1>2 DEF RunState, ValidTransition
  <2>2. QED
    BY <1>1, <1>2, <2>1, RecordEffect
<1>4. visit' \in [Worker -> Seq(Range(Scopes))] /\ \A v \in Worker : v # w => visit'[v] = visit[v]
  <2>1. visit[w] # <<>> /\ visit[w] \in Seq(Range(Scopes))
    BY WorkerFacts
  <2>2. Tail(visit[w]) \in Seq(Range(Scopes))
    BY <2>1, HeadTailProperties
  <2>3. QED
    BY <1>1, <2>2 DEF NextScope, Types
<1>5. /\ locked' \in [Worker -> SUBSET Run] /\ locked'[w] = {}
      /\ \A v \in Worker : v # w => locked'[v] = locked[v]
  BY <1>1 DEF Types
<1>6. Types'
  BY <1>1, <1>4, <1>5 DEF Types, control
<1>7. TypeOK'
  <2>1. stops' \in 0 .. MaxStops
    BY WorkerFacts DEF control
  <2>2. QED
    BY <1>3, <1>6, <2>1, TypeParts DEF TypeOK, Rows, Types, Phase, Job
<1>8. ASSUME NEW v \in Worker, NEW r \in Run, job'[v][r] # "none"
      PROVE  job[v][r] # "none" \/ (v = w /\ r \in locked[w])
  BY <1>8
<1>9. \A v \in Worker : \A r \in locked[w] : job[v][r] = "none"
  BY <1>1, <1>2 DEF ClaimedOnce
<1>10. ClaimedOnce'
  <2>1. ASSUME NEW v \in Worker, NEW u \in Worker, NEW r \in Run,
               job'[v][r] # "none", job'[u][r] # "none"
        PROVE  v = u
    BY <1>1, <1>8, <1>9, <2>1 DEF ClaimedOnce
  <2>2. ASSUME NEW v \in Worker, NEW r \in Run, job'[v][r] # "none"
        PROVE  state'[r] \in {"running", "cancelled"}
    BY <1>1, <1>3, <1>8, <2>2 DEF ClaimedOnce
  <2>3. QED
    BY <2>1, <2>2 DEF ClaimedOnce
<1>11. NothingAbandoned'
  <2>1. ASSUME faults' = 0, NEW r \in Run, state'[r] = "running"
        PROVE  \E v \in Worker : job'[v][r] # "none"
    <3>1. CASE r \in locked[w]
      BY <2>1, <3>1
    <3>2. CASE r \notin locked[w]
      <4>1. PICK v \in Worker : job[v][r] # "none"
        BY <1>1, <1>3, <2>1, <3>2 DEF NothingAbandoned
      <4>2. job'[v][r] # "none"
        BY <2>1, <4>1
      <4>3. QED
        BY <4>2
    <3>3. QED
      BY <3>1, <3>2
  <2>2. QED
    BY <2>1 DEF NothingAbandoned
<1>12. LockInv'
  <2>1. \A v, u \in Worker : \A r \in Run : r \in locked'[v] /\ r \in locked'[u] => v = u
    BY <1>1, <1>5 DEF LockInv
  <2>2. ASSUME NEW v \in Worker, NEW r \in locked'[v] PROVE state'[r] = "queued"
    <3>1. v # w /\ r \in locked[v] /\ r \in Run
      BY <1>1, <1>5, <2>2 DEF Types
    <3>2. state[r] = "queued" /\ r \notin locked[w]
      BY <1>1, <1>2, <3>1 DEF LockInv
    <3>3. QED
      BY <1>3, <3>1, <3>2
  <2>3. \A v \in Worker : locked'[v] # {} => phase'[v] = "polling" /\ visit'[v] # <<>>
    BY <1>1, <1>4, <1>5 DEF LockInv
  <2>4. \A v \in Worker : phase'[v] \in {"idle", "stopped"} =>
          \A r \in Run : job'[v][r] = "none"
    BY <1>1, <1>2 DEF LockInv
  <2>5. QED
    BY <2>1, <2>2, <2>3, <2>4 DEF LockInv
<1>13. QED
  BY <1>3, <1>7, <1>10, <1>11, <1>12 DEF PipelineInv

LEMMA CommitInv == ASSUME PipelineInv, NEW w \in Worker, Commit(w) PROVE PipelineInv'
<1> DEFINE f == [r \in Run |-> IF r \in locked[w] THEN "waiting" ELSE job[w][r]]
<1>1. job \in [Worker -> [Run -> Job]] /\ faults \in 0 .. MaxFaults
  BY WorkerFacts DEF Types
<1>2. job' = [job EXCEPT ![w] = f]
  BY <1>1 DEF Commit
<1>3. f \in [Run -> Job] /\ \A r \in Run : f[r] = IF r \in locked[w] THEN "waiting" ELSE job[w][r]
  BY <1>1 DEF Job
<1> HIDE DEF f
<1>4. /\ job' \in [Worker -> [Run -> Job]] /\ \A v \in Worker : v # w => job'[v] = job[v]
      /\ job'[w] = f
  BY <1>1, <1>2, <1>3
<1>5. /\ locked[w] # {} /\ Record(locked[w], "running") /\ locked' = [locked EXCEPT ![w] = {}]
      /\ NextScope(w) /\ UNCHANGED <<phase, offset, control, faults>>
  BY DEF Commit
<1>6. \A r \in Run : job'[w][r] # "none" <=> job[w][r] # "none" \/ r \in locked[w]
  BY <1>3, <1>4
<1>7. QED
  BY <1>1, <1>4, <1>5, <1>6, CommitStep

LEMMA CommitUnheardInv == ASSUME PipelineInv, NEW w \in Worker, CommitUnheard(w) PROVE PipelineInv'
<1>1. /\ locked[w] # {} /\ Record(locked[w], "running") /\ locked' = [locked EXCEPT ![w] = {}]
      /\ NextScope(w) /\ Fault /\ UNCHANGED <<phase, offset, job, control>>
  BY DEF CommitUnheard
<1>2. job' \in [Worker -> [Run -> Job]] /\ faults' \in 0 .. MaxFaults /\ faults' # 0
  BY <1>1, WorkerFacts DEF Types
<1>3. QED
  BY <1>1, <1>2, CommitStep

(* The outcome is written, or the run was cancelled before.                *)
LEMMA FinishInv ==
    ASSUME PipelineInv, NEW w \in Worker, NEW r \in Run, Finish(w, r) PROVE PipelineInv'
<1>1. /\ job[w][r] \in {"succeeded", "failed"} /\ Transition(r, "running", job[w][r])
      /\ SetJob(w, r, "none") /\ UNCHANGED <<locked, phase, visit, offset, control, faults>>
  BY DEF Finish
<1>2. TypeOK /\ Rows /\ Types /\ ClaimedOnce /\ EventsTellState /\ NothingAbandoned /\ LockInv
  BY TypeParts DEF PipelineInv
<1>3. /\ Rows' /\ EventsTellState'
      /\ \A q \in Run : state'[q] = IF q = r /\ state[r] = "running" THEN job[w][r] ELSE state[q]
  <2>1. job[w][r] \in RunState
    BY <1>1 DEF RunState, Terminal
  <2>2. QED
    BY <1>1, <1>2, <2>1, TransitionEffect
<1>4. /\ job' \in [Worker -> [Run -> Job]]
      /\ job'[w][r] = "none"
      /\ \A q \in Run : q # r => job'[w][q] = job[w][q]
      /\ \A v \in Worker : v # w => job'[v] = job[v]
  BY <1>1, JobStep DEF Job
<1>5. TypeOK'
  <2>1. Types'
    BY <1>1, <1>2, <1>4 DEF Types, control
  <2>2. stops' \in 0 .. MaxStops /\ faults' \in 0 .. MaxFaults
    BY <1>1, WorkerFacts DEF control
  <2>3. QED
    BY <1>3, <2>1, <2>2, TypeParts DEF TypeOK, Rows, Types, Phase, Job
<1>6. ASSUME NEW v \in Worker, NEW q \in Run, job'[v][q] # "none"
      PROVE  job[v][q] # "none" /\ q # r
  <2>1. job[v][q] # "none"
    BY <1>4, <1>6
  <2>2. job[w][r] # "none"
    BY <1>1
  <2>3. q = r => v = w
    BY <1>2, <2>1, <2>2 DEF ClaimedOnce
  <2>4. QED
    BY <1>4, <1>6, <2>1, <2>3
<1>7. ClaimedOnce'
  <2>1. \A v, u \in Worker : \A q \in Run : job'[v][q] # "none" /\ job'[u][q] # "none" => v = u
    BY <1>2, <1>6 DEF ClaimedOnce
  <2>2. \A v \in Worker : \A q \in Run : job'[v][q] # "none" => state'[q] \in {"running", "cancelled"}
    BY <1>2, <1>3, <1>6 DEF ClaimedOnce
  <2>3. QED
    BY <2>1, <2>2 DEF ClaimedOnce
<1>8. NothingAbandoned'
  <2>1. ASSUME faults' = 0, NEW q \in Run, state'[q] = "running"
        PROVE  \E v \in Worker : job'[v][q] # "none"
    <3>1. state[q] = "running" /\ q # r
      BY <1>1, <1>3, <2>1
    <3>2. PICK v \in Worker : job[v][q] # "none"
      BY <1>1, <1>2, <2>1, <3>1 DEF NothingAbandoned
    <3>3. job'[v][q] = job[v][q]
      BY <1>4, <3>1
    <3>4. QED
      BY <3>2, <3>3
  <2>2. QED
    BY <2>1 DEF NothingAbandoned
<1>9. LockInv'
  <2>1. ASSUME NEW v \in Worker, NEW q \in locked'[v] PROVE state'[q] = "queued"
    <3>1. q \in Run /\ q \in locked[v] /\ state[q] = "queued"
      BY <1>1, <1>2, <2>1 DEF Types, LockInv
    <3>2. QED
      BY <1>3, <3>1
  <2>2. \A v \in Worker : phase'[v] \in {"idle", "stopped"} => \A q \in Run : job'[v][q] = "none"
    BY <1>1, <1>2, <1>6 DEF LockInv
  <2>3. QED
    BY <1>1, <1>2, <2>1, <2>2 DEF LockInv
<1>10. QED
  BY <1>3, <1>5, <1>7, <1>8, <1>9 DEF PipelineInv

-----------------------------------------------------------------------------
(* The theorems. *)

LEMMA NextInv == PipelineInv /\ Next => PipelineInv'
<1> SUFFICES ASSUME PipelineInv, Next PROVE PipelineInv'
  OBVIOUS
<1>1. ASSUME NEW r \in Run, Create(r) \/ Cancel(r) PROVE PipelineInv'
  BY <1>1, CreateInv, CancelInv
<1>2. ASSUME NEW w \in Worker, Cycle(w) PROVE PipelineInv'
  BY <1>2, BeginCycleInv, ClaimInv, CommitInv, StartWorkInv, StartJobInv, EndCycleInv DEF Cycle
<1>3. ASSUME NEW w \in Worker, Lost(w) PROVE PipelineInv'
  BY <1>3, CommitUnheardInv, ClaimFailsInv, CrashInv, FinishFailsInv DEF Lost
<1>4. ASSUME NEW w \in Worker, Control(w) PROVE PipelineInv'
  BY <1>4, StopInv, AbortInv, StoppedInv, StartInv DEF Control
<1>5. ASSUME NEW w \in Worker, NEW r \in Run, Process(w, r) PROVE PipelineInv'
  BY <1>5, ExecuteInv, FinishInv DEF Process
<1>6. QED
  BY <1>1, <1>2, <1>3, <1>4, <1>5 DEF Next, Client

LEMMA StutterInv == PipelineInv /\ UNCHANGED vars => PipelineInv'
<1> SUFFICES ASSUME PipelineInv, UNCHANGED vars PROVE PipelineInv'
  OBVIOUS
<1>1. Rows' /\ EventsTellState' /\ UNCHANGED <<locked, process, control, faults>>
  BY TypeParts, SameTables DEF PipelineInv, vars
<1>2. \A q \in Run : state'[q] = state[q]
  BY DEF vars, tables
<1>3. QED
  BY <1>1, <1>2, CallerStep

(* PipelineInv holds in every reachable state of any set of workers, runs  *)
(* and scopes.                                                             *)
LEMMA InvHolds == Spec => []PipelineInv
<1>1. PipelineInv /\ [Next]_vars => PipelineInv'
  BY NextInv, StutterInv
<1>2. QED
  BY InitInv, <1>1, PTL DEF Spec

(* Every variable keeps its type: no claim, stop or crash leaves a worker  *)
(* with an offset out of range or with jobs that are not runs.             *)
THEOREM TypeCorrect == Spec => []TypeOK
<1>1. PipelineInv => TypeOK
  BY DEF PipelineInv
<1>2. QED
  BY <1>1, InvHolds, PTL

(* Two claims at the same time never give a run to two workers, and a run  *)
(* in the hands of a worker is running or was cancelled under it.          *)
THEOREM ClaimedByOne == Spec => []ClaimedOnce
<1>1. PipelineInv => ClaimedOnce
  BY DEF PipelineInv
<1>2. QED
  BY <1>1, InvHolds, PTL

(* The events of a run are a valid history that ends in its state.         *)
THEOREM HistoryTold == Spec => []EventsTellState
<1>1. PipelineInv => EventsTellState
  BY DEF PipelineInv
<1>2. QED
  BY <1>1, InvHolds, PTL

(* Unless something fails, a worker has every running run: shutdowns and   *)
(* their grace periods give up none.                                       *)
THEOREM NothingGivenUp == Spec => []NothingAbandoned
<1>1. PipelineInv => NothingAbandoned
  BY DEF PipelineInv
<1>2. QED
  BY <1>1, InvHolds, PTL

\* What EndIsFinal says of one step.
Final == \A r \in Run :
    /\ state[r] \in Terminal => state'[r] = state[r]
    /\ IsPrefix(events[r], events'[r])

(* Which runs a step may change, and from which state.                     *)
LEMMA StepIsFinal == ASSUME PipelineInv, Next PROVE Final
<1>1. Rows /\ EventsTellState
  BY TypeParts DEF PipelineInv
<1>2. ASSUME NEW r \in Run, Create(r) PROVE Final
  <2>1. Record({r}, "queued") /\ state[r] = "none" /\ "queued" \in RunState
    BY <1>2 DEF Create, RunState
  <2>2. QED
    BY <1>1, <2>1, RecordEffect DEF Final, Terminal
<1>3. ASSUME NEW r \in Run, NEW old \in {"queued", "running"}, NEW new \in Terminal,
             Transition(r, old, new)
      PROVE  Final
  <2>1. new \in RunState
    BY DEF RunState
  <2>2. QED
    BY <1>1, <1>3, <2>1, TransitionEffect DEF Final, Terminal
<1>4. ASSUME NEW r \in Run, Cancel(r) PROVE Final
  BY <1>3, <1>4 DEF Cancel, Terminal
<1>5. ASSUME NEW w \in Worker, NEW r \in Run, Finish(w, r) PROVE Final
  BY <1>3, <1>5 DEF Finish, Terminal
<1>6. ASSUME NEW w \in Worker, Record(locked[w], "running") PROVE Final
  <2>1. locked[w] \subseteq Run /\ \A r \in locked[w] : state[r] = "queued"
    BY WorkerFacts
  <2>2. "running" \in RunState /\ \A r \in locked[w] : ValidTransition(state[r], "running")
    BY <2>1 DEF RunState, ValidTransition
  <2>3. QED
    BY <1>1, <1>6, <2>1, <2>2, RecordEffect DEF Final, Terminal
<1>7. ASSUME UNCHANGED tables PROVE Final
  BY <1>1, <1>7, SameTables DEF Final
<1>8. ASSUME NEW w \in Worker, Cycle(w) PROVE Final
  BY <1>6, <1>7, <1>8 DEF Cycle, BeginCycle, Claim, Commit, StartWork, StartJob, EndCycle
<1>9. ASSUME NEW w \in Worker, Lost(w) PROVE Final
  BY <1>6, <1>7, <1>9 DEF Lost, CommitUnheard, ClaimFails, Crash, Fresh, FinishFails
<1>10. ASSUME NEW w \in Worker, Control(w) PROVE Final
  BY <1>7, <1>10 DEF Control, Stop, Abort, Stopped, Start, Fresh
<1>11. ASSUME NEW w \in Worker, NEW r \in Run, Process(w, r) PROVE Final
  BY <1>5, <1>7, <1>11 DEF Process, Execute
<1>12. QED
  BY <1>2, <1>4, <1>8, <1>9, <1>10, <1>11 DEF Next, Client

(* No step changes a run that has ended, whoever races for it, and no step *)
(* takes back an event.                                                    *)
THEOREM EndStays == Spec => EndIsFinal
<1>1. PipelineInv /\ [Next]_vars => [Final]_vars
  BY StepIsFinal
<1>2. QED
  BY <1>1, InvHolds, PTL DEF Spec, EndIsFinal, Final

-----------------------------------------------------------------------------
(* A set of naturals has a least element, and so a property of 0 that n    *)
(* passes on to n + 1 is one of every natural.                             *)
LEMMA LeastNatural ==
    ASSUME NEW S \in SUBSET Nat, S # {} PROVE \E x \in S : \A y \in S : x <= y
<1>1. PICK R : R = OpToRel(<, Nat)
  OBVIOUS
<1>2. \A x, y \in Nat : x < y => <<x, y>> \in R
  BY <1>1 DEF OpToRel
<1>3. IsWellFoundedOn(R, Nat)
  BY <1>1, NatLessThanWellFounded
<1>4. PICK x \in S : \A y \in S : ~ (<<y, x>> \in R)
  BY <1>3, WFMin
<1>5. ASSUME NEW y \in S PROVE x <= y
  <2>1. x \in Nat /\ y \in Nat /\ ~(y < x)
    BY <1>2, <1>4
  <2> QED BY <2>1
<1> QED BY <1>5

LEMMA InductiveSet ==
    ASSUME NEW S, 0 \in S, \A n \in Nat : n \in S => n + 1 \in S PROVE Nat \subseteq S
<1>1. SUFFICES ASSUME Nat \ S # {} PROVE FALSE
  OBVIOUS
<1>2. PICK x \in Nat \ S : \A y \in Nat \ S : x <= y
  BY <1>1, LeastNatural
<1>3. x # 0 /\ x \in Nat
  OBVIOUS
<1>4. x - 1 \in Nat /\ (x - 1) + 1 = x /\ x - 1 < x
  BY <1>3
<1>5. x - 1 \in S
  BY <1>2, <1>4
<1> QED BY <1>4, <1>5

-----------------------------------------------------------------------------
LEMMA PollsRowFacts ==
    ASSUME Polls!TypeOK, NEW r \in DOMAIN pollTable
    PROVE  /\ pollTable[r].key \in PollKey /\ pollTable[r].key \in Int
           /\ Polls!Stored(r) \in PollKey /\ Polls!Stored(r) \in Int /\ Polls!Stored(r) <= pollTable[r].key
           /\ Polls!Rank(Polls!Stored(r)) \in Int
<1>1. pollTable[r] \in Polls!Row /\ column \in Column
  BY DEF Polls!TypeOK
<1>2. pollTable[r].key \in PollKey
  BY <1>1 DEF Polls!Row
<1>3. column.stored \in [PollKey -> PollKey] /\ column.rank \in [PollKey -> Int]
      /\ column.stored[pollTable[r].key] <= pollTable[r].key /\ PollKey \subseteq Int
  BY <1>1, <1>2, CatalogPlaneAssumptions DEF Polls!EdgeConnectorsAssumption
<1> QED BY <1>2, <1>3 DEF Polls!Stored, Polls!Rank

LEMMA PollsRankType == ASSUME Polls!TypeOK, NEW k \in PollKey PROVE Polls!Rank(k) \in Int
<1>1. column \in Column
  BY DEF Polls!TypeOK
<1> QED BY <1>1, CatalogPlaneAssumptions DEF Polls!EdgeConnectorsAssumption, Polls!Rank

(* Rows whose ranks go up one after the other go up altogether.            *)
LEMMA PollsIncreasingOnwards ==
    ASSUME Polls!TypeOK, NEW taken \in Seq(Nat), Polls!Range(taken) \subseteq DOMAIN pollTable,
           Polls!Increasing(taken),
           NEW i \in DOMAIN taken, NEW j \in DOMAIN taken, i <= j
    PROVE  Polls!Rank(Polls!Stored(taken[i])) <= Polls!Rank(Polls!Stored(taken[j]))
<1>1. PICK n \in Nat : n = Len(taken) /\ DOMAIN taken = 1 .. n
  OBVIOUS
<1>2. PICK f : f = [k \in 1 .. n |-> Polls!Rank(Polls!Stored(taken[k]))]
  OBVIOUS
<1>3. \A k \in 1 .. n : f[k] \in Int /\ f[k] = Polls!Rank(Polls!Stored(taken[k]))
  <2> SUFFICES ASSUME NEW k \in 1 .. n
               PROVE  f[k] \in Int /\ f[k] = Polls!Rank(Polls!Stored(taken[k]))
    OBVIOUS
  <2>1. taken[k] \in DOMAIN pollTable
    BY <1>1 DEF Polls!Range
  <2> QED BY <1>2, <2>1, PollsRowFacts
<1>4. \A k \in 1 .. n - 1 : f[k] < f[k + 1]
  <2> SUFFICES ASSUME NEW k \in 1 .. n - 1 PROVE f[k] < f[k + 1]
    OBVIOUS
  <2>1. k \in 1 .. n /\ k + 1 \in 1 .. n
    OBVIOUS
  <2>2. Polls!Rank(Polls!Stored(taken[k])) < Polls!Rank(Polls!Stored(taken[k + 1]))
    BY <1>1 DEF Polls!Increasing
  <2> QED BY <1>3, <2>1, <2>2
<1>5. PICK S : S = {m \in Nat : i + m \in 1 .. n => f[i] <= f[i + m]}
  OBVIOUS
<1>6. 0 \in S
  BY <1>1, <1>3, <1>5
<1>7. ASSUME NEW m \in Nat, m \in S PROVE m + 1 \in S
  <2> SUFFICES ASSUME i + (m + 1) \in 1 .. n PROVE f[i] <= f[i + (m + 1)]
    BY <1>5
  <2>1. i + m \in 1 .. n - 1 /\ i + m \in 1 .. n /\ i + (m + 1) = (i + m) + 1 /\ i \in 1 .. n
    BY <1>1
  <2>2. f[i] <= f[i + m]
    BY <1>5, <1>7, <2>1
  <2>3. f[i + m] < f[(i + m) + 1]
    BY <1>4, <2>1
  <2>4. f[i] \in Int /\ f[i + m] \in Int /\ f[(i + m) + 1] \in Int
    BY <1>3, <2>1
  <2>5. PICK a \in Int, b \in Int, c \in Int : a = f[i] /\ b = f[i + m] /\ c = f[(i + m) + 1]
    BY <2>4
  <2>6. a <= b
    BY <2>2, <2>5
  <2>7. b < c
    BY <2>3, <2>5
  <2>8. a <= c
    BY <2>6, <2>7
  <2>9. f[i + (m + 1)] = c
    BY <2>1, <2>5
  <2> QED BY <2>5, <2>8, <2>9
<1>8. j - i \in S
  <2>1. j - i \in Nat
    BY <1>1
  <2> QED BY <1>6, <1>7, <2>1, InductiveSet
<1>9. f[i] <= f[i + (j - i)] /\ i + (j - i) = j
  BY <1>1, <1>5, <1>8
<1> QED BY <1>1, <1>3, <1>9

(* What a query may answer.                                                *)
LEMMA PollsPermutationFacts ==
    ASSUME NEW n \in Nat, NEW S \in SUBSET (1 .. n),
           NEW taken \in Polls!SetToAllKPermutations(S)
    PROVE  /\ taken \in Seq(Nat) /\ taken \in Seq(S) /\ Polls!Range(taken) \subseteq S
           /\ \A i, j \in DOMAIN taken : taken[i] = taken[j] => i = j
<1>1. PICK T \in SUBSET S : taken \in Polls!SetToSeqs(T)
  BY DEF Polls!SetToAllKPermutations
<1>2. IsFiniteSet(1 .. n)
  BY FS_Interval
<1>3. T \in SUBSET (1 .. n)
  OBVIOUS
<1>4. Polls!Cardinality(T) \in Nat
  <2>1. Polls!Cardinality(T) = Cardinality(T)
    BY DEF Polls!Cardinality, Cardinality
  <2>2. Cardinality(T) \in Nat
    BY <1>2, <1>3, FS_Subset, FS_CardinalityType
  <2> QED BY <2>1, <2>2
<1>5. taken \in [1 .. Polls!Cardinality(T) -> T]
  BY <1>1 DEF Polls!SetToSeqs
<1>6. taken \in [1 .. Polls!Cardinality(T) -> S] /\ taken \in [1 .. Polls!Cardinality(T) -> Nat]
  <2>1. (\A x \in T : x \in S) /\ (\A x \in T : x \in Nat)
    BY <1>3
  <2> QED BY <1>5, <2>1
<1>7. taken \in Seq(S) /\ taken \in Seq(Nat)
  BY <1>4, <1>6
<1>8. \A i, j \in DOMAIN taken : taken[i] = taken[j] => i = j
  BY <1>1, <1>5 DEF Polls!SetToSeqs
<1> QED BY <1>5, <1>7, <1>8 DEF Polls!Range

-----------------------------------------------------------------------------
(* Steps that neither collect nor commit.                                  *)
LEMMA PollsQuiet ==
    ASSUME Polls!PollsInv, UNCHANGED <<column, pollTable, checkpoint, queued>>, Polls!TypeOK',
           Polls!ReadInv', Polls!PointsInv'
    PROVE  Polls!PollsInv'
<1>1. Polls!BatchesInv'
  BY DEF Polls!PollsInv, Polls!BatchesInv, Polls!Stored, Polls!Rank
<1>2. Polls!RowsAreCollectedOnce'
  BY DEF Polls!PollsInv, Polls!RowsAreCollectedOnce, Polls!QueuedIn
<1>3. Polls!PassedRowsAreKnown'
  BY DEF Polls!PollsInv, Polls!PassedRowsAreKnown, Polls!QueuedIn, Polls!Collected, Polls!Wanted
<1>4. Polls!TimesGoUp'
  BY DEF Polls!PollsInv, Polls!TimesGoUp, Polls!Seen
<1> QED BY <1>1, <1>2, <1>3, <1>4 DEF Polls!PollsInv

LEMMA PollsIdleIsTurn == ASSUME NEW s \in Polls!Connector PROVE Polls!Idle(s) \in Polls!Turn /\ Polls!Idle(s).phase = "idle"
BY DEF Polls!Idle, Polls!Turn

LEMMA PollsOverIdle ==
    ASSUME Polls!TypeOK, Polls!Over \/ poll' = Polls!Idle("postgres")
    PROVE  poll' \in Polls!Turn /\ poll'.phase = "idle"
<1>1. poll.of \in Polls!Connector
  BY DEF Polls!TypeOK, Polls!Turn, Polls!Connector
<1>2. Polls!Other(poll.of) \in Polls!Connector /\ "postgres" \in Polls!Connector
  BY <1>1 DEF Polls!Connector, Polls!Other
<1> QED BY <1>2, PollsIdleIsTurn DEF Polls!Over

LEMMA PollsMeasureInv ==
    ASSUME Polls!PollsInv, NEW n \in Node, NEW v \in Value, Polls!Measure(n, v)
    PROVE  Polls!PollsInv'
<1>1. Polls!TypeOK'
  BY CatalogPlaneAssumptions DEF Polls!PollsInv, Polls!TypeOK, Polls!Measure, Polls!Changes,
     Polls!EdgeConnectorsAssumption
<1>2. Polls!ReadInv' /\ Polls!PointsInv'
  BY DEF Polls!PollsInv, Polls!ReadInv, Polls!PointsInv, Polls!Measure, Polls!FirstIsNew,
     Polls!Increasing, Polls!Stored, Polls!Rank, Polls!Wanted, Polls!Seen
<1> QED BY <1>1, <1>2, PollsQuiet DEF Polls!Measure

LEMMA PollsClockInv == ASSUME Polls!PollsInv, NEW t \in Time, Polls!SetClock(t) PROVE Polls!PollsInv'
<1>1. Polls!TypeOK'
  BY CatalogPlaneAssumptions DEF Polls!PollsInv, Polls!TypeOK, Polls!SetClock, Polls!Changes,
     Polls!EdgeConnectorsAssumption
<1>2. Polls!ReadInv' /\ Polls!PointsInv'
  BY DEF Polls!PollsInv, Polls!ReadInv, Polls!PointsInv, Polls!SetClock, Polls!FirstIsNew,
     Polls!Increasing, Polls!Stored, Polls!Rank, Polls!Wanted, Polls!Seen
<1> QED BY <1>1, <1>2, PollsQuiet DEF Polls!SetClock

LEMMA PollsStartInv == ASSUME Polls!PollsInv, Polls!Start PROVE Polls!PollsInv'
<1>1. Polls!TypeOK /\ poll.of \in Polls!Connector /\ pollClock \in Time
  BY DEF Polls!PollsInv, Polls!TypeOK, Polls!Turn, Polls!Connector
<1>2. poll' = [of |-> poll.of, phase |-> "asked", observed |-> pollClock]
  BY DEF Polls!Start
<1>3. poll' \in Polls!Turn
  BY <1>1, <1>2 DEF Polls!Turn
<1>4. Polls!TypeOK'
  BY <1>1, <1>3 DEF Polls!TypeOK, Polls!Start
<1>5. Polls!ReadInv' /\ Polls!PointsInv'
  BY <1>2 DEF Polls!ReadInv, Polls!PointsInv
<1> QED BY <1>4, <1>5, PollsQuiet DEF Polls!Start

(* A poll that ends without a batch.                                       *)
LEMMA PollsEndsInv ==
    ASSUME Polls!PollsInv, Polls!Over \/ poll' = Polls!Idle("postgres"),
           UNCHANGED <<column, pollTable, device, pollClock, checkpoint, queued, pollChanges>>,
           pollFaults' \in 0 .. MaxPollFaults
    PROVE  Polls!PollsInv'
<1>1. Polls!TypeOK
  BY DEF Polls!PollsInv
<1>2. poll' \in Polls!Turn /\ poll'.phase = "idle"
  BY <1>1, PollsOverIdle
<1>3. Polls!TypeOK'
  BY <1>1, <1>2 DEF Polls!TypeOK
<1>4. Polls!ReadInv' /\ Polls!PointsInv'
  BY <1>2 DEF Polls!ReadInv, Polls!PointsInv
<1> QED BY <1>3, <1>4, PollsQuiet

LEMMA PollsLoseInv == ASSUME Polls!PollsInv, Polls!Lose PROVE Polls!PollsInv'
<1>1. pollFaults' \in 0 .. MaxPollFaults
  BY CatalogPlaneAssumptions DEF Polls!PollsInv, Polls!TypeOK, Polls!Lose,
     Polls!EdgeConnectorsAssumption
<1> QED BY <1>1, PollsEndsInv DEF Polls!Lose

LEMMA PollsQueryInv == ASSUME Polls!PollsInv, Polls!Query PROVE Polls!PollsInv'
<1>1. Polls!TypeOK /\ pollFaults \in 0 .. MaxPollFaults
  BY DEF Polls!PollsInv, Polls!TypeOK
<1>2. PICK n \in Nat : n = Len(pollTable) /\ DOMAIN pollTable = 1 .. n
  BY <1>1 DEF Polls!TypeOK
<1>3. PICK taken \in Polls!SetToAllKPermutations(Polls!Wanted) :
         /\ \A i \in DOMAIN taken : \A r \in Polls!Wanted \ {taken[j] : j \in 1 .. i} :
              pollTable[taken[i]].key <= pollTable[r].key
         /\ IF taken = <<>> THEN Polls!Over
            ELSE poll' = [of |-> "postgres", phase |-> "read", rows |-> taken]
  BY DEF Polls!Query
<1>4. UNCHANGED <<column, pollTable, device, pollClock, checkpoint, queued, pollChanges, pollFaults>>
  BY DEF Polls!Query
<1>5. Polls!Wanted \in SUBSET (1 .. n)
  BY <1>2 DEF Polls!Wanted
<1>6. /\ taken \in Seq(Nat) /\ taken \in Seq(Polls!Wanted) /\ Polls!Range(taken) \subseteq Polls!Wanted
      /\ \A i, j \in DOMAIN taken : taken[i] = taken[j] => i = j
  BY <1>5, PollsPermutationFacts
<1>7. CASE taken = <<>>
  BY <1>1, <1>3, <1>4, <1>7, PollsEndsInv
<1>8. CASE taken # <<>>
  <2>1. poll' = [of |-> "postgres", phase |-> "read", rows |-> taken]
    BY <1>3, <1>8
  <2>2. poll' \in Polls!Turn
    BY <1>6, <2>1 DEF Polls!Turn
  <2>3. Polls!TypeOK'
    BY <1>1, <1>4, <2>2 DEF Polls!TypeOK
  <2>4. PICK m \in Nat : m = Len(taken) /\ m # 0 /\ DOMAIN taken = 1 .. m
    BY <1>6, <1>8
  <2>5. ASSUME NEW i \in 1 .. m, NEW j \in 1 .. m, i < j
        PROVE  pollTable[taken[i]].key <= pollTable[taken[j]].key
    <3>1. taken[i] \in Polls!Wanted /\ taken[j] \in Polls!Wanted
      BY <1>6, <2>4 DEF Polls!Range
    <3>2. CASE taken[j] \in {taken[k] : k \in 1 .. i}
      <4>1. PICK k \in 1 .. i : taken[j] = taken[k]
        BY <3>2
      <4>2. k = j
        BY <1>6, <2>4, <4>1
      <4> QED BY <2>5, <4>2
    <3>3. CASE taken[j] \notin {taken[k] : k \in 1 .. i}
      BY <1>3, <2>4, <3>1, <3>3
    <3> QED BY <3>2, <3>3
  <2>6. ASSUME NEW r \in Polls!Wanted, r \notin Polls!Range(taken)
        PROVE  pollTable[Polls!Last(taken)].key <= pollTable[r].key
    <3>1. m \in DOMAIN taken /\ Polls!Last(taken) = taken[m] /\ r \notin {taken[j] : j \in 1 .. m}
      BY <2>4, <2>6 DEF Polls!Last, Polls!Range
    <3> QED BY <1>3, <3>1
  <2>7. Polls!ReadInv'
    <3>1. Polls!Range(taken) \subseteq DOMAIN pollTable
      BY <1>2, <1>5, <1>6
    <3>2. Polls!Wanted' = Polls!Wanted
      BY <1>4 DEF Polls!Wanted
    <3> QED BY <1>4, <1>8, <2>1, <2>4, <2>5, <2>6, <3>1, <3>2 DEF Polls!ReadInv
  <2>8. Polls!PointsInv'
    BY <2>1 DEF Polls!PointsInv
  <2> QED BY <1>4, <2>3, <2>7, <2>8, PollsQuiet
<1> QED BY <1>7, <1>8

LEMMA PollsAcceptInv == ASSUME Polls!PollsInv, Polls!Accept PROVE Polls!PollsInv'
<1>1. Polls!TypeOK /\ Polls!ReadInv /\ pollFaults \in 0 .. MaxPollFaults
  BY DEF Polls!PollsInv, Polls!TypeOK
<1>2. UNCHANGED <<column, pollTable, device, pollClock, checkpoint, queued, pollChanges, pollFaults>>
  BY DEF Polls!Accept
<1>3. PICK taken \in Seq(Nat) : poll = [of |-> "postgres", phase |-> "read", rows |-> taken]
  BY <1>1 DEF Polls!Accept, Polls!TypeOK, Polls!Turn, Polls!Connector
<1>4. CASE Polls!Over
  BY <1>1, <1>2, <1>4, PollsEndsInv
<1>5. CASE /\ Polls!FirstIsNew(poll.rows[1]) /\ Polls!Increasing(poll.rows)
           /\ poll' = [poll EXCEPT !.phase = "archiving"]
  <2>1. poll' = [of |-> "postgres", phase |-> "archiving", rows |-> taken]
    BY <1>3, <1>5
  <2>2. poll' \in Polls!Turn
    BY <2>1 DEF Polls!Turn
  <2>3. Polls!TypeOK'
    BY <1>1, <1>2, <2>2 DEF Polls!TypeOK
  <2>4. Polls!ReadInv'
    <3>1. Polls!FirstIsNew(taken[1])' /\ Polls!Increasing(taken)' /\ Polls!Wanted' = Polls!Wanted
      BY <1>2, <1>3, <1>5 DEF Polls!FirstIsNew, Polls!Increasing, Polls!Stored, Polls!Rank,
         Polls!Wanted
    <3> QED BY <1>1, <1>2, <1>3, <2>1, <3>1 DEF Polls!ReadInv
  <2>5. Polls!PointsInv'
    BY <2>1 DEF Polls!PointsInv
  <2> QED BY <1>2, <2>3, <2>4, <2>5, PollsQuiet
<1> QED BY <1>4, <1>5 DEF Polls!Accept

LEMMA PollsTimeOfType ==
    ASSUME Polls!TypeOK, poll.phase = "asked", NEW n \in Node
    PROVE  Polls!TimeOf(device[n]) \in Time
<1>1. device[n] \in Value /\ poll.observed \in Time
  BY DEF Polls!TypeOK, Polls!Turn
<1>2. device[n] \in [source : Time \cup {Null}, server : Time \cup {Null}, usable : BOOLEAN]
  BY <1>1, CatalogPlaneAssumptions DEF Polls!EdgeConnectorsAssumption
<1> QED BY <1>1, <1>2 DEF Polls!TimeOf

LEMMA PollsReadNodesInv == ASSUME Polls!PollsInv, Polls!ReadNodes PROVE Polls!PollsInv'
<1>1. Polls!TypeOK /\ pollFaults \in 0 .. MaxPollFaults
  BY DEF Polls!PollsInv, Polls!TypeOK
<1>2. UNCHANGED <<column, pollTable, device, pollClock, checkpoint, queued, pollChanges, pollFaults>>
  BY DEF Polls!ReadNodes
<1>3. CASE Polls!Over
  BY <1>1, <1>2, <1>3, PollsEndsInv
<1>4. CASE ~Polls!Over
  <2>1. PICK points : /\ points = [n \in Polls!Fresh |-> Polls!TimeOf(device[n])]
                      /\ poll' = [of |-> "opcua", phase |-> "archiving", points |-> points]
    BY <1>4 DEF Polls!ReadNodes
  <2>2. Polls!Fresh \in SUBSET Node /\ points \in [Polls!Fresh -> Time]
    BY <1>1, <2>1, PollsTimeOfType DEF Polls!Fresh, Polls!ReadNodes
  <2>3. poll' \in Polls!Turn
    BY <2>1, <2>2 DEF Polls!Turn, Polls!Points
  <2>4. Polls!TypeOK'
    BY <1>1, <1>2, <2>3 DEF Polls!TypeOK
  <2>5. Polls!PointsInv'
    BY <1>2, <2>1 DEF Polls!PointsInv, Polls!Fresh, Polls!Seen
  <2>6. Polls!ReadInv'
    BY <2>1 DEF Polls!ReadInv
  <2> QED BY <1>2, <2>4, <2>5, <2>6, PollsQuiet
<1> QED BY <1>3, <1>4

-----------------------------------------------------------------------------
(* A commit.                                                               *)
LEMMA PollsCommitInv ==
    ASSUME Polls!PollsInv, NEW k \in PollKey, NEW usable \in BOOLEAN, Polls!Commit(k, usable)
    PROVE  Polls!PollsInv'
<1>1. Polls!TypeOK /\ Polls!ReadInv /\ Polls!BatchesInv
  BY DEF Polls!PollsInv
<1>2. PICK n \in Nat : n = Len(pollTable) /\ DOMAIN pollTable = 1 .. n
  BY <1>1 DEF Polls!TypeOK
<1>3. UNCHANGED <<column, device, pollClock, checkpoint, poll, queued, pollFaults>>
  BY DEF Polls!Commit
<1>4. PICK row \in Polls!Row : row = [key |-> k, usable |-> usable, late |-> Polls!Behind(k)]
  <2>1. Polls!Behind(k) \in BOOLEAN
    BY DEF Polls!Behind
  <2> QED BY <2>1 DEF Polls!Row
<1>5. /\ pollTable' \in Seq(Polls!Row) /\ DOMAIN pollTable' = 1 .. n + 1 /\ pollTable'[n + 1] = row
      /\ \A r \in 1 .. n : pollTable'[r] = pollTable[r]
  BY <1>1, <1>2, <1>4 DEF Polls!TypeOK, Polls!Commit
<1>6. Polls!TypeOK'
  BY <1>1, <1>3, <1>5, CatalogPlaneAssumptions DEF Polls!TypeOK, Polls!Commit, Polls!Changes,
     Polls!EdgeConnectorsAssumption
<1>7. \A r \in 1 .. n : Polls!Stored(r)' = Polls!Stored(r) /\ Polls!Rank(Polls!Stored(r))' = Polls!Rank(Polls!Stored(r))
  BY <1>3, <1>5 DEF Polls!Stored, Polls!Rank
<1>8. Polls!BatchesInv'
  BY <1>1, <1>2, <1>3, <1>5, <1>7 DEF Polls!BatchesInv, Polls!Rank
<1>9. Polls!ReadInv'
  <2> SUFFICES ASSUME poll.of = "postgres", poll.phase \in {"read", "archiving"}
               PROVE  Polls!ReadInv'
    BY <1>3 DEF Polls!ReadInv
  <2>1. PICK taken \in Seq(Nat) : taken = poll.rows /\ taken = Polls!Read
    BY <1>1 DEF Polls!TypeOK, Polls!Turn, Polls!Read
  <2>2. PICK m \in Nat : m = Len(taken) /\ DOMAIN taken = 1 .. m /\ m # 0
    BY <1>1, <2>1 DEF Polls!ReadInv
  <2>3. /\ \A i \in 1 .. m : taken[i] \in 1 .. n /\ pollTable'[taken[i]] = pollTable[taken[i]]
        /\ Polls!Range(taken) \subseteq 1 .. n /\ Polls!Last(taken) = taken[m] /\ m \in 1 .. m /\ 1 \in 1 .. m
    <3>1. Polls!Range(taken) \subseteq 1 .. n
      BY <1>1, <1>2, <2>1 DEF Polls!ReadInv
    <3>2. \A i \in 1 .. m : taken[i] \in Polls!Range(taken)
      BY <2>2 DEF Polls!Range
    <3>3. Polls!Last(taken) = taken[m] /\ m \in 1 .. m /\ 1 \in 1 .. m
      BY <2>2 DEF Polls!Last
    <3> QED BY <1>5, <3>1, <3>2, <3>3
  <2>4. \A i, j \in 1 .. m : i < j => pollTable'[taken[i]].key <= pollTable'[taken[j]].key
    <3>1. \A i, j \in DOMAIN taken : i < j => pollTable[taken[i]].key <= pollTable[taken[j]].key
      BY <1>1, <2>1 DEF Polls!ReadInv
    <3> QED BY <2>2, <2>3, <3>1
  <2>5. ASSUME NEW r \in Polls!Wanted', r \notin Polls!Range(taken)
        PROVE  pollTable'[r].late \/ pollTable'[Polls!Last(taken)].key <= pollTable'[r].key
    <3>1. CASE r \in 1 .. n
      <4>1. r \in Polls!Wanted /\ pollTable'[r] = pollTable[r]
        BY <1>2, <1>3, <1>5, <3>1 DEF Polls!Wanted
      <4> QED BY <1>1, <2>1, <2>3, <2>5, <4>1 DEF Polls!ReadInv
    <3>2. CASE r = n + 1
      <4>1. pollTable'[r].key = k /\ pollTable'[r].late = Polls!Behind(k)
        BY <1>4, <1>5, <3>2
      <4>2. CASE Polls!Behind(k)
        BY <4>1, <4>2
      <4>3. CASE ~Polls!Behind(k)
        <5>1. ~(k <= pollTable[taken[m]].key)
          BY <2>1, <2>2, <2>3, <4>3 DEF Polls!Behind
        <5>2. pollTable[taken[m]].key \in Int /\ k \in Int
          BY <1>1, <1>2, <2>3, PollsRowFacts, CatalogPlaneAssumptions DEF
             Polls!EdgeConnectorsAssumption
        <5> QED BY <2>3, <4>1, <5>1, <5>2
      <4> QED BY <4>2, <4>3
    <3>3. r \in 1 .. n + 1
      BY <1>5 DEF Polls!Wanted
    <3> QED BY <3>1, <3>2, <3>3
  <2>6. poll.phase = "archiving" => Polls!FirstIsNew(taken[1])' /\ Polls!Increasing(taken)'
    <3> SUFFICES ASSUME poll.phase = "archiving"
                 PROVE  Polls!FirstIsNew(taken[1])' /\ Polls!Increasing(taken)'
      OBVIOUS
    <3>1. Polls!FirstIsNew(taken[1]) /\ Polls!Increasing(taken)
      BY <1>1, <2>1 DEF Polls!ReadInv
    <3>2. Polls!FirstIsNew(taken[1])'
      BY <1>3, <1>7, <2>3, <3>1 DEF Polls!FirstIsNew, Polls!Rank
    <3>3. Polls!Increasing(taken)'
      <4> SUFFICES ASSUME NEW i \in 1 .. Len(taken) - 1
                   PROVE  Polls!Rank(Polls!Stored(taken[i]))' < Polls!Rank(Polls!Stored(taken[i + 1]))'
        BY DEF Polls!Increasing
      <4>1. i \in 1 .. m /\ i + 1 \in 1 .. m
        BY <2>2
      <4> QED BY <1>7, <2>3, <3>1, <4>1 DEF Polls!Increasing
    <3> QED BY <3>2, <3>3
  <2>7. taken # <<>> /\ Polls!Range(taken) \subseteq DOMAIN pollTable'
    BY <1>5, <2>2, <2>3
  <2> QED BY <1>3, <2>1, <2>2, <2>4, <2>5, <2>6, <2>7 DEF Polls!ReadInv
<1>10. Polls!PointsInv'
  BY <1>3 DEF Polls!PollsInv, Polls!PointsInv, Polls!Seen
<1>11. Polls!RowsAreCollectedOnce'
  BY <1>3 DEF Polls!PollsInv, Polls!RowsAreCollectedOnce, Polls!QueuedIn
<1>12. Polls!PassedRowsAreKnown'
  <2>1. Polls!Collected' = Polls!Collected /\ Polls!Collected \subseteq 1 .. n
    BY <1>1, <1>2, <1>3 DEF Polls!Collected, Polls!QueuedIn, Polls!BatchesInv
  <2> SUFFICES ASSUME checkpoint.postgres # Null, NEW r \in 1 .. n + 1,
                      r \notin Polls!Wanted', r \notin Polls!Collected
               PROVE  pollTable'[r].late \/ \E s \in Polls!Collected : pollTable'[s].key = pollTable'[r].key
    BY <1>3, <1>5, <2>1 DEF Polls!PassedRowsAreKnown
  <2>2. CASE r \in 1 .. n
    <3>1. r \notin Polls!Wanted /\ pollTable'[r] = pollTable[r]
      BY <1>2, <1>3, <1>5, <2>2 DEF Polls!Wanted
    <3>2. pollTable[r].late \/ \E s \in Polls!Collected : pollTable[s].key = pollTable[r].key
      BY <1>2, <2>2, <3>1 DEF Polls!PollsInv, Polls!PassedRowsAreKnown
    <3> QED BY <1>5, <2>1, <3>1, <3>2
  <2>3. CASE r = n + 1
    <3>1. ~(k > checkpoint.postgres)
      BY <1>3, <1>4, <1>5, <2>3 DEF Polls!Wanted
    <3>2. checkpoint.postgres \in PollKey
      BY <1>1 DEF Polls!TypeOK
    <3>3. checkpoint.postgres \in Int /\ k \in Int /\ checkpoint.postgres # Null
      BY <3>2, CatalogPlaneAssumptions DEF Polls!EdgeConnectorsAssumption
    <3>4. checkpoint.postgres # Null /\ k <= checkpoint.postgres
      BY <3>1, <3>3
    <3>5. Polls!Behind(k)
      BY <3>4 DEF Polls!Behind
    <3> QED BY <1>4, <1>5, <2>3, <3>5
  <2> QED BY <2>2, <2>3
<1>13. Polls!TimesGoUp'
  BY <1>3 DEF Polls!PollsInv, Polls!TimesGoUp, Polls!Seen
<1> QED BY <1>6, <1>8, <1>9, <1>10, <1>11, <1>12, <1>13 DEF Polls!PollsInv

-----------------------------------------------------------------------------
(* A batch is queued and the checkpoint moves.                             *)
LEMMA PollsEnqueueRowsInv ==
    ASSUME Polls!PollsInv, Polls!Enqueue, poll.of = "postgres" PROVE Polls!PollsInv'
<1>1. Polls!TypeOK /\ Polls!ReadInv /\ Polls!BatchesInv
  BY DEF Polls!PollsInv
<1>2. PICK n \in Nat, q \in Nat :
         n = Len(pollTable) /\ DOMAIN pollTable = 1 .. n /\ q = Len(queued) /\ DOMAIN queued = 1 .. q
  BY <1>1 DEF Polls!TypeOK
<1>3. UNCHANGED <<column, pollTable, device, pollClock, pollChanges, pollFaults>>
  BY DEF Polls!Enqueue
<1>4. PICK taken \in Seq(Nat) : taken = poll.rows /\ poll.phase = "archiving"
  BY <1>1 DEF Polls!TypeOK, Polls!Turn, Polls!Enqueue
<1>5. PICK m \in Nat : m = Len(taken) /\ DOMAIN taken = 1 .. m /\ m # 0
  BY <1>1, <1>4 DEF Polls!ReadInv
<1>6. /\ 1 \in 1 .. m /\ m \in 1 .. m /\ Polls!Last(taken) = taken[m]
      /\ Polls!Range(taken) \subseteq 1 .. n /\ \A i \in 1 .. m : taken[i] \in 1 .. n
      /\ Polls!FirstIsNew(taken[1]) /\ Polls!Increasing(taken)
  <2>1. Polls!Range(taken) \subseteq 1 .. n /\ Polls!FirstIsNew(taken[1]) /\ Polls!Increasing(taken)
    BY <1>1, <1>2, <1>4, <1>5 DEF Polls!ReadInv
  <2>2. 1 \in 1 .. m /\ m \in 1 .. m /\ Polls!Last(taken) = taken[m]
    BY <1>5 DEF Polls!Last
  <2>3. \A i \in 1 .. m : taken[i] \in Polls!Range(taken)
    BY <1>5 DEF Polls!Range
  <2> QED BY <2>1, <2>2, <2>3
<1>7. PICK after \in PollKey, batch \in Polls!Batch :
         /\ after = Polls!Stored(Polls!Last(taken))
         /\ batch = [of |-> "postgres", rows |-> Polls!Range(taken), after |-> after]
  <2>1. Polls!Stored(Polls!Last(taken)) \in PollKey /\ Polls!Range(taken) \subseteq Nat
    BY <1>1, <1>2, <1>6, PollsRowFacts
  <2> QED BY <2>1 DEF Polls!Batch
<1>8. /\ queued' = Append(queued, batch)
      /\ checkpoint' = [checkpoint EXCEPT !.postgres = after]
      /\ Polls!Over
  BY <1>4, <1>7 DEF Polls!Enqueue
<1>9. /\ queued' \in Seq(Polls!Batch) /\ DOMAIN queued' = 1 .. q + 1 /\ queued'[q + 1] = batch
      /\ \A i \in 1 .. q : queued'[i] = queued[i]
  BY <1>1, <1>2, <1>8 DEF Polls!TypeOK
<1>10. /\ checkpoint'.postgres = after /\ checkpoint'.opcua = checkpoint.opcua
       /\ checkpoint' \in [postgres : PollKey \cup {Null}, opcua : Polls!Points]
       /\ after # Null
  BY <1>1, <1>8, CatalogPlaneAssumptions DEF Polls!TypeOK, Polls!EdgeConnectorsAssumption
<1>11. poll' \in Polls!Turn /\ poll'.phase = "idle"
  BY <1>1, <1>8, PollsOverIdle
<1>12. Polls!TypeOK'
  BY <1>1, <1>3, <1>9, <1>10, <1>11 DEF Polls!TypeOK
<1>13. Polls!ReadInv' /\ Polls!PointsInv'
  BY <1>11 DEF Polls!ReadInv, Polls!PointsInv
<1>14. \A k \in PollKey : Polls!Rank(k) \in Int /\ Polls!Rank(k)' = Polls!Rank(k)
  BY <1>1, <1>3, PollsRankType DEF Polls!Rank
<1>15. \A r \in 1 .. n : Polls!Stored(r) \in PollKey /\ Polls!Stored(r)' = Polls!Stored(r)
  BY <1>1, <1>2, <1>3, PollsRowFacts DEF Polls!Stored
\* What is read lies beyond the checkpoint, and no further than the new one.
<1>16. ASSUME NEW i \in 1 .. m
       PROVE  /\ Polls!Rank(Polls!Stored(taken[i])) <= Polls!Rank(after)
              /\ checkpoint.postgres # Null => Polls!Rank(checkpoint.postgres) < Polls!Rank(Polls!Stored(taken[i]))
  <2>1. Polls!Range(taken) \subseteq DOMAIN pollTable
    BY <1>2, <1>6
  <2>2. i \in DOMAIN taken /\ m \in DOMAIN taken /\ 1 \in DOMAIN taken /\ i <= m /\ 1 <= i
    BY <1>5, <1>6
  <2>3. Polls!Rank(Polls!Stored(taken[i])) <= Polls!Rank(Polls!Stored(taken[m]))
    BY <1>1, <1>6, <2>1, <2>2, PollsIncreasingOnwards
  <2>4. Polls!Rank(Polls!Stored(taken[1])) <= Polls!Rank(Polls!Stored(taken[i]))
    BY <1>1, <1>6, <2>1, <2>2, PollsIncreasingOnwards
  <2>5. Polls!Rank(Polls!Stored(taken[1])) \in Int /\ Polls!Rank(Polls!Stored(taken[i])) \in Int
    BY <1>6, <1>14, <1>15
  <2>6. checkpoint.postgres # Null =>
           /\ Polls!Rank(Polls!Stored(taken[1])) > Polls!Rank(checkpoint.postgres) /\ Polls!Rank(checkpoint.postgres) \in Int
    BY <1>1, <1>6, <1>14 DEF Polls!FirstIsNew, Polls!TypeOK
  <2>7. Polls!Rank(Polls!Stored(taken[i])) <= Polls!Rank(after)
    BY <1>6, <1>7, <2>3
  <2> QED BY <2>4, <2>5, <2>6, <2>7
<1>17. /\ Polls!Rank(after) \in Int
       /\ checkpoint.postgres # Null =>
             Polls!Rank(checkpoint.postgres) < Polls!Rank(after) /\ Polls!Rank(checkpoint.postgres) \in Int
  <2>1. Polls!Rank(Polls!Stored(taken[1])) \in Int
    BY <1>6, <1>14, <1>15
  <2>2. checkpoint.postgres # Null => checkpoint.postgres \in PollKey
    BY <1>1 DEF Polls!TypeOK
  <2>3. Polls!Rank(after) \in Int
    BY <1>14
  <2>4. checkpoint.postgres # Null => Polls!Rank(checkpoint.postgres) \in Int
    BY <1>14, <2>2
  <2>5. /\ Polls!Rank(Polls!Stored(taken[1])) <= Polls!Rank(after)
        /\ checkpoint.postgres # Null => Polls!Rank(checkpoint.postgres) < Polls!Rank(Polls!Stored(taken[1]))
    BY <1>6, <1>16
  <2> QED BY <2>1, <2>3, <2>4, <2>5
\* A batch that was there ends before the checkpoint that was.
<1>18. ASSUME NEW i \in 1 .. q, queued[i].of = "postgres"
       PROVE  /\ queued[i].rows \subseteq 1 .. n /\ queued[i].after \in PollKey
              /\ \A r \in queued[i].rows : Polls!Rank(Polls!Stored(r)) <= Polls!Rank(queued[i].after)
              /\ checkpoint.postgres # Null
              /\ Polls!Rank(queued[i].after) <= Polls!Rank(checkpoint.postgres)
  <2>1. queued[i] \in Polls!Batch
    BY <1>1, <1>2 DEF Polls!TypeOK
  <2>2. queued[i].after \in PollKey
    BY <1>18, <2>1 DEF Polls!Batch
  <2> QED BY <1>1, <1>2, <1>18, <2>2 DEF Polls!BatchesInv
<1>19. Polls!BatchesInv'
  <2> SUFFICES ASSUME NEW i \in 1 .. q + 1, queued'[i].of = "postgres"
               PROVE  /\ queued'[i].rows \subseteq 1 .. n
                      /\ \A r \in queued'[i].rows : Polls!Rank(Polls!Stored(r)) <= Polls!Rank(queued'[i].after)
                      /\ Polls!Rank(queued'[i].after) <= Polls!Rank(after)
    BY <1>2, <1>3, <1>9, <1>10 DEF Polls!BatchesInv, Polls!Rank, Polls!Stored
  <2>1. CASE i = q + 1
    <3>1. queued'[i].rows = Polls!Range(taken) /\ queued'[i].after = after
      BY <1>7, <1>9, <2>1
    <3>2. ASSUME NEW r \in Polls!Range(taken)
          PROVE  Polls!Rank(Polls!Stored(r)) <= Polls!Rank(after)
      <4>1. PICK j \in 1 .. m : r = taken[j]
        BY <1>5 DEF Polls!Range
      <4> QED BY <1>16, <4>1
    <3>3. Polls!Rank(after) <= Polls!Rank(after)
      BY <1>17
    <3> QED BY <1>6, <3>1, <3>2, <3>3
  <2>2. CASE i \in 1 .. q
    <3>1. queued'[i] = queued[i] /\ queued[i].of = "postgres"
      BY <1>9, <2>2
    <3>2. /\ queued[i].rows \subseteq 1 .. n /\ queued[i].after \in PollKey
          /\ \A r \in queued[i].rows : Polls!Rank(Polls!Stored(r)) <= Polls!Rank(queued[i].after)
          /\ checkpoint.postgres # Null
          /\ Polls!Rank(queued[i].after) <= Polls!Rank(checkpoint.postgres)
      BY <1>18, <2>2, <3>1
    <3>3. Polls!Rank(queued[i].after) \in Int /\ Polls!Rank(checkpoint.postgres) \in Int
      BY <1>14, <1>17, <3>2
    <3>4. Polls!Rank(queued[i].after) <= Polls!Rank(after)
      BY <1>17, <3>2, <3>3
    <3> QED BY <3>1, <3>2, <3>4
  <2> QED BY <2>1, <2>2
<1>20. ASSUME NEW i \in 1 .. q, queued[i].of = "postgres"
       PROVE  queued[i].rows \cap Polls!Range(taken) = {} /\ queued[i].after # after
  <2>1. /\ queued[i].rows \subseteq 1 .. n /\ queued[i].after \in PollKey
        /\ \A r \in queued[i].rows : Polls!Rank(Polls!Stored(r)) <= Polls!Rank(queued[i].after)
        /\ checkpoint.postgres # Null /\ Polls!Rank(queued[i].after) <= Polls!Rank(checkpoint.postgres)
    BY <1>18, <1>20
  <2>2. Polls!Rank(queued[i].after) \in Int /\ Polls!Rank(checkpoint.postgres) \in Int
    BY <1>14, <1>17, <2>1
  <2>3. ASSUME NEW r \in queued[i].rows, r \in Polls!Range(taken) PROVE FALSE
    <3>1. PICK j \in 1 .. m : r = taken[j]
      BY <1>5, <2>3 DEF Polls!Range
    <3>2. Polls!Rank(checkpoint.postgres) < Polls!Rank(Polls!Stored(r))
      BY <1>16, <2>1, <3>1
    <3>3. Polls!Rank(Polls!Stored(r)) \in Int /\ Polls!Rank(Polls!Stored(r)) <= Polls!Rank(queued[i].after)
      BY <1>14, <1>15, <2>1
    <3> QED BY <2>1, <2>2, <3>2, <3>3
  <2>4. queued[i].after # after
    BY <1>17, <2>1, <2>2
  <2> QED BY <2>3, <2>4
<1>21. Polls!RowsAreCollectedOnce'
  <2> SUFFICES ASSUME NEW i \in 1 .. q + 1, NEW j \in 1 .. q + 1, i # j
               PROVE  /\ Polls!QueuedIn(i)' \cap Polls!QueuedIn(j)' = {}
                      /\ queued'[i].of = "postgres" /\ queued'[j].of = "postgres"
                            => queued'[i].after # queued'[j].after
    BY <1>9 DEF Polls!RowsAreCollectedOnce
  <2>1. \A p \in 1 .. q : Polls!QueuedIn(p)' = Polls!QueuedIn(p)
    BY <1>9 DEF Polls!QueuedIn
  <2>2. Polls!QueuedIn(q + 1)' = Polls!Range(taken) /\ queued'[q + 1].after = after
    BY <1>7, <1>9 DEF Polls!QueuedIn
  <2>3. \A p \in 1 .. q : Polls!QueuedIn(p) \cap Polls!Range(taken) = {}
    BY <1>20 DEF Polls!QueuedIn
  <2>4. CASE i \in 1 .. q /\ j \in 1 .. q
    <3>1. queued'[i] = queued[i] /\ queued'[j] = queued[j]
      BY <1>9, <2>4
    <3>2. Polls!QueuedIn(i)' = Polls!QueuedIn(i) /\ Polls!QueuedIn(j)' = Polls!QueuedIn(j)
      BY <2>1, <2>4
    <3>3. /\ Polls!QueuedIn(i) \cap Polls!QueuedIn(j) = {}
          /\ queued[i].of = "postgres" /\ queued[j].of = "postgres"
                => queued[i].after # queued[j].after
      BY <1>2, <2>4 DEF Polls!PollsInv, Polls!RowsAreCollectedOnce
    <3> QED BY <3>1, <3>2, <3>3
  <2>5. CASE i \in 1 .. q /\ j = q + 1
    BY <1>9, <1>20, <2>1, <2>2, <2>3, <2>5
  <2>6. CASE i = q + 1 /\ j \in 1 .. q
    BY <1>9, <1>20, <2>1, <2>2, <2>3, <2>6
  <2> QED BY <2>4, <2>5, <2>6
<1>22. Polls!Collected' = Polls!Collected \cup Polls!Range(taken)
  <2>1. \A p \in 1 .. q : Polls!QueuedIn(p)' = Polls!QueuedIn(p)
    BY <1>9 DEF Polls!QueuedIn
  <2>2. Polls!QueuedIn(q + 1)' = Polls!Range(taken)
    BY <1>7, <1>9 DEF Polls!QueuedIn
  <2>3. DOMAIN queued' = DOMAIN queued \cup {q + 1}
    BY <1>2, <1>9
  <2> QED BY <1>2, <2>1, <2>2, <2>3 DEF Polls!Collected
<1>23. Polls!PassedRowsAreKnown'
  <2> SUFFICES ASSUME NEW r \in 1 .. n, r \notin Polls!Wanted', r \notin Polls!Collected, r \notin Polls!Range(taken),
                      ~pollTable[r].late
               PROVE  \E s \in Polls!Collected \cup Polls!Range(taken) : pollTable[s].key = pollTable[r].key
    BY <1>2, <1>3, <1>22 DEF Polls!PassedRowsAreKnown
  <2>1. pollTable[r].key \in Int /\ ~(pollTable[r].key > after) /\ after \in Int
    BY <1>1, <1>2, <1>3, <1>10, PollsRowFacts, CatalogPlaneAssumptions DEF Polls!Wanted,
       Polls!EdgeConnectorsAssumption
  <2>2. CASE r \notin Polls!Wanted
    <3>1. checkpoint.postgres # Null
      BY <1>2, <2>2 DEF Polls!Wanted
    <3> QED BY <1>2, <2>2, <3>1 DEF Polls!PollsInv, Polls!PassedRowsAreKnown
  <2>3. CASE r \in Polls!Wanted
    <3>1. pollTable[taken[m]].key <= pollTable[r].key
      BY <1>1, <1>4, <1>6, <2>3 DEF Polls!ReadInv
    <3>2. after <= pollTable[taken[m]].key /\ pollTable[taken[m]].key \in Int
      BY <1>1, <1>2, <1>6, <1>7, PollsRowFacts
    <3>3. pollTable[taken[m]].key = pollTable[r].key
      BY <2>1, <3>1, <3>2
    <3>4. taken[m] \in Polls!Range(taken)
      BY <1>5, <1>6 DEF Polls!Range
    <3> QED BY <3>3, <3>4
  <2> QED BY <2>2, <2>3
<1>24. Polls!TimesGoUp'
  <2>1. {i \in DOMAIN queued' : queued'[i].of = "opcua"} = {i \in DOMAIN queued : queued[i].of = "opcua"}
    BY <1>2, <1>7, <1>9
  <2>2. \A i \in {i \in DOMAIN queued : queued[i].of = "opcua"} : queued'[i] = queued[i]
    BY <1>2, <1>9
  <2> QED BY <1>10, <2>1, <2>2 DEF Polls!PollsInv, Polls!TimesGoUp, Polls!Seen
<1> QED BY <1>12, <1>13, <1>19, <1>21, <1>23, <1>24 DEF Polls!PollsInv

LEMMA PollsEnqueuePointsInv ==
    ASSUME Polls!PollsInv, Polls!Enqueue, poll.of # "postgres" PROVE Polls!PollsInv'
<1>1. Polls!TypeOK /\ Polls!PointsInv /\ Polls!BatchesInv /\ Polls!TimesGoUp
  BY DEF Polls!PollsInv
<1>2. PICK q \in Nat : q = Len(queued) /\ DOMAIN queued = 1 .. q
  BY <1>1 DEF Polls!TypeOK
<1>3. UNCHANGED <<column, pollTable, device, pollClock, pollChanges, pollFaults>>
  BY DEF Polls!Enqueue
<1>4. PICK points \in Polls!Points : points = poll.points /\ poll.of = "opcua" /\ poll.phase = "archiving"
  BY <1>1 DEF Polls!TypeOK, Polls!Turn, Polls!Enqueue
<1>5. PICK batch \in Polls!Batch : batch = [of |-> "opcua", points |-> points]
  BY DEF Polls!Batch
<1>6. /\ queued' = Append(queued, batch)
      /\ checkpoint' = [checkpoint EXCEPT !.opcua = Polls!Joined(checkpoint.opcua, points)]
      /\ Polls!Over
  BY <1>4, <1>5 DEF Polls!Enqueue
<1>7. /\ queued' \in Seq(Polls!Batch) /\ DOMAIN queued' = 1 .. q + 1 /\ queued'[q + 1] = batch
      /\ \A i \in 1 .. q : queued'[i] = queued[i]
  BY <1>1, <1>2, <1>6 DEF Polls!TypeOK
<1>8. PICK old \in Polls!Points, new \in {Polls!Joined(checkpoint.opcua, points)} :
         old = checkpoint.opcua /\ new = Polls!Joined(old, points)
  BY <1>1 DEF Polls!TypeOK
<1>9. /\ DOMAIN new = DOMAIN points \cup DOMAIN old
      /\ \A n \in DOMAIN new : new[n] = IF n \in DOMAIN points THEN points[n] ELSE old[n]
  BY <1>8 DEF Polls!Joined
<1>10. /\ DOMAIN points \subseteq Node /\ DOMAIN old \subseteq Node
       /\ \A n \in DOMAIN points : points[n] \in Time
       /\ \A n \in DOMAIN old : old[n] \in Time
  BY DEF Polls!Points
<1>11. new \in Polls!Points
  <2>1. new = [n \in DOMAIN new |-> new[n]]
    BY <1>8 DEF Polls!Joined
  <2>2. \A n \in DOMAIN new : new[n] \in Time
    BY <1>9, <1>10
  <2>3. new \in [DOMAIN new -> Time] /\ DOMAIN new \in SUBSET Node
    BY <1>9, <1>10, <2>1, <2>2
  <2> QED BY <2>3 DEF Polls!Points
<1>12. /\ checkpoint'.opcua = new /\ checkpoint'.postgres = checkpoint.postgres
       /\ checkpoint' \in [postgres : PollKey \cup {Null}, opcua : Polls!Points]
  BY <1>1, <1>6, <1>8, <1>11 DEF Polls!TypeOK
<1>13. poll' \in Polls!Turn /\ poll'.phase = "idle"
  BY <1>1, <1>6, PollsOverIdle
<1>14. Polls!TypeOK'
  BY <1>1, <1>3, <1>7, <1>12, <1>13 DEF Polls!TypeOK
<1>15. Polls!ReadInv' /\ Polls!PointsInv'
  BY <1>13 DEF Polls!ReadInv, Polls!PointsInv
<1>16. queued'[q + 1].of = "opcua" /\ queued'[q + 1].points = points
  BY <1>5, <1>7
<1>17. Polls!BatchesInv'
  BY <1>1, <1>2, <1>3, <1>7, <1>12, <1>16 DEF Polls!BatchesInv, Polls!Stored, Polls!Rank
<1>18. /\ \A i \in 1 .. q : Polls!QueuedIn(i)' = Polls!QueuedIn(i)
       /\ Polls!QueuedIn(q + 1)' = {}
  BY <1>7, <1>16 DEF Polls!QueuedIn
<1>19. Polls!RowsAreCollectedOnce'
  <2> SUFFICES ASSUME NEW i \in 1 .. q + 1, NEW j \in 1 .. q + 1, i # j
               PROVE  /\ Polls!QueuedIn(i)' \cap Polls!QueuedIn(j)' = {}
                      /\ queued'[i].of = "postgres" /\ queued'[j].of = "postgres"
                            => queued'[i].after # queued'[j].after
    BY <1>7 DEF Polls!RowsAreCollectedOnce
  <2>1. CASE i \in 1 .. q /\ j \in 1 .. q
    <3>1. queued'[i] = queued[i] /\ queued'[j] = queued[j]
      BY <1>7, <2>1
    <3>2. Polls!QueuedIn(i)' = Polls!QueuedIn(i) /\ Polls!QueuedIn(j)' = Polls!QueuedIn(j)
      BY <1>18, <2>1
    <3>3. /\ Polls!QueuedIn(i) \cap Polls!QueuedIn(j) = {}
          /\ queued[i].of = "postgres" /\ queued[j].of = "postgres"
                => queued[i].after # queued[j].after
      BY <1>2, <2>1 DEF Polls!PollsInv, Polls!RowsAreCollectedOnce
    <3> QED BY <3>1, <3>2, <3>3
  <2>2. CASE i = q + 1 \/ j = q + 1
    BY <1>16, <1>18, <2>2
  <2> QED BY <2>1, <2>2
<1>20. Polls!PassedRowsAreKnown'
  <2>1. DOMAIN queued' = DOMAIN queued \cup {q + 1}
    BY <1>2, <1>7
  <2>2. Polls!Collected' = Polls!Collected
    BY <1>2, <1>18, <2>1 DEF Polls!Collected
  <2>3. Polls!Wanted' = Polls!Wanted
    BY <1>3, <1>12 DEF Polls!Wanted
  <2> QED BY <1>3, <1>12, <2>2, <2>3 DEF Polls!PollsInv, Polls!PassedRowsAreKnown
<1>21. Polls!TimesGoUp'
  <2> DEFINE With(n) == {i \in 1 .. q : queued[i].of = "opcua" /\ n \in DOMAIN queued[i].points}
             With2(n) == {i \in 1 .. q + 1 : queued'[i].of = "opcua" /\ n \in DOMAIN queued'[i].points}
  <2>1. ASSUME NEW n \in Node
        PROVE  /\ \A i, j \in With(n) : i < j => queued[i].points[n] < queued[j].points[n]
               /\ n \in DOMAIN old <=> With(n) # {}
               /\ \A i \in With(n) : queued[i].points[n] <= old[n]
    <3>1. With(n) = {i \in {k \in DOMAIN queued : queued[k].of = "opcua"} :
                       n \in DOMAIN queued[i].points}
      BY <1>2
    <3> HIDE DEF With
    <3> QED BY <1>1, <1>8, <3>1 DEF Polls!TimesGoUp, Polls!Seen
  <2>2. ASSUME NEW n \in Node, n \in DOMAIN points, n \in DOMAIN old PROVE points[n] > old[n]
    BY <1>1, <1>4, <1>8, <2>2 DEF Polls!PointsInv, Polls!Seen
  <2>3. ASSUME NEW n \in Node
        PROVE  /\ With2(n) = IF n \in DOMAIN points THEN With(n) \cup {q + 1} ELSE With(n)
               /\ \A i \in With(n) : queued'[i].points[n] = queued[i].points[n] /\ i \in 1 .. q
               /\ queued'[q + 1].points[n] = points[n]
    <3>1. \A i \in 1 .. q : queued'[i] = queued[i]
      BY <1>7
    <3> QED BY <1>16, <3>1
  <2>4. ASSUME NEW n \in Node, NEW i \in With(n)
        PROVE  queued[i].points[n] \in Nat /\ old[n] \in Nat /\ n \in DOMAIN old
    <3>1. queued[i] \in Polls!Batch
      BY <1>1, <1>2 DEF Polls!TypeOK
    <3>2. queued[i].points \in Polls!Points /\ n \in DOMAIN queued[i].points
      BY <3>1 DEF Polls!Batch
    <3>3. queued[i].points[n] \in Time
      BY <3>2 DEF Polls!Points
    <3>4. n \in DOMAIN old
      BY <2>1
    <3> QED BY <1>10, <3>3, <3>4, CatalogPlaneAssumptions DEF Polls!EdgeConnectorsAssumption
  <2>5. \A n \in DOMAIN points : points[n] \in Nat
    BY <1>10, CatalogPlaneAssumptions DEF Polls!EdgeConnectorsAssumption
  <2> HIDE DEF With, With2
  <2>6. ASSUME NEW n \in Node
        PROVE  /\ \A i, j \in With2(n) : i < j => queued'[i].points[n] < queued'[j].points[n]
               /\ n \in DOMAIN new <=> With2(n) # {}
               /\ \A i \in With2(n) : queued'[i].points[n] <= new[n]
    <3>1. CASE n \notin DOMAIN points
      BY <1>9, <2>1, <2>3, <3>1
    <3>2. CASE n \in DOMAIN points
      <4>1. new[n] = points[n] /\ n \in DOMAIN new /\ points[n] \in Nat
        BY <1>9, <2>5, <3>2
      <4>2. With2(n) = With(n) \cup {q + 1}
        BY <2>3, <3>2
      <4>3. ASSUME NEW i \in With(n) PROVE queued'[i].points[n] < points[n]
        BY <2>1, <2>2, <2>3, <2>4, <3>2, <4>1
      <4>4. ASSUME NEW i \in With2(n), NEW j \in With2(n), i < j
            PROVE  queued'[i].points[n] < queued'[j].points[n]
        <5>1. i \in With(n) /\ i \in 1 .. q
          BY <2>3, <4>2, <4>4
        <5>2. CASE j \in With(n)
          BY <2>1, <2>3, <4>4, <5>1, <5>2
        <5>3. CASE j = q + 1
          BY <2>3, <4>3, <5>1, <5>3
        <5> QED BY <4>2, <5>2, <5>3
      <4>5. ASSUME NEW i \in With2(n) PROVE queued'[i].points[n] <= new[n]
        <5>1. CASE i \in With(n)
          <6>1. queued'[i].points[n] \in Nat
            BY <2>3, <2>4, <5>1
          <6> QED BY <4>1, <4>3, <5>1, <6>1
        <5>2. CASE i = q + 1
          BY <2>3, <4>1, <5>2
        <5> QED BY <4>2, <5>1, <5>2
      <4> QED BY <4>1, <4>2, <4>4, <4>5
    <3> QED BY <3>1, <3>2
  <2>7. ASSUME NEW n \in Node
        PROVE  With2(n) = {i \in {k \in DOMAIN queued' : queued'[k].of = "opcua"} :
                             n \in DOMAIN queued'[i].points}
    BY <1>7 DEF With2
  <2> QED BY <1>12, <2>6, <2>7 DEF Polls!TimesGoUp, Polls!Seen
<1> QED BY <1>14, <1>15, <1>17, <1>19, <1>20, <1>21 DEF Polls!PollsInv

-----------------------------------------------------------------------------
LEMMA PollsInit == Polls!Init => Polls!PollsInv
<1> SUFFICES ASSUME Polls!Init PROVE Polls!PollsInv
  OBVIOUS
<1>1. <<>> \in Polls!Points
  <2>1. <<>> \in [{} -> Time] /\ {} \in SUBSET Node
    OBVIOUS
  <2> QED BY <2>1 DEF Polls!Points
<1>2. poll \in Polls!Turn /\ poll.phase = "idle"
  BY PollsIdleIsTurn DEF Polls!Init, Polls!Connector
<1>3. Polls!TypeOK
  BY <1>1, <1>2, CatalogPlaneAssumptions DEF Polls!Init, Polls!TypeOK,
     Polls!EdgeConnectorsAssumption
<1>4. Polls!BatchesInv /\ Polls!ReadInv /\ Polls!PointsInv
  BY <1>2 DEF Polls!Init, Polls!BatchesInv, Polls!ReadInv, Polls!PointsInv
<1>5. Polls!RowsAreCollectedOnce /\ Polls!PassedRowsAreKnown /\ Polls!TimesGoUp
  BY DEF Polls!Init, Polls!RowsAreCollectedOnce, Polls!PassedRowsAreKnown, Polls!TimesGoUp,
     Polls!Seen
<1> QED BY <1>3, <1>4, <1>5 DEF Polls!PollsInv

LEMMA PollsStep == ASSUME Polls!PollsInv, Polls!Next \/ UNCHANGED Polls!vars PROVE Polls!PollsInv'
<1>1. CASE \E k \in PollKey, usable \in BOOLEAN : Polls!Commit(k, usable)
  BY <1>1, PollsCommitInv
<1>2. CASE \E n \in Node, v \in Value : Polls!Measure(n, v)
  BY <1>2, PollsMeasureInv
<1>3. CASE \E t \in Time : Polls!SetClock(t)
  BY <1>3, PollsClockInv
<1>4. CASE Polls!Start \/ Polls!Query \/ Polls!Accept \/ Polls!ReadNodes \/ Polls!Lose
  BY <1>4, PollsStartInv, PollsQueryInv, PollsAcceptInv, PollsReadNodesInv, PollsLoseInv
<1>5. CASE Polls!Enqueue
  BY <1>5, PollsEnqueueRowsInv, PollsEnqueuePointsInv
<1>6. CASE UNCHANGED Polls!vars
  <2>1. Polls!TypeOK' /\ Polls!ReadInv' /\ Polls!PointsInv'
    BY <1>6 DEF Polls!PollsInv, Polls!TypeOK, Polls!ReadInv, Polls!PointsInv, Polls!vars,
       Polls!FirstIsNew, Polls!Increasing, Polls!Stored, Polls!Rank,
                Polls!Wanted, Polls!Seen
  <2> QED BY <1>6, <2>1, PollsQuiet DEF Polls!vars
<1> QED BY <1>1, <1>2, <1>3, <1>4, <1>5, <1>6 DEF Polls!Next

(***************************************************************************)
(* For any table, any column, however it is stored and ranked, any devices *)
(* and clocks and any size of a batch: a row is queued once, a row that    *)
(* was passed is in a batch unless it came too late or ties with one, and  *)
(* the times of a node go up (PostgresConnector.poll, OpcUaConnector.poll).*)
(***************************************************************************)
THEOREM PollsStayExact == CatalogPlaneSpec => []PollsCollectOnce
<1> DEFINE I == catalogPart = "polls" => Polls!PollsInv
<1>1. CatalogPlaneInit => I
  BY PollsInit DEF CatalogPlaneInit
<1>2. I /\ [CatalogPlaneNext]_catalogPlaneVars => I'
  <2> SUFFICES ASSUME I, [CatalogPlaneNext]_catalogPlaneVars, catalogPart' = "polls"
               PROVE  Polls!PollsInv'
    OBVIOUS
  <2>1. catalogPart = "polls" /\ Polls!PollsInv
    BY DEF CatalogPlaneNext, catalogPlaneVars
  <2>2. Polls!Next \/ UNCHANGED Polls!vars
    BY <2>1 DEF CatalogPlaneNext, catalogPlaneVars, pollsVars, Polls!vars
  <2> QED BY <2>1, <2>2, PollsStep
<1>3. I => PollsCollectOnce
  BY DEF PollsCollectOnce, Polls!PollsInv
<1> QED BY <1>1, <1>2, <1>3, PTL DEF CatalogPlaneSpec

-----------------------------------------------------------------------------
(* A document that is indexed: the index has its title, and a mirror that  *)
(* is still used has it too.                                               *)
LEMMA RegistryUpsertFacts ==
    ASSUME Registry!RegistryInv, NEW d \in Registry!Doc, NEW title \in Title, Registry!Upsert(d,
           title)
    PROVE  /\ index' \in [Registry!Doc -> Title \cup {NoEntry}] /\ mirror' \subseteq Registry!Doc \X Title
           /\ fts' \in BOOLEAN
           /\ index'[d] = title /\ \A e \in Registry!Doc \ {d} : index'[e] = index[e]
           /\ Registry!MirrorFollows'
<1>1. /\ index \in [Registry!Doc -> Title \cup {NoEntry}] /\ mirror \subseteq Registry!Doc \X Title
      /\ fts \in BOOLEAN /\ NoEntry \notin Title
  BY CatalogPlaneAssumptions DEF Registry!RegistryInv, Registry!TypeOK,
     Registry!LocalCatalogAssumption
<1>2. index' = [index EXCEPT ![d] = title]
  BY DEF Registry!Upsert
<1>3. /\ index' \in [Registry!Doc -> Title \cup {NoEntry}]
      /\ index'[d] = title /\ \A e \in Registry!Doc \ {d} : index'[e] = index[e]
  BY <1>1, <1>2
<1>4. /\ mirror' \subseteq Registry!Doc \X Title /\ fts' \in BOOLEAN
      /\ fts' => fts /\ mirror' = (mirror \ Registry!Of(d)) \cup {<<d, title>>}
  <2>1. Registry!Of(d) \subseteq Registry!Doc \X Title /\ {<<d, title>>} \subseteq Registry!Doc \X Title
    BY DEF Registry!Of
  <2>2. mirror' \in {mirror, mirror \ Registry!Of(d), (mirror \ Registry!Of(d)) \cup {<<d, title>>}}
    BY DEF Registry!Upsert
  <2>3. mirror' \subseteq Registry!Doc \X Title
    BY <1>1, <2>1, <2>2
  <2>4. fts' \in BOOLEAN /\ (fts' => fts /\ mirror' = (mirror \ Registry!Of(d)) \cup {<<d, title>>})
    <3>1. CASE ~fts /\ UNCHANGED <<mirror, fts>>
      <4>1. fts = FALSE
        BY <1>1, <3>1, Zenon
      <4>2. fts' = FALSE
        BY <3>1, <4>1
      <4> QED BY <4>2
    <3>2. CASE fts /\ mirror' = (mirror \ Registry!Of(d)) \cup {<<d, title>>} /\ UNCHANGED fts
      BY <1>1, <3>2, Zenon
    <3>3. CASE fts' = FALSE
      BY <3>3
    <3> QED BY <3>1, <3>2, <3>3 DEF Registry!Upsert
  <2> QED BY <2>3, <2>4
<1>5. Registry!MirrorFollows'
  <2> SUFFICES ASSUME fts' PROVE mirror' = Registry!Copy(index')
    BY DEF Registry!MirrorFollows
  <2>1. mirror = {<<e, index[e]>> : e \in {x \in Registry!Doc : index[x] # NoEntry}}
    BY <1>4 DEF Registry!RegistryInv, Registry!MirrorFollows, Registry!Copy
  <2>2. mirror' = (mirror \ ({d} \X Title)) \cup {<<d, title>>}
    BY <1>4 DEF Registry!Of
  <2>3. mirror' = {<<e, index'[e]>> : e \in {x \in Registry!Doc : index'[x] # NoEntry}}
    <3>1. ASSUME NEW p \in mirror'
          PROVE  \E e \in Registry!Doc : index'[e] # NoEntry /\ p = <<e, index'[e]>>
      <4>1. CASE p = <<d, title>>
        BY <1>1, <1>3, <4>1
      <4>2. CASE p \in mirror /\ p \notin {d} \X Title
        <5>1. PICK e \in Registry!Doc : index[e] # NoEntry /\ p = <<e, index[e]>>
          BY <2>1, <4>2
        <5>2. e # d
          BY <1>1, <4>2, <5>1
        <5> QED BY <1>3, <5>1, <5>2
      <4> QED BY <2>2, <3>1, <4>1, <4>2
    <3>2. ASSUME NEW e \in Registry!Doc, index'[e] # NoEntry PROVE <<e, index'[e]>> \in mirror'
      <4>1. CASE e = d
        BY <1>3, <2>2, <4>1
      <4>2. CASE e # d
        <5>1. index'[e] = index[e] /\ <<e, index[e]>> \in mirror
          BY <1>3, <2>1, <3>2, <4>2
        <5>2. <<e, index[e]>> \notin {d} \X Title
          BY <4>2
        <5> QED BY <2>2, <5>1, <5>2
      <4> QED BY <4>1, <4>2
    <3> QED BY <3>1, <3>2
  <2> QED BY <2>3 DEF Registry!Copy
<1> QED BY <1>3, <1>4, <1>5

(* What does not concern the owners keeps one.                             *)
LEMMA RegistryInitInv == Registry!Init => Registry!RegistryInv
<1> SUFFICES ASSUME Registry!Init PROVE Registry!RegistryInv
  OBVIOUS
<1>1. /\ NoEntry \notin Title \cup Registry!Role \cup Registry!Verdict /\ MaxSteps \in Nat
      /\ DOMAIN Seed \subseteq RegistryUser /\ (\A u \in DOMAIN Seed : Seed[u] \in Registry!Role)
      /\ DOMAIN Seed # {} => \E u \in DOMAIN Seed : Seed[u] = "owner"
  BY CatalogPlaneAssumptions DEF Registry!LocalCatalogAssumption
<1>2. registryRole \in [RegistryUser -> Registry!Role \cup {NoEntry}] /\ Registry!OwnerRemains
  <2>1. CASE DOMAIN Seed = {}
    <3>1. PICK creator \in RegistryUser : registryRole = [u \in RegistryUser |-> IF u = creator THEN "owner" ELSE NoEntry]
      BY <2>1 DEF Registry!Init
    <3> QED BY <3>1 DEF Registry!OwnerRemains, Registry!Role
  <2>2. CASE DOMAIN Seed # {}
    <3>1. registryRole = [u \in RegistryUser |-> IF [x \in RegistryUser |-> NoEntry][u] = NoEntry /\ u \in DOMAIN Seed
                                 THEN Seed[u] ELSE [x \in RegistryUser |-> NoEntry][u]]
      BY <2>2 DEF Registry!Init, Registry!Seeded
    <3>2. \A u \in RegistryUser : registryRole[u] = IF u \in DOMAIN Seed THEN Seed[u] ELSE NoEntry
      BY <3>1
    <3> QED BY <1>1, <2>2, <3>1, <3>2 DEF Registry!OwnerRemains
  <2> QED BY <2>1, <2>2
<1>3. [a \in {} |-> NoEntry] \in Registry!Names
  BY DEF Registry!Names
<1>4. Registry!TypeOK
  BY <1>1, <1>2, <1>3 DEF Registry!Init, Registry!TypeOK
<1>5. Registry!MirrorFollows
  BY DEF Registry!Init, Registry!MirrorFollows, Registry!Copy
<1>6. Registry!IndexFollows
  BY DEF Registry!Init, Registry!IndexFollows
<1>7. Registry!AnswersFollow
  BY DEF Registry!Init, Registry!AnswersFollow
<1> QED BY <1>2, <1>4, <1>5, <1>6, <1>7 DEF Registry!RegistryInv

LEMMA RegistryStepType == ASSUME Registry!TypeOK, Registry!Step PROVE steps' \in 0 .. MaxSteps
  BY CatalogPlaneAssumptions DEF Registry!TypeOK, Registry!Step, Registry!LocalCatalogAssumption

-----------------------------------------------------------------------------
(* Resources.                                                              *)
LEMMA RegistryCreateInv ==
    ASSUME Registry!RegistryInv, NEW user, NEW e \in Entry, NEW title \in Title,
           Registry!Create(user, e, title)
    PROVE  Registry!RegistryInv'
<1>1. /\ Entry \cap RegistryAsset = {} /\ NoEntry \notin Title
  BY CatalogPlaneAssumptions DEF Registry!LocalCatalogAssumption
<1>2. /\ UNCHANGED <<asset, done, behind, registryRun, verdict, registryRole, held, answers>>
      /\ entryRow' = [entryRow EXCEPT ![e] = title] /\ entryRow[e] = NoEntry /\ Registry!Step /\ e \in Registry!Doc
  BY DEF Registry!Create, Registry!Doc
<1>3. /\ index' \in [Registry!Doc -> Title \cup {NoEntry}] /\ mirror' \subseteq Registry!Doc \X Title /\ fts' \in BOOLEAN
      /\ index'[e] = title /\ (\A d \in Registry!Doc \ {e} : index'[d] = index[d]) /\ Registry!MirrorFollows'
  BY <1>2, RegistryUpsertFacts DEF Registry!Create
<1>4. Registry!TypeOK'
  BY <1>2, <1>3, RegistryStepType DEF Registry!RegistryInv, Registry!TypeOK
<1>5. Registry!IndexFollows'
  BY <1>2, <1>3 DEF Registry!RegistryInv, Registry!TypeOK, Registry!IndexFollows, Registry!Doc
<1>6. Registry!AnswersFollow' /\ Registry!OwnerRemains'
  BY <1>2 DEF Registry!RegistryInv, Registry!AnswersFollow, Registry!OwnerRemains
<1> QED BY <1>3, <1>4, <1>5, <1>6 DEF Registry!RegistryInv

LEMMA RegistryCreateUnsearchedInv ==
    ASSUME Registry!RegistryInv, NEW user, NEW e \in Entry, NEW title \in Title,
           Registry!CreateUnsearched(user, e, title)
    PROVE  Registry!RegistryInv'
<1>1. /\ UNCHANGED <<asset, done, behind, index, mirror, fts, registryRun, verdict, registryRole, held, answers>>
      /\ entryRow' = [entryRow EXCEPT ![e] = title] /\ Registry!Step /\ e \in Unsearched
  BY DEF Registry!CreateUnsearched
<1>2. Registry!TypeOK'
  BY <1>1, RegistryStepType DEF Registry!RegistryInv, Registry!TypeOK
<1>3. Registry!IndexFollows'
  BY <1>1 DEF Registry!RegistryInv, Registry!TypeOK, Registry!IndexFollows
<1>4. Registry!AnswersFollow' /\ Registry!OwnerRemains' /\ Registry!MirrorFollows'
  BY <1>1 DEF Registry!RegistryInv, Registry!AnswersFollow, Registry!OwnerRemains,
     Registry!MirrorFollows, Registry!Copy
<1> QED BY <1>2, <1>3, <1>4 DEF Registry!RegistryInv

LEMMA RegistryNextVersionIsAnEntry ==
    ASSUME \E v \in Versions : entryRow[v] = NoEntry PROVE Registry!NextVersion \in Entry
<1> DEFINE free == {v \in Versions : entryRow[v] = NoEntry}
<1>1. Versions \subseteq Nat /\ Versions \subseteq Entry
  BY CatalogPlaneAssumptions DEF Registry!LocalCatalogAssumption
<1>2. free \in SUBSET Nat /\ free # {}
  BY <1>1
<1>3. \E x \in free : \A y \in free : x <= y
  BY <1>2, LeastNatural
<1>4. Registry!Min(free) \in free
  BY <1>3 DEF Registry!Min
<1> QED BY <1>1, <1>4 DEF Registry!NextVersion

-----------------------------------------------------------------------------
(* Runs and reviews.                                                       *)
LEMMA RegistryAnswersOnly ==
    ASSUME Registry!RegistryInv, Registry!Step,
           UNCHANGED <<entryRow, asset, done, behind, index, mirror, fts, registryRole, held>>,
           registryRun' \in [Trigger -> Registry!Run \cup {NoEntry}], verdict' \in [Proposal -> Registry!Verdict \cup {NoEntry}],
           \A t \in Trigger : registryRun[t] # NoEntry => registryRun'[t] = registryRun[t],
           \A p \in Proposal : verdict[p] # NoEntry => verdict'[p] = verdict[p],
           NEW s \in Trigger \cup Proposal, NEW input \in RegistryInput \cup Registry!Verdict, NEW rules \in SUBSET QualityRule,
           Registry!Answer(s, input, rules),
           \/ s \in Trigger /\ registryRun'[s] # NoEntry /\ registryRun'[s] = [input |-> input, rules |-> rules]
           \/ s \in Proposal /\ verdict'[s] # NoEntry /\ verdict'[s] = input /\ rules = {}
    PROVE  Registry!RegistryInv'
<1>2. answers' = answers \cup {[of |-> s, input |-> input, rules |-> rules]}
  BY DEF Registry!Answer
<1>3. answers' \subseteq [of : Trigger \cup Proposal, input : RegistryInput \cup Registry!Verdict, rules : SUBSET QualityRule]
  BY <1>2 DEF Registry!RegistryInv, Registry!TypeOK
<1>4. Registry!TypeOK'
  BY <1>3, RegistryStepType DEF Registry!RegistryInv, Registry!TypeOK
<1>5. Registry!AnswersFollow'
  <2> SUFFICES ASSUME NEW x \in answers'
               PROVE  \/ /\ x.of \in Trigger /\ registryRun'[x.of] # NoEntry
                         /\ registryRun'[x.of] = [input |-> x.input, rules |-> x.rules]
                      \/ /\ x.of \in Proposal /\ verdict'[x.of] # NoEntry
                         /\ verdict'[x.of] = x.input /\ x.rules = {}
    BY DEF Registry!AnswersFollow
  <2>1. CASE x \in answers
    BY <2>1 DEF Registry!RegistryInv, Registry!AnswersFollow
  <2>2. CASE x = [of |-> s, input |-> input, rules |-> rules]
    BY <2>2
  <2> QED BY <1>2, <2>1, <2>2
<1>6. Registry!IndexFollows' /\ Registry!MirrorFollows' /\ Registry!OwnerRemains'
  BY DEF Registry!RegistryInv, Registry!IndexFollows, Registry!MirrorFollows,
     Registry!OwnerRemains, Registry!Copy
<1> QED BY <1>4, <1>5, <1>6 DEF Registry!RegistryInv

LEMMA RegistryTriggerRepeatedInv ==
    ASSUME Registry!RegistryInv, NEW user, NEW t \in Trigger, NEW input \in RegistryInput,
           Registry!TriggerRepeated(user, t, input)
    PROVE  Registry!RegistryInv'
<1>1. /\ registryRun[t] # NoEntry /\ registryRun[t].input = input /\ registryRun[t] \in Registry!Run
      /\ UNCHANGED <<entryRow, asset, done, behind, index, mirror, fts, registryRun, verdict, registryRole, held>>
  BY DEF Registry!TriggerRepeated, Registry!Repeats, Registry!RegistryInv, Registry!TypeOK
<1>2. registryRun[t].rules \in SUBSET QualityRule /\ registryRun[t] = [input |-> input, rules |-> registryRun[t].rules]
  BY <1>1 DEF Registry!Run
<1>3. Registry!Step /\ Registry!Answer(t, input, registryRun[t].rules)
  BY DEF Registry!TriggerRepeated
<1>4. /\ registryRun' \in [Trigger -> Registry!Run \cup {NoEntry}] /\ verdict' \in [Proposal -> Registry!Verdict \cup {NoEntry}]
      /\ \A x \in Trigger : registryRun'[x] = registryRun[x]
      /\ \A p \in Proposal : verdict'[p] = verdict[p]
  BY <1>1 DEF Registry!RegistryInv, Registry!TypeOK
<1> QED BY <1>1, <1>2, <1>3, <1>4, RegistryAnswersOnly

LEMMA RegistryTriggerRunInv ==
    ASSUME Registry!RegistryInv, NEW user, NEW t \in Trigger, NEW input \in RegistryInput,
           Registry!TriggerRun(user, t, input)
    PROVE  Registry!RegistryInv'
<1>1. /\ registryRun[t] = NoEntry /\ registryRun' = [registryRun EXCEPT ![t] = [input |-> input, rules |-> Registry!Rules]]
      /\ UNCHANGED <<entryRow, asset, done, behind, index, mirror, fts, verdict, registryRole, held>>
      /\ Registry!Step /\ Registry!Answer(t, input, Registry!Rules)
  BY DEF Registry!TriggerRun
<1>2. Registry!Rules \in SUBSET QualityRule /\ [input |-> input, rules |-> Registry!Rules] \in Registry!Run /\ NoEntry \notin Registry!Run
  BY CatalogPlaneAssumptions DEF Registry!Rules, Registry!Run, Registry!LocalCatalogAssumption
<1>3. /\ registryRun \in [Trigger -> Registry!Run \cup {NoEntry}] /\ verdict \in [Proposal -> Registry!Verdict \cup {NoEntry}]
  BY DEF Registry!RegistryInv, Registry!TypeOK
<1>4. /\ registryRun' \in [Trigger -> Registry!Run \cup {NoEntry}]
      /\ registryRun'[t] = [input |-> input, rules |-> Registry!Rules] /\ registryRun'[t] # NoEntry
      /\ \A x \in Trigger : registryRun[x] # NoEntry => registryRun'[x] = registryRun[x]
  BY <1>1, <1>2, <1>3
<1> QED BY <1>1, <1>2, <1>3, <1>4, RegistryAnswersOnly

LEMMA RegistryReviewInv ==
    ASSUME Registry!RegistryInv, NEW user, NEW p \in Proposal,
           NEW decision \in Registry!Verdict, Registry!Review(user, p, decision)
    PROVE  Registry!RegistryInv'
<1>1. /\ verdict[p] = NoEntry /\ verdict' = [verdict EXCEPT ![p] = decision]
      /\ UNCHANGED <<entryRow, asset, done, behind, index, mirror, fts, registryRun, registryRole, held>>
      /\ Registry!Step /\ Registry!Answer(p, decision, {})
  BY DEF Registry!Review, Registry!Open
<1>2. decision # NoEntry
  BY CatalogPlaneAssumptions DEF Registry!LocalCatalogAssumption
<1>3. /\ registryRun \in [Trigger -> Registry!Run \cup {NoEntry}] /\ verdict \in [Proposal -> Registry!Verdict \cup {NoEntry}]
  BY DEF Registry!RegistryInv, Registry!TypeOK
<1>4. /\ verdict' \in [Proposal -> Registry!Verdict \cup {NoEntry}] /\ verdict'[p] = decision
      /\ \A x \in Proposal : verdict[x] # NoEntry => verdict'[x] = verdict[x]
  BY <1>1, <1>3
<1> QED BY <1>1, <1>2, <1>3, <1>4, RegistryAnswersOnly

-----------------------------------------------------------------------------
(* Members.                                                                *)
LEMMA RegistryMembersOnly ==
    ASSUME Registry!RegistryInv, Registry!Step,
           UNCHANGED <<entryRow, asset, done, behind, index, mirror, fts, registryRun, verdict, answers>>,
           registryRole' \in [RegistryUser -> Registry!Role \cup {NoEntry}], held' \in [RegistryUser -> Registry!Role \cup {NoEntry}], Registry!OwnerRemains'
    PROVE  Registry!RegistryInv'
<1>1. Registry!TypeOK'
  BY RegistryStepType DEF Registry!RegistryInv, Registry!TypeOK
<1> QED BY <1>1 DEF Registry!RegistryInv, Registry!IndexFollows, Registry!MirrorFollows,
           Registry!AnswersFollow, Registry!Copy

LEMMA RegistryPutMemberInv ==
    ASSUME Registry!RegistryInv, NEW user, NEW u \in RegistryUser, NEW r \in Registry!Role,
           Registry!PutMember(user, u, r)
    PROVE  Registry!RegistryInv'
<1>1. /\ UNCHANGED <<entryRow, asset, done, behind, index, mirror, fts, registryRun, verdict, answers>>
      /\ registryRole' = [registryRole EXCEPT ![u] = r] /\ held' = registryRole /\ Registry!Step
      /\ (registryRole[u] = "owner" /\ r # "owner") => \E other \in RegistryUser \ {u} : registryRole[other] = "owner"
  BY DEF Registry!PutMember, Registry!AnotherOwner
<1>2. registryRole \in [RegistryUser -> Registry!Role \cup {NoEntry}] /\ \E x \in RegistryUser : registryRole[x] = "owner"
  BY DEF Registry!RegistryInv, Registry!TypeOK, Registry!OwnerRemains
<1>3. Registry!OwnerRemains'
  BY <1>1, <1>2 DEF Registry!OwnerRemains
<1> QED BY <1>1, <1>2, <1>3, RegistryMembersOnly

LEMMA RegistryRemoveMemberInv ==
    ASSUME Registry!RegistryInv, NEW user, NEW u \in RegistryUser, Registry!RemoveMember(user, u)
    PROVE  Registry!RegistryInv'
<1>1. /\ UNCHANGED <<entryRow, asset, done, behind, index, mirror, fts, registryRun, verdict, answers>>
      /\ registryRole' = [registryRole EXCEPT ![u] = NoEntry] /\ held' = registryRole /\ Registry!Step
      /\ registryRole[u] = "owner" => \E other \in RegistryUser \ {u} : registryRole[other] = "owner"
  BY DEF Registry!RemoveMember, Registry!AnotherOwner
<1>2. registryRole \in [RegistryUser -> Registry!Role \cup {NoEntry}] /\ \E x \in RegistryUser : registryRole[x] = "owner"
  BY DEF Registry!RegistryInv, Registry!TypeOK, Registry!OwnerRemains
<1>3. Registry!OwnerRemains'
  BY <1>1, <1>2 DEF Registry!OwnerRemains
<1> QED BY <1>1, <1>2, <1>3, RegistryMembersOnly

-----------------------------------------------------------------------------
(* Ingested assets, a mirror that fails, and a restart.                    *)
LEMMA RegistryIngestInv ==
    ASSUME Registry!RegistryInv, NEW user, NEW b \in DOMAIN RegistryBundle, Registry!Ingest(user, b)
    PROVE  Registry!RegistryInv'
<1>1. /\ UNCHANGED <<entryRow, index, mirror, fts, registryRun, verdict, registryRole, held, answers>>
      /\ done' = done \cup {b} /\ behind' = RegistryBundle[b] /\ Registry!Step
      /\ asset' = [a \in RegistryAsset |-> IF b \notin done /\ a \in DOMAIN RegistryBundle[b]
                                   THEN RegistryBundle[b][a] ELSE asset[a]]
  BY DEF Registry!Ingest
<1>2. RegistryBundle[b] \in Registry!Names
  BY CatalogPlaneAssumptions DEF Registry!LocalCatalogAssumption
<1>3. asset \in [RegistryAsset -> Title \cup {NoEntry}]
  BY DEF Registry!RegistryInv, Registry!TypeOK
<1>4. \A a \in DOMAIN RegistryBundle[b] : RegistryBundle[b][a] \in Title
  BY <1>2 DEF Registry!Names
<1>5. asset' \in [RegistryAsset -> Title \cup {NoEntry}]
  BY <1>1, <1>3, <1>4
<1>6. Registry!TypeOK'
  BY <1>1, <1>2, <1>5, RegistryStepType DEF Registry!RegistryInv, Registry!TypeOK
<1> QED BY <1>1, <1>6 DEF Registry!RegistryInv, Registry!IndexFollows, Registry!MirrorFollows,
           Registry!AnswersFollow, Registry!OwnerRemains, Registry!Copy

LEMMA RegistryIndexAssetInv ==
    ASSUME Registry!RegistryInv, NEW a \in RegistryAsset, Registry!IndexAsset(a)
    PROVE  Registry!RegistryInv'
<1>1. /\ UNCHANGED <<entryRow, asset, done, registryRun, verdict, registryRole, held, answers, steps>>
      /\ a \in DOMAIN behind /\ Registry!Upsert(a, behind[a])
      /\ behind' = [other \in DOMAIN behind \ {a} |-> behind[other]]
  BY DEF Registry!IndexAsset
<1>2. behind \in Registry!Names /\ a \in Registry!Doc /\ Entry \cap RegistryAsset = {}
  BY CatalogPlaneAssumptions DEF Registry!RegistryInv, Registry!TypeOK, Registry!Doc,
     Registry!LocalCatalogAssumption
<1>3. PICK S \in SUBSET RegistryAsset : behind \in [S -> Title]
  BY <1>2 DEF Registry!Names
<1>4. behind[a] \in Title
  BY <1>1, <1>3
<1>5. /\ index' \in [Registry!Doc -> Title \cup {NoEntry}] /\ mirror' \subseteq Registry!Doc \X Title /\ fts' \in BOOLEAN
      /\ (\A d \in Registry!Doc \ {a} : index'[d] = index[d]) /\ Registry!MirrorFollows'
  BY <1>1, <1>2, <1>4, RegistryUpsertFacts
<1>6. behind' \in Registry!Names
  <2>1. behind' \in [S \ {a} -> Title] /\ S \ {a} \in SUBSET RegistryAsset
    BY <1>1, <1>3
  <2> QED BY <2>1 DEF Registry!Names
<1>7. Registry!TypeOK'
  BY <1>1, <1>5, <1>6 DEF Registry!RegistryInv, Registry!TypeOK
<1>8. Registry!IndexFollows'
  BY <1>1, <1>2, <1>5 DEF Registry!RegistryInv, Registry!IndexFollows, Registry!Doc
<1> QED BY <1>1, <1>5, <1>7, <1>8 DEF Registry!RegistryInv, Registry!AnswersFollow,
           Registry!OwnerRemains

LEMMA RegistryCreateFailsInv == ASSUME Registry!RegistryInv, Registry!CreateFails PROVE Registry!RegistryInv'
<1>1. /\ UNCHANGED <<entryRow, asset, done, behind, index, mirror, registryRun, verdict, registryRole, held, answers>>
      /\ fts' = FALSE /\ Registry!Step
  BY DEF Registry!CreateFails
<1>2. Registry!TypeOK'
  BY <1>1, RegistryStepType DEF Registry!RegistryInv, Registry!TypeOK
<1> QED BY <1>1, <1>2 DEF Registry!RegistryInv, Registry!IndexFollows, Registry!MirrorFollows,
           Registry!AnswersFollow, Registry!OwnerRemains

LEMMA RegistryRestartInv == ASSUME Registry!RegistryInv, Registry!Restart PROVE Registry!RegistryInv'
<1>1. /\ UNCHANGED <<entryRow, asset, done, registryRun, verdict, answers>> /\ Registry!Step
      /\ behind' = [a \in {} |-> NoEntry]
      /\ index' = [d \in Registry!Doc |-> IF d \in RegistryAsset THEN asset[d] ELSE index[d]]
      /\ Registry!Load(index') /\ registryRole' = Registry!Seeded(registryRole) /\ held' = registryRole'
  BY DEF Registry!Restart
<1>2. /\ asset \in [RegistryAsset -> Title \cup {NoEntry}] /\ index \in [Registry!Doc -> Title \cup {NoEntry}]
      /\ mirror \subseteq Registry!Doc \X Title /\ registryRole \in [RegistryUser -> Registry!Role \cup {NoEntry}] /\ Registry!OwnerRemains
  BY DEF Registry!RegistryInv, Registry!TypeOK
<1>3. /\ NoEntry \notin Registry!Role /\ Entry \cap RegistryAsset = {} /\ (\A u \in DOMAIN Seed : Seed[u] \in Registry!Role)
  BY CatalogPlaneAssumptions DEF Registry!LocalCatalogAssumption
<1>4. index' \in [Registry!Doc -> Title \cup {NoEntry}] /\ \A e \in Entry : index'[e] = index[e]
  BY <1>1, <1>2, <1>3 DEF Registry!Doc
<1>5. Registry!Copy(index') \subseteq Registry!Doc \X Title
  BY <1>4 DEF Registry!Copy
<1>6. mirror' \subseteq Registry!Doc \X Title /\ fts' \in BOOLEAN /\ (fts' => mirror' = Registry!Copy(index'))
  <2>1. CASE fts' = TRUE /\ mirror' = Registry!Copy(index')
    BY <1>5, <2>1
  <2>2. CASE fts' = FALSE /\ mirror' \in {mirror, {}}
    BY <1>2, <2>2
  <2> QED BY <1>1, <2>1, <2>2 DEF Registry!Load
<1>7. /\ registryRole' = [u \in RegistryUser |-> IF registryRole[u] = NoEntry /\ u \in DOMAIN Seed THEN Seed[u] ELSE registryRole[u]]
  BY <1>1 DEF Registry!Seeded
<1>8. registryRole' \in [RegistryUser -> Registry!Role \cup {NoEntry}] /\ Registry!OwnerRemains'
  <2>1. PICK u \in RegistryUser : registryRole[u] = "owner"
    BY <1>2 DEF Registry!OwnerRemains
  <2>2. registryRole'[u] = "owner"
    BY <1>3, <1>7, <2>1 DEF Registry!Role
  <2> QED BY <1>2, <1>3, <1>7, <2>2 DEF Registry!OwnerRemains
<1>9. behind' \in Registry!Names
  <2>1. behind' \in [{} -> Title]
    BY <1>1
  <2>2. {} \in SUBSET RegistryAsset
    OBVIOUS
  <2> QED BY <2>1, <2>2 DEF Registry!Names
<1>10. Registry!TypeOK'
  BY <1>1, <1>4, <1>6, <1>8, <1>9, RegistryStepType DEF Registry!RegistryInv, Registry!TypeOK
<1>11. Registry!IndexFollows' /\ Registry!MirrorFollows' /\ Registry!AnswersFollow'
  BY <1>1, <1>4, <1>6 DEF Registry!RegistryInv, Registry!IndexFollows, Registry!MirrorFollows,
     Registry!AnswersFollow
<1> QED BY <1>8, <1>10, <1>11 DEF Registry!RegistryInv

LEMMA RegistryStepInv == ASSUME Registry!RegistryInv, Registry!Next \/ UNCHANGED Registry!vars PROVE Registry!RegistryInv'
<1>1. CASE UNCHANGED Registry!vars
  BY <1>1 DEF Registry!vars, Registry!RegistryInv, Registry!TypeOK, Registry!IndexFollows,
     Registry!MirrorFollows, Registry!AnswersFollow, Registry!OwnerRemains, Registry!Copy
<1>2. ASSUME NEW user \in RegistryUser, NEW title \in Title, NEW e \in Entry \ Versions, Registry!Create(user, e, title)
      PROVE  Registry!RegistryInv'
  BY <1>2, RegistryCreateInv
<1>3. ASSUME NEW user \in RegistryUser, NEW title \in Title, NEW e \in Entry \ Versions, Registry!CreateUnsearched(user, e, title)
      PROVE  Registry!RegistryInv'
  BY <1>3, RegistryCreateUnsearchedInv
<1>4. ASSUME NEW user \in RegistryUser, NEW title \in Title, Registry!CreateVersion(user, title)
      PROVE  Registry!RegistryInv'
  <2>1. Registry!NextVersion \in Entry /\ Registry!Create(user, Registry!NextVersion, title)
    BY <1>4, RegistryNextVersionIsAnEntry DEF Registry!CreateVersion
  <2> QED BY <2>1, RegistryCreateInv
<1>5. ASSUME NEW user \in RegistryUser, NEW t \in Trigger, NEW input \in RegistryInput,
             Registry!TriggerRepeated(user, t, input) \/ Registry!TriggerRun(user, t, input)
      PROVE  Registry!RegistryInv'
  BY <1>5, RegistryTriggerRepeatedInv, RegistryTriggerRunInv
<1>6. ASSUME NEW user \in RegistryUser, NEW p \in Proposal, NEW decision \in Registry!Verdict, Registry!Review(user, p, decision)
      PROVE  Registry!RegistryInv'
  BY <1>6, RegistryReviewInv
<1>7. ASSUME NEW user \in RegistryUser, NEW u \in RegistryUser, Registry!RemoveMember(user, u)
      PROVE  Registry!RegistryInv'
  BY <1>7, RegistryRemoveMemberInv
<1>8. ASSUME NEW user \in RegistryUser, NEW u \in RegistryUser, NEW r \in Registry!Role, Registry!PutMember(user, u, r)
      PROVE  Registry!RegistryInv'
  BY <1>8, RegistryPutMemberInv
<1>9. ASSUME NEW user \in RegistryUser, NEW b \in DOMAIN RegistryBundle, Registry!Ingest(user, b)
      PROVE  Registry!RegistryInv'
  BY <1>9, RegistryIngestInv
<1>10. ASSUME NEW a \in RegistryAsset, Registry!IndexAsset(a) PROVE Registry!RegistryInv'
  BY <1>10, RegistryIndexAssetInv
<1>11. CASE Registry!CreateFails
  BY <1>11, RegistryCreateFailsInv
<1>12. CASE Registry!Restart
  BY <1>12, RegistryRestartInv
<1> QED BY <1>1, <1>2, <1>3, <1>4, <1>5, <1>6, <1>7, <1>8, <1>9, <1>10, <1>11, <1>12 DEF
           Registry!Next

-----------------------------------------------------------------------------
(* What is said of searches and answers follows.                           *)
LEMMA RegistryInvGives == ASSUME Registry!RegistryInv PROVE Registry!SearchIsExact /\ Registry!OneAnswer
<1>1. index \in [Registry!Doc -> Title \cup {NoEntry}] /\ NoEntry \notin Title
  BY CatalogPlaneAssumptions DEF Registry!RegistryInv, Registry!TypeOK,
     Registry!LocalCatalogAssumption
<1>2. ASSUME NEW title \in Title
      PROVE  Registry!Found(title) = {d \in Registry!Doc : index[d] = title}
  <2> DEFINE matches == {d \in Registry!Doc : <<d, title>> \in mirror /\ index[d] # NoEntry}
  <2>1. CASE fts /\ matches # {}
    <3>1. mirror = {<<e, index[e]>> : e \in {x \in Registry!Doc : index[x] # NoEntry}}
      BY <2>1 DEF Registry!RegistryInv, Registry!MirrorFollows, Registry!Copy
    <3>2. \A d \in Registry!Doc : <<d, title>> \in mirror <=> index[d] = title
      BY <1>1, <3>1
    <3>3. matches = {d \in Registry!Doc : index[d] = title}
      BY <1>1, <3>2
    <3> QED BY <2>1, <3>3 DEF Registry!Found
  <2>2. CASE ~(fts /\ matches # {})
    BY <2>2 DEF Registry!Found
  <2> QED BY <2>1, <2>2
<1>3. ASSUME NEW e \in Entry \ Unsearched, entryRow[e] # NoEntry
      PROVE  e \in Registry!Found(entryRow[e])
  <2>1. entryRow[e] \in Title /\ index[e] = entryRow[e] /\ e \in Registry!Doc
    BY <1>3 DEF Registry!RegistryInv, Registry!TypeOK, Registry!IndexFollows, Registry!Doc
  <2> QED BY <1>2, <2>1
<1>4. ASSUME NEW x \in answers, NEW y \in answers, x.of = y.of PROVE x = y
  <2>1. Proposal \cap Trigger = {}
    BY CatalogPlaneAssumptions DEF Registry!LocalCatalogAssumption
  <2>2. /\ x = [of |-> x.of, input |-> x.input, rules |-> x.rules]
        /\ y = [of |-> y.of, input |-> y.input, rules |-> y.rules]
    BY DEF Registry!RegistryInv, Registry!TypeOK
  <2>3. x.input = y.input /\ x.rules = y.rules
    <3>1. CASE x.of \in Trigger
      <4>1. [input |-> x.input, rules |-> x.rules] = [input |-> y.input, rules |-> y.rules]
        BY <1>4, <2>1, <3>1 DEF Registry!RegistryInv, Registry!AnswersFollow
      <4> QED BY <4>1
    <3>2. CASE x.of \notin Trigger
      BY <1>4, <3>2 DEF Registry!RegistryInv, Registry!AnswersFollow
    <3> QED BY <3>1, <3>2
  <2> QED BY <1>4, <2>2, <2>3
<1> QED BY <1>2, <1>3, <1>4 DEF Registry!SearchIsExact, Registry!OneAnswer

(***************************************************************************)
(* For any catalog, rules, members and bundles, and whichever statement of *)
(* the full-text mirror fails or start of the process falls between: a     *)
(* search finds what the index has and every resource, a run's key and a   *)
(* proposal have one answer, and the project keeps an owner                *)
(* (PlatformCatalog, AdvancedPlatformCatalog).                             *)
(***************************************************************************)
THEOREM RegistryStaysExact == CatalogPlaneSpec => []RegistryAnswersOnce
<1> DEFINE I == catalogPart = "registry" => Registry!RegistryInv
<1>1. CatalogPlaneInit => I
  BY RegistryInitInv DEF CatalogPlaneInit
<1>2. I /\ [CatalogPlaneNext]_catalogPlaneVars => I'
  <2> SUFFICES ASSUME I, [CatalogPlaneNext]_catalogPlaneVars, catalogPart' = "registry"
               PROVE  Registry!RegistryInv'
    OBVIOUS
  <2>1. catalogPart = "registry" /\ Registry!RegistryInv
    BY DEF CatalogPlaneNext, catalogPlaneVars
  <2>2. Registry!Next \/ UNCHANGED Registry!vars
    BY <2>1 DEF CatalogPlaneNext, catalogPlaneVars, registryVars, Registry!vars
  <2> QED BY <2>1, <2>2, RegistryStepInv
<1>3. I => RegistryAnswersOnce
  BY RegistryInvGives DEF RegistryAnswersOnce, Registry!RegistryInv
<1> QED BY <1>1, <1>2, <1>3, PTL DEF CatalogPlaneSpec

-----------------------------------------------------------------------------
(* The catalog.  Its finite sets are those of the library.                 *)
LEMMA CatalogFinite ==
    ASSUME NEW S
    PROVE  /\ Catalog!IsFiniteSet(S) <=> IsFiniteSet(S)
           /\ Catalog!Cardinality(S) = Cardinality(S)
<1>1. Catalog!IsFiniteSet(S) <=> IsFiniteSet(S)
  BY DEF Catalog!IsFiniteSet, IsFiniteSet
<1>2. Catalog!Cardinality(S) = Cardinality(S)
  BY DEF Catalog!Cardinality, Cardinality
<1> QED BY <1>1, <1>2

LEMMA CatalogFinType == ASSUME NEW S, Catalog!IsFiniteSet(S) PROVE Catalog!Cardinality(S) \in Nat
<1>1. IsFiniteSet(S) /\ Catalog!Cardinality(S) = Cardinality(S)
  BY CatalogFinite
<1> QED BY <1>1, FS_CardinalityType

LEMMA CatalogFinAdd ==
    ASSUME NEW S, NEW e, Catalog!IsFiniteSet(S), e \notin S
    PROVE  /\ Catalog!IsFiniteSet(S \cup {e})
           /\ Catalog!Cardinality(S \cup {e}) = Catalog!Cardinality(S) + 1
<1>1. IsFiniteSet(S) /\ Catalog!Cardinality(S) = Cardinality(S)
  BY CatalogFinite
<1>2. IsFiniteSet(S \cup {e}) /\ Cardinality(S \cup {e}) = Cardinality(S) + 1
  BY <1>1, FS_AddElement
<1>3. Catalog!IsFiniteSet(S \cup {e}) /\ Catalog!Cardinality(S \cup {e}) = Cardinality(S \cup {e})
  BY <1>2, CatalogFinite
<1> QED BY <1>1, <1>2, <1>3

LEMMA CatalogFinEmpty == Catalog!IsFiniteSet({}) /\ Catalog!Cardinality({}) = 0
<1>1. IsFiniteSet({}) /\ Cardinality({}) = 0
  BY FS_EmptySet
<1> QED BY <1>1, CatalogFinite

LEMMA CatalogFinRange ==
    ASSUME NEW X, NEW s \in Seq(X), NEW T \in SUBSET {s[i] : i \in DOMAIN s}
    PROVE  Catalog!IsFiniteSet(T)
<1>1. IsFiniteSet(DOMAIN s)
  BY FS_Interval
<1>2. s \in Surjection(DOMAIN s, {s[i] : i \in DOMAIN s})
  BY DEF Surjection
<1>3. IsFiniteSet(T)
  BY <1>1, <1>2, FS_Surjection, FS_Subset
<1> QED BY <1>3, CatalogFinite



LEMMA CatalogRequestFacts ==
    ASSUME NEW q \in Catalog!Request
    PROVE  /\ q = [kind |-> q.kind, id |-> q.id, of |-> q.of, input |-> q.input]
           /\ q.kind = "graph" => q.input \in Nat
  BY CatalogPlaneAssumptions DEF Catalog!CatalogAssumption

LEMMA CatalogStoredFacts ==
    ASSUME Catalog!TypeOK
    PROVE  /\ Catalog!Stored \subseteq Catalog!Effect
           /\ \A e \in Catalog!Effect : e.asked \in Catalog!Request /\ e.number \in Nat /\ e = [asked |-> e.asked, number |-> e.number]
           /\ asked \subseteq Catalog!Request
<1>1. log \in Seq(Catalog!Effect) /\ asked \in Workload
  BY DEF Catalog!TypeOK
<1>2. Catalog!Stored \subseteq Catalog!Effect
  BY <1>1 DEF Catalog!Stored
<1>3. asked \subseteq Catalog!Request
  BY <1>1 DEF Catalog!Request
<1> QED BY <1>2, <1>3 DEF Catalog!Effect

(* What the step of a handler makes of its session is of the right type.   *)
LEMMA CatalogSessionFacts ==
    ASSUME Catalog!TypeOK, NEW h \in CatalogHandler
    PROVE  /\ catalogSession[h] \in Catalog!Session
           /\ catalogSession[h].step \in Catalog!Open \cup {"told", "refused"} => catalogSession[h].asked \in Catalog!Request
           /\ catalogSession[h].step \in {"looked", "evaluated"} => catalogSession[h].number \in Nat
           /\ catalogSession[h].step \in {"idle", "told", "refused"} \cup Catalog!Open
           /\ ~Catalog!Free(h) => catalogSession[h].step \in Catalog!Open
<1>1. catalogSession[h] \in Catalog!Session
  BY DEF Catalog!TypeOK
<1> QED BY <1>1 DEF Catalog!Session, Catalog!Idle, Catalog!Open, Catalog!Free

(* One row is stored per key of a kind that is kept once.                  *)
LEMMA CatalogOneRow ==
    ASSUME Catalog!TypeOK, Catalog!RecordedOnce, NEW q \in Catalog!Request,
           NEW d \in Catalog!Prior(q), NEW e \in Catalog!Prior(q),
           q.kind \notin {"model", "graph", "rename", "decision"}
    PROVE  d = e
<1>1. PICK i \in DOMAIN log : d = log[i]
  BY DEF Catalog!Prior, Catalog!Stored
<1>2. PICK j \in DOMAIN log : e = log[j]
  BY DEF Catalog!Prior, Catalog!Stored
<1> QED BY <1>1, <1>2 DEF Catalog!RecordedOnce, Catalog!Prior

-----------------------------------------------------------------------------
(* Steps that commit nothing.                                              *)
LEMMA CatalogQuietInv ==
    ASSUME Catalog!CatalogInv, NEW h \in CatalogHandler, UNCHANGED <<asked, log>>,
           catalogFaults' \in 0 .. MaxCatalogFaults,
           NEW s \in Catalog!Session, Catalog!Goto(h, s), Catalog!Knows(s), Catalog!Agrees(s),
           s.step \in Catalog!Open \ {"sourced"} =>
               \A g \in CatalogHandler \ {h} : Catalog!Holds(g) => Catalog!LockOf(catalogSession[g].asked) # Catalog!LockOf(s.asked)
    PROVE  Catalog!CatalogInv'
<1>1. /\ catalogSession \in [CatalogHandler -> Catalog!Session] /\ catalogSession' = [catalogSession EXCEPT ![h] = s]
      /\ catalogSession' \in [CatalogHandler -> Catalog!Session] /\ catalogSession'[h] = s
      /\ \A g \in CatalogHandler \ {h} : catalogSession'[g] = catalogSession[g]
  BY DEF Catalog!CatalogInv, Catalog!TypeOK, Catalog!Goto
<1>2. Catalog!TypeOK'
  BY <1>1 DEF Catalog!CatalogInv, Catalog!TypeOK
<1>3. Catalog!Stored' = Catalog!Stored
  BY DEF Catalog!Stored
<1>4. /\ \A q : Catalog!Prior(q)' = Catalog!Prior(q) /\ Catalog!Renames(q)' = Catalog!Renames(q) /\ Catalog!NextNumber(q)' = Catalog!NextNumber(q)
      /\ \A kind, of : Catalog!OfKind(kind, of)' = Catalog!OfKind(kind, of) /\ Catalog!WithoutGaps(kind, of)' = Catalog!WithoutGaps(kind, of)
  BY <1>3 DEF Catalog!Prior, Catalog!Renames, Catalog!NextNumber, Catalog!OfKind,
     Catalog!WithoutGaps
<1>5. Catalog!LocksExclude'
  <2> SUFFICES ASSUME NEW f \in CatalogHandler, NEW g \in CatalogHandler, f # g,
                      catalogSession'[f].step \in Catalog!Open \ {"sourced"}, catalogSession'[g].step \in Catalog!Open \ {"sourced"}
               PROVE  Catalog!LockOf(catalogSession'[f].asked) # Catalog!LockOf(catalogSession'[g].asked)
    BY DEF Catalog!LocksExclude, Catalog!Holds
  <2>1. CASE f = h
    BY <1>1, <2>1 DEF Catalog!Holds
  <2>2. CASE g = h
    BY <1>1, <2>2 DEF Catalog!Holds
  <2>3. CASE f # h /\ g # h
    BY <1>1, <2>3 DEF Catalog!CatalogInv, Catalog!LocksExclude, Catalog!Holds
  <2> QED BY <2>1, <2>2, <2>3
<1>6. \A g \in CatalogHandler : Catalog!Knows(catalogSession'[g])
  BY <1>1 DEF Catalog!CatalogInv
<1>7. \A x : Catalog!Knows(x)' = Catalog!Knows(x)
  BY <1>4 DEF Catalog!Knows
<1>8. \A g \in CatalogHandler : Catalog!Agrees(catalogSession'[g])
  BY <1>1 DEF Catalog!CatalogInv, Catalog!AnswersAgree
<1>9. \A x : Catalog!Agrees(x)' = Catalog!Agrees(x)
  BY <1>3, <1>4 DEF Catalog!Agrees
<1>10. Catalog!RecordedOnce' /\ Catalog!VersionsAreTwinned' /\ Catalog!NumberedWithoutGaps'
  BY <1>3, <1>4 DEF Catalog!CatalogInv, Catalog!RecordedOnce, Catalog!VersionsAreTwinned,
     Catalog!NumberedWithoutGaps
<1> QED BY <1>2, <1>5, <1>6, <1>7, <1>8, <1>9, <1>10 DEF Catalog!CatalogInv,
           Catalog!AnswersAgree

(* A transaction that ends without a change, the client being told or not. *)
LEMMA CatalogTellsInv ==
    ASSUME Catalog!CatalogInv, NEW h \in CatalogHandler, UNCHANGED <<asked, log>>,
           NEW t \in Catalog!Session, Catalog!Tells(h, t),
           t.step \in {"told", "refused"}, Catalog!Agrees(t)
    PROVE  Catalog!CatalogInv'
<1>1. catalogFaults' \in 0 .. MaxCatalogFaults
  BY CatalogPlaneAssumptions DEF Catalog!CatalogInv, Catalog!TypeOK, Catalog!Tells,
     Catalog!Fault, Catalog!CatalogAssumption
<1>2. Catalog!Knows(t) /\ t.step \notin Catalog!Open
  BY DEF Catalog!Knows, Catalog!Open
<1>3. Catalog!Idle \in Catalog!Session /\ Catalog!Knows(Catalog!Idle) /\ Catalog!Agrees(Catalog!Idle) /\ Catalog!Idle.step \notin Catalog!Open
  BY DEF Catalog!Session, Catalog!Idle, Catalog!Knows, Catalog!Agrees, Catalog!Open
<1>4. CASE Catalog!Goto(h, t)
  BY <1>1, <1>2, <1>4, CatalogQuietInv
<1>5. CASE Catalog!Goto(h, Catalog!Idle)
  BY <1>1, <1>3, <1>5, CatalogQuietInv
<1> QED BY <1>4, <1>5 DEF Catalog!Tells

LEMMA CatalogAnswersInv ==
    ASSUME Catalog!CatalogInv, NEW h \in CatalogHandler, NEW q \in Catalog!Request,
           NEW e \in Catalog!Prior(q),
           q.kind \in Catalog!Keyed => Catalog!Same(q), Catalog!Answers(h, q, e)
    PROVE  Catalog!CatalogInv'
<1> DEFINE t == [step |-> "told", asked |-> q, effect |-> e]
<1>1. Catalog!TypeOK /\ Catalog!RecordedOnce /\ e \in Catalog!Stored /\ e.asked.kind = q.kind /\ e.asked.id = q.id
  BY DEF Catalog!CatalogInv, Catalog!Prior
<1>2. e \in Catalog!Effect /\ e.asked \in Catalog!Request
  BY <1>1, CatalogStoredFacts
<1>3. t \in Catalog!Session
  BY <1>2 DEF Catalog!Session
<1>4. q.kind \in Catalog!Keyed \ {"project"} => e.asked = q
  <2> SUFFICES ASSUME q.kind \in Catalog!Keyed \ {"project"} PROVE e.asked = q
    OBVIOUS
  <2>1. Catalog!Same(q)
    OBVIOUS
  <2>2. Catalog!Current(q) = (CHOOSE d \in Catalog!Prior(q) : TRUE).asked.input
    BY DEF Catalog!Current
  <2>3. PICK d \in Catalog!Prior(q) : d = CHOOSE x \in Catalog!Prior(q) : TRUE
    OBVIOUS
  <2>4. d = e
    BY <1>1, CatalogOneRow DEF Catalog!Keyed
  <2>5. e.asked.input = q.input /\ e.asked.of = q.of
    BY <2>1, <2>2, <2>3, <2>4 DEF Catalog!Same
  <2> QED BY <1>1, <1>2, <2>5, CatalogRequestFacts
<1>5. Catalog!Agrees(t)
  BY <1>1, <1>4 DEF Catalog!Agrees
<1>6. UNCHANGED <<asked, log>> /\ Catalog!Tells(h, t) /\ t.step = "told"
  BY DEF Catalog!Answers
<1> HIDE DEF t
<1> QED BY <1>3, <1>5, <1>6, CatalogTellsInv

LEMMA CatalogRefusesInv ==
    ASSUME Catalog!CatalogInv, NEW h \in CatalogHandler, NEW q \in Catalog!Request,
           Catalog!Refuses(h, q),
           q.kind \in Catalog!Keyed => \/ \E e \in Catalog!Prior(q) : e.asked # q
                                       \/ Catalog!Prior(Catalog!Twin(q)) # {}
                                       \/ Catalog!Renames(q) # {}
    PROVE  Catalog!CatalogInv'
<1> DEFINE t == [step |-> "refused", asked |-> q]
<1>1. t \in Catalog!Session /\ Catalog!Agrees(t)
  BY DEF Catalog!Session, Catalog!Agrees
<1>2. UNCHANGED <<asked, log>> /\ Catalog!Tells(h, t) /\ t.step = "refused"
  BY DEF Catalog!Refuses
<1> HIDE DEF t
<1> QED BY <1>1, <1>2, CatalogTellsInv

(* The earlier row answers, or the request is refused for what it has.     *)
LEMMA CatalogResolveInv ==
    ASSUME Catalog!CatalogInv, NEW h \in CatalogHandler, NEW q \in Catalog!Request,
           Catalog!Prior(q) # {}, Catalog!Resolve(h, q)
    PROVE  Catalog!CatalogInv'
<1>1. CASE q.kind \in Catalog!Keyed => Catalog!Same(q)
  <2>1. PICK e \in Catalog!Prior(q) : Catalog!Answers(h, q, e)
    BY <1>1 DEF Catalog!Resolve
  <2> QED BY <1>1, <2>1, CatalogAnswersInv
<1>2. CASE q.kind \in Catalog!Keyed /\ ~Catalog!Same(q)
  <2>1. Catalog!Refuses(h, q)
    BY <1>2 DEF Catalog!Resolve
  <2>2. (\E e \in Catalog!Prior(q) : e.asked # q) \/ Catalog!Renames(q) # {}
    <3> SUFFICES ASSUME Catalog!Renames(q) = {}, \A e \in Catalog!Prior(q) : e.asked = q
                 PROVE  FALSE
      OBVIOUS
    <3>1. Catalog!Current(q) = (CHOOSE d \in Catalog!Prior(q) : TRUE).asked.input
      BY DEF Catalog!Current
    <3>2. Catalog!Current(q) = q.input
      BY <3>1
    <3> QED BY <1>2, <3>2 DEF Catalog!Same
  <2> QED BY <2>1, <2>2, CatalogRefusesInv
<1> QED BY <1>1, <1>2

-----------------------------------------------------------------------------
(* A commit.  Whoever holds a lock is not concerned, since a row of a kind *)
(* that is locked is made by the handler that holds the lock of its own.   *)
LEMMA CatalogCommitGrows ==
    ASSUME Catalog!TypeOK, NEW h, NEW q \in Catalog!Request, NEW n \in Nat, Catalog!Commits(h,
           q, n)
    PROVE  /\ [asked |-> q, number |-> n] \in Catalog!Effect
           /\ log' \in Seq(Catalog!Effect) /\ Len(log') <= MaxEffects /\ Len(log) \in Nat
           /\ DOMAIN log = 1 .. Len(log) /\ DOMAIN log' = 1 .. Len(log) + 1
           /\ log'[Len(log) + 1] = [asked |-> q, number |-> n]
           /\ \A i \in 1 .. Len(log) : log'[i] = log[i]
           /\ Catalog!Stored' = Catalog!Stored \cup {[asked |-> q, number |-> n]}
<1>1. log \in Seq(Catalog!Effect) /\ log' = Append(log, [asked |-> q, number |-> n]) /\ Len(log) < MaxEffects
  BY DEF Catalog!Commits, Catalog!TypeOK
<1>2. [asked |-> q, number |-> n] \in Catalog!Effect /\ MaxEffects \in Nat
  BY CatalogPlaneAssumptions DEF Catalog!Effect, Catalog!CatalogAssumption
<1>3. /\ log' \in Seq(Catalog!Effect) /\ Len(log') = Len(log) + 1 /\ Len(log) \in Nat
      /\ DOMAIN log = 1 .. Len(log) /\ DOMAIN log' = 1 .. Len(log) + 1
      /\ log'[Len(log) + 1] = [asked |-> q, number |-> n]
      /\ \A i \in 1 .. Len(log) : log'[i] = log[i]
  BY <1>1, <1>2
<1>4. Len(log') <= MaxEffects
  BY <1>1, <1>2, <1>3
<1>5. Catalog!Stored' = Catalog!Stored \cup {[asked |-> q, number |-> n]}
  BY <1>3 DEF Catalog!Stored
<1> QED BY <1>2, <1>3, <1>4, <1>5

LEMMA CatalogGapsFilled ==
    ASSUME NEW S, NEW e, e.number = Catalog!Cardinality(S) + 1, Catalog!IsFiniteSet(S),
           {x.number : x \in S} = 1 .. Catalog!Cardinality(S)
    PROVE  /\ Catalog!IsFiniteSet(S \cup {e})
           /\ {x.number : x \in S \cup {e}} = 1 .. Catalog!Cardinality(S \cup {e})
<1>1. Catalog!Cardinality(S) \in Nat
  BY CatalogFinType
<1>2. e \notin S
  <2> SUFFICES ASSUME e \in S PROVE FALSE
    OBVIOUS
  <2>1. e.number \in 1 .. Catalog!Cardinality(S)
    OBVIOUS
  <2> QED BY <1>1, <2>1
<1>3. Catalog!IsFiniteSet(S \cup {e}) /\ Catalog!Cardinality(S \cup {e}) = Catalog!Cardinality(S) + 1
  BY <1>2, CatalogFinAdd
<1>4. {x.number : x \in S \cup {e}} = {x.number : x \in S} \cup {e.number}
  OBVIOUS
<1>5. 1 .. Catalog!Cardinality(S) + 1 = (1 .. Catalog!Cardinality(S)) \cup {Catalog!Cardinality(S) + 1}
  BY <1>1
<1> QED BY <1>3, <1>4, <1>5

LEMMA CatalogCommitInv ==
    ASSUME Catalog!CatalogInv, NEW h \in CatalogHandler, NEW q \in Catalog!Request,
           NEW n \in Nat, Catalog!Commits(h, q, n),
           q.kind \in Catalog!Locked => catalogSession[h].step \in {"looked", "evaluated"} /\ catalogSession[h].asked = q,
           q.kind \notin {"model", "graph", "rename", "decision"} => Catalog!Prior(q) = {},
           q.kind = "decision" => Catalog!OfKind("decision", q.of) = {},
           q.kind \in {"model", "graph"} => n \notin Catalog!Numbers(q.of),
           q.kind \in {"model", "append"} => n = Catalog!NextNumber(q)
    PROVE  Catalog!CatalogInv'
<1>1. PICK e \in Catalog!Effect : e = [asked |-> q, number |-> n]
  BY DEF Catalog!Effect
<1>2. /\ log' \in Seq(Catalog!Effect) /\ Len(log') <= MaxEffects /\ Len(log) \in Nat
      /\ DOMAIN log = 1 .. Len(log) /\ DOMAIN log' = 1 .. Len(log) + 1
      /\ log'[Len(log) + 1] = e /\ Catalog!Stored' = Catalog!Stored \cup {e}
      /\ \A i \in 1 .. Len(log) : log'[i] = log[i]
  BY <1>1, CatalogCommitGrows DEF Catalog!CatalogInv
<1>3. /\ asked' = asked /\ catalogFaults' \in 0 .. MaxCatalogFaults
      /\ \/ catalogSession' = [catalogSession EXCEPT ![h] = [step |-> "told", asked |-> q, effect |-> e]]
         \/ catalogSession' = [catalogSession EXCEPT ![h] = Catalog!Idle]
  BY <1>1, CatalogPlaneAssumptions DEF Catalog!CatalogInv, Catalog!TypeOK, Catalog!Commits,
     Catalog!Tells, Catalog!Goto, Catalog!Fault, Catalog!CatalogAssumption
<1>4. PICK t \in Catalog!Session : /\ catalogSession' = [catalogSession EXCEPT ![h] = t]
                                   /\ t = Catalog!Idle \/ t = [step |-> "told", asked |-> q, effect |-> e]
  BY <1>3 DEF Catalog!Session
<1>5. /\ catalogSession \in [CatalogHandler -> Catalog!Session] /\ catalogSession' \in [CatalogHandler -> Catalog!Session] /\ catalogSession'[h] = t
      /\ \A g \in CatalogHandler \ {h} : catalogSession'[g] = catalogSession[g]
      /\ t.step \in {"idle", "told"} /\ t.step \notin Catalog!Open
  BY <1>4 DEF Catalog!CatalogInv, Catalog!TypeOK, Catalog!Idle, Catalog!Open
<1>6. Catalog!TypeOK'
  BY <1>2, <1>3, <1>5 DEF Catalog!CatalogInv, Catalog!TypeOK
<1>7. Catalog!LocksExclude'
  BY <1>5 DEF Catalog!CatalogInv, Catalog!LocksExclude, Catalog!Holds
<1>8. /\ \A x : Catalog!Prior(x)' = Catalog!Prior(x) \cup {d \in {e} : q.kind = x.kind /\ q.id = x.id}
      /\ \A kind, of : Catalog!OfKind(kind, of)' = Catalog!OfKind(kind, of) \cup {d \in {e} : q.kind = kind /\ q.of = of}
  BY <1>1, <1>2 DEF Catalog!Prior, Catalog!OfKind
<1>9. ASSUME NEW g \in CatalogHandler PROVE Catalog!Knows(catalogSession[g])'
  <2>1. CASE g = h
    BY <1>5, <2>1 DEF Catalog!Knows, Catalog!Open
  <2>2. CASE g # h
    <3>1. PICK s : s = catalogSession[g] /\ catalogSession'[g] = s /\ Catalog!Knows(s)
      BY <1>5, <2>2 DEF Catalog!CatalogInv
    <3>2. CASE s.step \notin {"looked", "evaluated"}
      BY <3>1, <3>2 DEF Catalog!Knows
    <3>3. CASE s.step \in {"looked", "evaluated"}
      <4>1. Catalog!Holds(g) /\ s.asked.kind \in Catalog!Locked
        BY <3>1, <3>3 DEF Catalog!Holds, Catalog!Knows, Catalog!Open
      <4>2. q.kind \in Catalog!Locked => Catalog!LockOf(q) # Catalog!LockOf(s.asked)
        <5> SUFFICES ASSUME q.kind \in Catalog!Locked
                     PROVE  Catalog!LockOf(q) # Catalog!LockOf(s.asked)
          OBVIOUS
        <5>1. Catalog!Holds(h) /\ catalogSession[h].asked = q
          BY DEF Catalog!Holds, Catalog!Open
        <5> QED BY <2>2, <3>1, <4>1, <5>1 DEF Catalog!CatalogInv, Catalog!LocksExclude
      <4>3. s.asked.kind \in {"run", "result"} => Catalog!Prior(s.asked)' = Catalog!Prior(s.asked)
        BY <1>8, <4>1, <4>2 DEF Catalog!LockOf
      <4>4. s.asked.kind = "append" => \A d \in Catalog!Prior(s.asked)' \ Catalog!Prior(s.asked) : d.asked.of # s.asked.of
        BY <1>1, <1>8, <4>1, <4>2 DEF Catalog!LockOf, Catalog!Locked
      <4>5. s.asked.kind = "model" => Catalog!NextNumber(s.asked)' = Catalog!NextNumber(s.asked)
        <5> SUFFICES ASSUME s.asked.kind = "model"
                     PROVE  Catalog!NextNumber(s.asked)' = Catalog!NextNumber(s.asked)
          OBVIOUS
        <5>1. ~(q.kind = "model" /\ q.of = s.asked.of)
          BY <4>2 DEF Catalog!LockOf, Catalog!Locked
        <5>2. Catalog!OfKind("model", s.asked.of)' = Catalog!OfKind("model", s.asked.of)
          BY <1>8, <5>1
        <5> QED BY <3>1, <5>2 DEF Catalog!NextNumber
      <4> QED BY <3>1, <4>3, <4>4, <4>5 DEF Catalog!Knows
    <3> QED BY <3>2, <3>3
  <2> QED BY <2>1, <2>2
<1>10. Catalog!AnswersAgree'
  <2> SUFFICES ASSUME NEW g \in CatalogHandler PROVE Catalog!Agrees(catalogSession[g])'
    BY DEF Catalog!AnswersAgree
  <2>1. CASE g = h
    BY <1>1, <1>2, <1>4, <1>5, <2>1 DEF Catalog!Agrees, Catalog!Idle
  <2>2. CASE g # h
    <3>1. catalogSession'[g] = catalogSession[g] /\ Catalog!Agrees(catalogSession[g])
      BY <1>5, <2>2 DEF Catalog!CatalogInv, Catalog!AnswersAgree
    <3>2. /\ Catalog!Prior(catalogSession[g].asked) \subseteq Catalog!Prior(catalogSession[g].asked)'
          /\ Catalog!Prior(Catalog!Twin(catalogSession[g].asked)) \subseteq Catalog!Prior(Catalog!Twin(catalogSession[g].asked))'
          /\ Catalog!Renames(catalogSession[g].asked) \subseteq Catalog!Renames(catalogSession[g].asked)'
      BY <1>8, <3>1 DEF Catalog!Renames, Catalog!Twin
    <3> QED BY <1>2, <3>1, <3>2 DEF Catalog!Agrees, Catalog!Twin
  <2> QED BY <2>1, <2>2
<1>11. Catalog!RecordedOnce'
  <2> DEFINE N == Len(log) + 1
  <2>1. ASSUME NEW i \in 1 .. Len(log)
        PROVE  /\ log[i].asked.kind = q.kind /\ log[i].asked.id = q.id =>
                      q.kind \in {"model", "graph", "rename", "decision"}
               /\ log[i].asked.kind = "decision" /\ q.kind = "decision" => log[i].asked.of # q.of
    <3>1. log[i] \in Catalog!Stored
      BY <1>2 DEF Catalog!Stored
    <3> QED BY <3>1 DEF Catalog!Prior, Catalog!OfKind
  <2> SUFFICES ASSUME NEW i \in 1 .. N, NEW j \in 1 .. N, i # j
               PROVE  /\ /\ log'[i].asked.kind = log'[j].asked.kind
                         /\ log'[i].asked.id = log'[j].asked.id
                         => log'[i].asked.kind \in {"model", "graph", "rename", "decision"}
                      /\ log'[i].asked.kind = "decision" /\ log'[j].asked.kind = "decision"
                         => log'[i].asked.of # log'[j].asked.of
    BY <1>2 DEF Catalog!RecordedOnce
  <2>2. i \in 1 .. Len(log) \/ i = N
    BY <1>2
  <2>3. j \in 1 .. Len(log) \/ j = N
    BY <1>2
  <2>4. CASE i \in 1 .. Len(log) /\ j \in 1 .. Len(log)
    BY <1>2, <2>4 DEF Catalog!CatalogInv, Catalog!RecordedOnce
  <2>5. CASE i \in 1 .. Len(log) /\ j = N
    BY <1>1, <1>2, <2>1, <2>5
  <2>6. CASE i = N /\ j \in 1 .. Len(log)
    BY <1>1, <1>2, <2>1, <2>6
  <2> QED BY <2>2, <2>3, <2>4, <2>5, <2>6
<1>12. Catalog!NumberedWithoutGaps'
  <2> SUFFICES ASSUME NEW kind \in {"model", "append"}, NEW of \in {x.of : x \in Catalog!Request}
               PROVE  Catalog!IsFiniteSet(Catalog!OfKind(kind, of)') /\ Catalog!WithoutGaps(kind, of)'
    BY DEF Catalog!NumberedWithoutGaps
  <2>1. Catalog!IsFiniteSet(Catalog!OfKind(kind, of)) /\ {x.number : x \in Catalog!OfKind(kind, of)} = 1 .. Catalog!Cardinality(Catalog!OfKind(kind, of))
    BY DEF Catalog!CatalogInv, Catalog!NumberedWithoutGaps, Catalog!WithoutGaps
  <2>2. CASE q.kind = kind /\ q.of = of
    <3>1. Catalog!OfKind(kind, of)' = Catalog!OfKind(kind, of) \cup {e} /\ e.number = Catalog!Cardinality(Catalog!OfKind(kind, of)) + 1
      BY <1>1, <1>8, <2>2 DEF Catalog!NextNumber
    <3>2. PICK S : S = Catalog!OfKind(kind, of)
      OBVIOUS
    <3>3. /\ Catalog!IsFiniteSet(S \cup {e})
          /\ {x.number : x \in S \cup {e}} = 1 .. Catalog!Cardinality(S \cup {e})
      BY <2>1, <3>1, <3>2, CatalogGapsFilled
    <3> QED BY <3>1, <3>2, <3>3 DEF Catalog!WithoutGaps
  <2>3. CASE ~(q.kind = kind /\ q.of = of)
    <3>1. Catalog!OfKind(kind, of)' = Catalog!OfKind(kind, of)
      BY <1>8, <2>3
    <3> QED BY <2>1, <3>1 DEF Catalog!WithoutGaps
  <2> QED BY <2>2, <2>3
<1>13. Catalog!VersionsAreTwinned'
  <2>1. ASSUME NEW d \in Catalog!Stored', d.asked.kind \in {"model", "append"}
        PROVE  Catalog!WithoutGaps(d.asked.kind, d.asked.of)'
    <3>1. Catalog!Stored' \subseteq Catalog!Effect
      BY <1>6 DEF Catalog!TypeOK, Catalog!Stored
    <3>2. d.asked \in Catalog!Request
      BY <3>1 DEF Catalog!Effect
    <3> QED BY <1>12, <2>1, <3>2 DEF Catalog!NumberedWithoutGaps
  <2>2. ASSUME NEW i \in 1 .. Len(log), {log[i].asked.kind, q.kind} \subseteq {"model", "graph"},
               log[i].asked.of = q.of
        PROVE  log[i].number # n
    <3>1. log[i] \in Catalog!Stored
      BY <1>2 DEF Catalog!Stored
    <3>2. log[i].number \in Catalog!Numbers(q.of)
      BY <2>2, <3>1 DEF Catalog!Numbers, Catalog!OfKind
    <3> QED BY <2>2, <3>2
  <2>3. ASSUME NEW i \in DOMAIN log', NEW j \in DOMAIN log', i # j,
               {log'[i].asked.kind, log'[j].asked.kind} \subseteq {"model", "graph"},
               log'[i].asked.of = log'[j].asked.of
        PROVE  log'[i].number # log'[j].number
    <3>1. i \in 1 .. Len(log) \/ i = Len(log) + 1
      BY <1>2
    <3>2. j \in 1 .. Len(log) \/ j = Len(log) + 1
      BY <1>2
    <3>3. CASE i \in 1 .. Len(log) /\ j \in 1 .. Len(log)
      BY <1>2, <2>3, <3>3 DEF Catalog!CatalogInv, Catalog!VersionsAreTwinned
    <3>4. CASE i \in 1 .. Len(log) /\ j = Len(log) + 1
      BY <1>1, <1>2, <2>2, <2>3, <3>4
    <3>5. CASE i = Len(log) + 1 /\ j \in 1 .. Len(log)
      BY <1>1, <1>2, <2>2, <2>3, <3>5
    <3>6. CASE i = Len(log) + 1 /\ j = Len(log) + 1
      BY <2>3, <3>6
    <3> QED BY <3>1, <3>2, <3>3, <3>4, <3>5, <3>6
  <2> QED BY <2>1, <2>3 DEF Catalog!VersionsAreTwinned
<1> QED BY <1>6, <1>7, <1>9, <1>10, <1>11, <1>12, <1>13 DEF Catalog!CatalogInv

-----------------------------------------------------------------------------
(* The requests of a single statement.                                     *)
LEMMA CatalogInitInv == Catalog!Init => Catalog!CatalogInv
<1> SUFFICES ASSUME Catalog!Init PROVE Catalog!CatalogInv
  OBVIOUS
<1>1. /\ catalogSession = [h \in CatalogHandler |-> Catalog!Idle] /\ log = <<>> /\ Catalog!Stored = {}
  BY DEF Catalog!Init, Catalog!Stored
<1>2. Catalog!TypeOK
  BY <1>1, CatalogPlaneAssumptions DEF Catalog!Init, Catalog!TypeOK, Catalog!Session,
     Catalog!CatalogAssumption
<1>3. Catalog!LocksExclude
  BY <1>1 DEF Catalog!LocksExclude, Catalog!Holds, Catalog!Idle, Catalog!Open
<1>4. \A h \in CatalogHandler : Catalog!Knows(catalogSession[h])
  BY <1>1 DEF Catalog!Knows, Catalog!Idle, Catalog!Open
<1>5. Catalog!AnswersAgree
  BY <1>1 DEF Catalog!AnswersAgree, Catalog!Agrees, Catalog!Idle
<1>6. Catalog!RecordedOnce
  BY <1>1 DEF Catalog!RecordedOnce
<1>7. Catalog!VersionsAreTwinned
  BY <1>1 DEF Catalog!VersionsAreTwinned
<1>8. Catalog!NumberedWithoutGaps
  <2>1. \A kind, of : Catalog!OfKind(kind, of) = {}
    BY <1>1 DEF Catalog!OfKind
  <2>2. Catalog!IsFiniteSet({}) /\ Catalog!Cardinality({}) = 0
    BY CatalogFinEmpty
  <2>3. {e.number : e \in {}} = 1 .. 0
    OBVIOUS
  <2> QED BY <2>1, <2>2, <2>3 DEF Catalog!NumberedWithoutGaps, Catalog!WithoutGaps
<1> QED BY <1>2, <1>3, <1>4, <1>5, <1>6, <1>7, <1>8 DEF Catalog!CatalogInv

LEMMA CatalogCreateKeyedInv ==
    ASSUME Catalog!CatalogInv, NEW h \in CatalogHandler, NEW q \in Catalog!Request, Catalog!CreateKeyed(h, q)
    PROVE  Catalog!CatalogInv'
<1>1. q.kind \in {"dataset", "project"}
  BY DEF Catalog!CreateKeyed
<1>2. CASE Catalog!Prior(q) # {}
  BY <1>2, CatalogResolveInv DEF Catalog!CreateKeyed
<1>3. CASE Catalog!Prior(q) = {}
  <2>1. Catalog!Commits(h, q, 0)
    BY <1>3 DEF Catalog!CreateKeyed
  <2> QED BY <1>1, <1>3, <2>1, CatalogCommitInv DEF Catalog!Locked
<1> QED BY <1>2, <1>3

LEMMA CatalogCreateOnceInv ==
    ASSUME Catalog!CatalogInv, NEW h \in CatalogHandler, NEW q \in Catalog!Request, Catalog!CreateOnce(h, q)
    PROVE  Catalog!CatalogInv'
<1>1. q.kind \in Catalog!Once
  BY DEF Catalog!CreateOnce
<1>2. CASE Catalog!Prior(q) # {}
  <2>1. Catalog!Refuses(h, q) /\ q.kind \notin Catalog!Keyed
    BY <1>1, <1>2 DEF Catalog!CreateOnce, Catalog!Once, Catalog!Keyed
  <2> QED BY <2>1, CatalogRefusesInv
<1>3. CASE Catalog!Prior(q) = {}
  <2>1. Catalog!Commits(h, q, 0)
    BY <1>3 DEF Catalog!CreateOnce
  <2> QED BY <1>1, <1>3, <2>1, CatalogCommitInv DEF Catalog!Locked, Catalog!Once
<1> QED BY <1>2, <1>3

LEMMA CatalogCreateConnectionInv ==
    ASSUME Catalog!CatalogInv, NEW h \in CatalogHandler, NEW q \in Catalog!Request,
           q.kind \in {"source", "connector"},
           Catalog!CreateConnection(h, q)
    PROVE  Catalog!CatalogInv'
<1>1. CASE Catalog!Prior(q) # {}
  BY <1>1, CatalogResolveInv DEF Catalog!CreateConnection
<1>2. CASE Catalog!Prior(q) = {} /\ Catalog!Prior(Catalog!Twin(q)) # {}
  BY <1>2, CatalogRefusesInv DEF Catalog!CreateConnection
<1>3. CASE Catalog!Prior(q) = {} /\ Catalog!Prior(Catalog!Twin(q)) = {}
  <2>1. Catalog!Commits(h, q, 0)
    BY <1>3 DEF Catalog!CreateConnection
  <2> QED BY <1>3, <2>1, CatalogCommitInv DEF Catalog!Locked
<1> QED BY <1>1, <1>2, <1>3

LEMMA CatalogFindSourceInv ==
    ASSUME Catalog!CatalogInv, NEW h \in CatalogHandler, NEW q \in Catalog!Request, Catalog!FindSource(h, q)
    PROVE  Catalog!CatalogInv'
<1>1. PICK s : s = [step |-> "sourced", asked |-> q]
  OBVIOUS
<1>2. /\ Catalog!Goto(h, s) /\ UNCHANGED <<asked, log>> /\ catalogFaults' \in 0 .. MaxCatalogFaults
      /\ q.kind = "connector"
  BY <1>1 DEF Catalog!FindSource, Catalog!CatalogInv, Catalog!TypeOK
<1>3. s \in Catalog!Session /\ Catalog!Knows(s) /\ Catalog!Agrees(s) /\ s.step \notin Catalog!Open \ {"sourced"}
  BY <1>1, <1>2 DEF Catalog!Session, Catalog!Knows, Catalog!Agrees, Catalog!Open
<1> QED BY <1>2, <1>3, CatalogQuietInv

LEMMA CatalogReviewInv ==
    ASSUME Catalog!CatalogInv, NEW h \in CatalogHandler, NEW q \in Catalog!Request, Catalog!Review(h, q)
    PROVE  Catalog!CatalogInv'
<1>1. q.kind = "decision"
  BY DEF Catalog!Review
<1>2. CASE Catalog!Proposed(q)
  <2>1. Catalog!Commits(h, q, 0) /\ Catalog!OfKind("decision", q.of) = {}
    BY <1>2 DEF Catalog!Review, Catalog!Proposed
  <2> QED BY <1>1, <2>1, CatalogCommitInv DEF Catalog!Locked
<1>3. CASE ~Catalog!Proposed(q)
  <2>1. Catalog!Refuses(h, q)
    BY <1>3 DEF Catalog!Review
  <2> QED BY <1>1, <2>1, CatalogRefusesInv DEF Catalog!Keyed
<1> QED BY <1>2, <1>3

LEMMA CatalogRenameInv ==
    ASSUME Catalog!CatalogInv, NEW h \in CatalogHandler, NEW q \in Catalog!Request, Catalog!Rename(h, q)
    PROVE  Catalog!CatalogInv'
<1>1. q.kind = "rename" /\ Catalog!Commits(h, q, 0)
  BY DEF Catalog!Rename
<1> QED BY <1>1, CatalogCommitInv DEF Catalog!Locked

LEMMA CatalogCreateGraphModelInv ==
    ASSUME Catalog!CatalogInv, NEW h \in CatalogHandler, NEW q \in Catalog!Request, Catalog!CreateGraphModel(h, q)
    PROVE  Catalog!CatalogInv'
<1>1. q.kind = "graph" /\ q.input \in Nat
  BY CatalogRequestFacts DEF Catalog!CreateGraphModel
<1>2. CASE q.input \in Catalog!Numbers(q.of)
  <2>1. Catalog!Refuses(h, q)
    BY <1>2 DEF Catalog!CreateGraphModel
  <2> QED BY <1>1, <2>1, CatalogRefusesInv DEF Catalog!Keyed
<1>3. CASE q.input \notin Catalog!Numbers(q.of)
  <2>1. Catalog!Commits(h, q, q.input)
    BY <1>3 DEF Catalog!CreateGraphModel
  <2> QED BY <1>1, <1>3, <2>1, CatalogCommitInv DEF Catalog!Locked
<1> QED BY <1>2, <1>3

-----------------------------------------------------------------------------
(* The requests that take a lock.                                          *)
LEMMA CatalogLockInv ==
    ASSUME Catalog!CatalogInv, NEW h \in CatalogHandler, NEW q \in Catalog!Request, Catalog!Lock(h, q)
    PROVE  Catalog!CatalogInv'
<1>1. PICK s : s = [step |-> "locked", asked |-> q]
  OBVIOUS
<1>2. /\ Catalog!Goto(h, s) /\ UNCHANGED <<asked, log>> /\ catalogFaults' \in 0 .. MaxCatalogFaults
      /\ q.kind \in Catalog!Locked /\ \A g \in CatalogHandler : Catalog!Holds(g) => Catalog!LockOf(catalogSession[g].asked) # Catalog!LockOf(q)
  BY <1>1 DEF Catalog!Lock, Catalog!Unlocked, Catalog!CatalogInv, Catalog!TypeOK
<1>3. s \in Catalog!Session /\ Catalog!Knows(s) /\ Catalog!Agrees(s) /\ s.asked = q
  BY <1>1, <1>2 DEF Catalog!Session, Catalog!Knows, Catalog!Agrees, Catalog!Open
<1> QED BY <1>2, <1>3, CatalogQuietInv

LEMMA CatalogLookedInv ==
    ASSUME Catalog!CatalogInv, NEW h \in CatalogHandler, Catalog!Holds(h),
           NEW step \in {"looked", "evaluated"}, NEW n \in Nat,
           Catalog!Looked(h, step, n),
           NEW q \in Catalog!Request, q = catalogSession[h].asked, q.kind \in Catalog!Locked,
           step = "evaluated" => q.kind = "run",
           q.kind \in {"run", "result"} => Catalog!Prior(q) = {},
           q.kind = "append" => \A e \in Catalog!Prior(q) : e.asked.of # q.of,
           q.kind = "model" => n = Catalog!NextNumber(q)
    PROVE  Catalog!CatalogInv'
<1>1. PICK s : s = [step |-> step, asked |-> q, number |-> n]
  OBVIOUS
<1>2. /\ Catalog!Goto(h, s) /\ UNCHANGED <<asked, log>> /\ catalogFaults' \in 0 .. MaxCatalogFaults
  BY <1>1 DEF Catalog!Looked, Catalog!CatalogInv, Catalog!TypeOK
<1>3. s \in Catalog!Session /\ Catalog!Agrees(s) /\ s.asked = q
  BY <1>1 DEF Catalog!Session, Catalog!Agrees
<1>4. Catalog!Knows(s)
  BY <1>1 DEF Catalog!Knows
<1>5. \A g \in CatalogHandler \ {h} : Catalog!Holds(g) => Catalog!LockOf(catalogSession[g].asked) # Catalog!LockOf(s.asked)
  BY <1>3 DEF Catalog!CatalogInv, Catalog!LocksExclude
<1> QED BY <1>2, <1>3, <1>4, <1>5, CatalogQuietInv

LEMMA CatalogAtFacts ==
    ASSUME Catalog!CatalogInv, NEW h \in CatalogHandler,
           NEW step \in Catalog!Open \ {"sourced"}, NEW kind, Catalog!At(h, step, kind)
    PROVE  /\ Catalog!Holds(h) /\ catalogSession[h].step = step /\ catalogSession[h].asked \in Catalog!Request
           /\ catalogSession[h].asked.kind = kind /\ kind \in Catalog!Locked /\ Catalog!Knows(catalogSession[h])
           /\ step \in {"looked", "evaluated"} => catalogSession[h].number \in Nat
<1>1. Catalog!Holds(h) /\ catalogSession[h].step = step /\ catalogSession[h].asked.kind = kind
  BY DEF Catalog!At, Catalog!Holds
<1>2. Catalog!Knows(catalogSession[h]) /\ Catalog!TypeOK
  BY DEF Catalog!CatalogInv
<1> QED BY <1>1, <1>2, CatalogSessionFacts DEF Catalog!Knows

LEMMA CatalogLookUpInv ==
    ASSUME Catalog!CatalogInv, NEW h \in CatalogHandler, NEW kind \in {"append", "run",
           "result"},
           Catalog!At(h, "locked", kind), Catalog!LookUp(h)
    PROVE  Catalog!CatalogInv'
<1>1. PICK q \in Catalog!Request : q = catalogSession[h].asked
  BY CatalogAtFacts DEF Catalog!Open
<1>2. Catalog!Holds(h) /\ q.kind = kind /\ kind \in Catalog!Locked
  BY <1>1, CatalogAtFacts DEF Catalog!Open
<1>3. CASE Catalog!Prior(q) # {}
  BY <1>1, <1>3, CatalogResolveInv DEF Catalog!LookUp
<1>4. CASE Catalog!Prior(q) = {}
  <2>1. Catalog!Looked(h, "looked", 0)
    BY <1>1, <1>4 DEF Catalog!LookUp
  <2> QED BY <1>1, <1>2, <1>4, <2>1, CatalogLookedInv
<1> QED BY <1>3, <1>4

LEMMA CatalogNumberModelInv ==
    ASSUME Catalog!CatalogInv, NEW h \in CatalogHandler, Catalog!NumberModel(h)
    PROVE  Catalog!CatalogInv'
<1>1. PICK q \in Catalog!Request : q = catalogSession[h].asked
  BY CatalogAtFacts DEF Catalog!Open, Catalog!NumberModel
<1>2. Catalog!Holds(h) /\ q.kind = "model" /\ q.kind \in Catalog!Locked /\ Catalog!Looked(h, "looked", Catalog!NextNumber(q))
  BY <1>1, CatalogAtFacts DEF Catalog!Open, Catalog!NumberModel
<1>3. Catalog!NextNumber(q) \in Nat
  <2>1. Catalog!IsFiniteSet(Catalog!OfKind("model", q.of))
    BY DEF Catalog!CatalogInv, Catalog!NumberedWithoutGaps
  <2>2. Catalog!Cardinality(Catalog!OfKind("model", q.of)) \in Nat
    BY <2>1, CatalogFinType
  <2> QED BY <1>2, <2>2 DEF Catalog!NextNumber
<1> QED BY <1>1, <1>2, <1>3, CatalogLookedInv

LEMMA CatalogEvaluateInv ==
    ASSUME Catalog!CatalogInv, NEW h \in CatalogHandler, Catalog!Evaluate(h)
    PROVE  Catalog!CatalogInv'
<1>1. PICK q \in Catalog!Request : q = catalogSession[h].asked
  BY CatalogAtFacts DEF Catalog!Open, Catalog!Evaluate
<1>2. /\ Catalog!Holds(h) /\ q.kind = "run" /\ q.kind \in Catalog!Locked /\ Catalog!Looked(h, "evaluated", Catalog!Cardinality(Catalog!Rules))
      /\ Catalog!Prior(q) = {}
  BY <1>1, CatalogAtFacts DEF Catalog!Open, Catalog!Evaluate, Catalog!Knows
<1>3. Catalog!Cardinality(Catalog!Rules) \in Nat
  <2>1. log \in Seq(Catalog!Effect)
    BY DEF Catalog!CatalogInv, Catalog!TypeOK
  <2>2. Catalog!Rules \in SUBSET {log[i] : i \in DOMAIN log}
    BY DEF Catalog!Rules, Catalog!Stored
  <2>3. Catalog!IsFiniteSet(Catalog!Rules)
    BY <2>1, <2>2, CatalogFinRange
  <2> QED BY <2>3, CatalogFinType
<1> QED BY <1>1, <1>2, <1>3, CatalogLookedInv

LEMMA CatalogInsertModelInv ==
    ASSUME Catalog!CatalogInv, NEW h \in CatalogHandler, Catalog!InsertModel(h)
    PROVE  Catalog!CatalogInv'
<1>1. PICK q \in Catalog!Request, n \in Nat : q = catalogSession[h].asked /\ n = catalogSession[h].number
  BY CatalogAtFacts DEF Catalog!Open, Catalog!InsertModel
<1>2. /\ catalogSession[h].step = "looked" /\ q.kind = "model" /\ n = Catalog!NextNumber(q)
      /\ Catalog!InsertIf(h, ~Catalog!Twinned(q, n), n)
  BY <1>1, CatalogAtFacts DEF Catalog!Open, Catalog!InsertModel, Catalog!Knows
<1>3. CASE Catalog!Twinned(q, n)
  <2>1. Catalog!Refuses(h, q)
    BY <1>1, <1>2, <1>3 DEF Catalog!InsertIf
  <2> QED BY <1>2, <2>1, CatalogRefusesInv DEF Catalog!Keyed
<1>4. CASE ~Catalog!Twinned(q, n)
  <2>1. Catalog!Commits(h, q, n) /\ n \notin Catalog!Numbers(q.of)
    BY <1>1, <1>2, <1>4 DEF Catalog!InsertIf, Catalog!Twinned
  <2> QED BY <1>1, <1>2, <2>1, CatalogCommitInv
<1> QED BY <1>3, <1>4

LEMMA CatalogInsertVersionInv ==
    ASSUME Catalog!CatalogInv, NEW h \in CatalogHandler, Catalog!InsertVersion(h)
    PROVE  Catalog!CatalogInv'
<1>1. PICK q \in Catalog!Request : q = catalogSession[h].asked
  BY CatalogAtFacts DEF Catalog!Open, Catalog!InsertVersion
<1>2. /\ catalogSession[h].step = "looked" /\ q.kind = "append" /\ \A e \in Catalog!Prior(q) : e.asked.of # q.of
      /\ Catalog!InsertIf(h, Catalog!Prior(q) = {}, Catalog!NextNumber(q))
  BY <1>1, CatalogAtFacts DEF Catalog!Open, Catalog!InsertVersion, Catalog!Knows
<1>3. CASE Catalog!Prior(q) # {}
  <2>1. Catalog!Refuses(h, q)
    BY <1>1, <1>2, <1>3 DEF Catalog!InsertIf
  <2>2. \E e \in Catalog!Prior(q) : e.asked # q
    BY <1>2, <1>3
  <2> QED BY <2>1, <2>2, CatalogRefusesInv
<1>4. CASE Catalog!Prior(q) = {}
  <2>1. Catalog!Commits(h, q, Catalog!NextNumber(q))
    BY <1>1, <1>2, <1>4 DEF Catalog!InsertIf
  <2>2. Catalog!IsFiniteSet(Catalog!OfKind("append", q.of))
    BY DEF Catalog!CatalogInv, Catalog!NumberedWithoutGaps
  <2>3. Catalog!Cardinality(Catalog!OfKind("append", q.of)) \in Nat
    BY <2>2, CatalogFinType
  <2>4. Catalog!NextNumber(q) \in Nat
    BY <1>2, <2>3 DEF Catalog!NextNumber
  <2> QED BY <1>1, <1>2, <1>4, <2>1, <2>4, CatalogCommitInv
<1> QED BY <1>3, <1>4

LEMMA CatalogInsertRunInv ==
    ASSUME Catalog!CatalogInv, NEW h \in CatalogHandler, Catalog!InsertRun(h)
    PROVE  Catalog!CatalogInv'
<1>1. PICK q \in Catalog!Request, n \in Nat : q = catalogSession[h].asked /\ n = catalogSession[h].number
  BY CatalogAtFacts DEF Catalog!Open, Catalog!InsertRun
<1>2. /\ catalogSession[h].step = "evaluated" /\ q.kind = "run" /\ Catalog!Prior(q) = {}
      /\ Catalog!InsertIf(h, Catalog!Prior(q) = {}, n)
  BY <1>1, CatalogAtFacts DEF Catalog!Open, Catalog!InsertRun, Catalog!Knows
<1>3. Catalog!Commits(h, q, n)
  BY <1>1, <1>2 DEF Catalog!InsertIf
<1> QED BY <1>1, <1>2, <1>3, CatalogCommitInv

LEMMA CatalogInsertResultInv ==
    ASSUME Catalog!CatalogInv, NEW h \in CatalogHandler, Catalog!InsertResult(h)
    PROVE  Catalog!CatalogInv'
<1>1. PICK q \in Catalog!Request : q = catalogSession[h].asked
  BY CatalogAtFacts DEF Catalog!Open, Catalog!InsertResult
<1>2. /\ catalogSession[h].step = "looked" /\ q.kind = "result" /\ Catalog!Prior(q) = {}
      /\ Catalog!InsertIf(h, TRUE, 0)
  BY <1>1, CatalogAtFacts DEF Catalog!Open, Catalog!InsertResult, Catalog!Knows
<1>3. Catalog!Commits(h, q, 0)
  BY <1>1, <1>2 DEF Catalog!InsertIf
<1> QED BY <1>1, <1>2, <1>3, CatalogCommitInv

LEMMA CatalogFailInv == ASSUME Catalog!CatalogInv, NEW h \in CatalogHandler, Catalog!Fail(h) PROVE Catalog!CatalogInv'
<1>1. Catalog!Goto(h, Catalog!Idle) /\ UNCHANGED <<asked, log>> /\ catalogFaults' \in 0 .. MaxCatalogFaults
  BY CatalogPlaneAssumptions DEF Catalog!Fail, Catalog!Fault, Catalog!CatalogInv,
     Catalog!TypeOK, Catalog!CatalogAssumption
<1>2. Catalog!Idle \in Catalog!Session /\ Catalog!Knows(Catalog!Idle) /\ Catalog!Agrees(Catalog!Idle) /\ Catalog!Idle.step \notin Catalog!Open
  BY DEF Catalog!Session, Catalog!Idle, Catalog!Knows, Catalog!Agrees, Catalog!Open
<1> QED BY <1>1, <1>2, CatalogQuietInv

LEMMA CatalogStepInv == ASSUME Catalog!CatalogInv, Catalog!Next \/ UNCHANGED Catalog!vars PROVE Catalog!CatalogInv'
<1>1. CASE UNCHANGED Catalog!vars
  <2>1. UNCHANGED <<asked, log, catalogSession, catalogFaults>>
    BY <1>1 DEF Catalog!vars
  <2>2. Catalog!Stored' = Catalog!Stored
    BY <2>1 DEF Catalog!Stored
  <2>3. /\ \A q : Catalog!Prior(q)' = Catalog!Prior(q) /\ Catalog!Renames(q)' = Catalog!Renames(q) /\ Catalog!NextNumber(q)' = Catalog!NextNumber(q)
        /\ \A kind, of : Catalog!OfKind(kind, of)' = Catalog!OfKind(kind, of) /\ Catalog!WithoutGaps(kind, of)' = Catalog!WithoutGaps(kind, of)
    BY <2>2 DEF Catalog!Prior, Catalog!Renames, Catalog!NextNumber, Catalog!OfKind,
       Catalog!WithoutGaps
  <2>4. Catalog!TypeOK' /\ Catalog!LocksExclude' /\ Catalog!RecordedOnce' /\ Catalog!VersionsAreTwinned' /\ Catalog!NumberedWithoutGaps'
    BY <2>1, <2>2, <2>3 DEF Catalog!CatalogInv, Catalog!TypeOK, Catalog!LocksExclude,
       Catalog!Holds, Catalog!RecordedOnce, Catalog!VersionsAreTwinned,
       Catalog!NumberedWithoutGaps
  <2>5. \A h \in CatalogHandler : Catalog!Knows(catalogSession[h])' /\ Catalog!Agrees(catalogSession[h])'
    BY <2>1, <2>2, <2>3 DEF Catalog!CatalogInv, Catalog!AnswersAgree, Catalog!Knows,
       Catalog!Agrees
  <2> QED BY <2>4, <2>5 DEF Catalog!CatalogInv, Catalog!AnswersAgree
<1>2. ASSUME NEW h \in CatalogHandler, NEW q \in asked,
             \/ Catalog!CreateKeyed(h, q) \/ Catalog!CreateOnce(h, q) \/ Catalog!CreateSource(h, q) \/ Catalog!FindSource(h, q)
             \/ Catalog!Review(h, q) \/ Catalog!Rename(h, q) \/ Catalog!CreateGraphModel(h, q) \/ Catalog!Lock(h, q)
      PROVE  Catalog!CatalogInv'
  <2>1. q \in Catalog!Request
    BY CatalogStoredFacts DEF Catalog!CatalogInv
  <2>2. CASE Catalog!CreateSource(h, q)
    BY <2>1, <2>2, CatalogCreateConnectionInv DEF Catalog!CreateSource
  <2> QED BY <1>2, <2>1, <2>2, CatalogCreateKeyedInv, CatalogCreateOnceInv,
             CatalogFindSourceInv, CatalogReviewInv, CatalogRenameInv,
             CatalogCreateGraphModelInv, CatalogLockInv
<1>3. ASSUME NEW h \in CatalogHandler, Catalog!CreateConnector(h) PROVE Catalog!CatalogInv'
  <2>1. catalogSession[h].step = "sourced" /\ Catalog!CreateConnection(h, catalogSession[h].asked)
    BY <1>3 DEF Catalog!CreateConnector
  <2>2. catalogSession[h].asked \in Catalog!Request /\ catalogSession[h].asked.kind = "connector"
    BY <2>1, CatalogSessionFacts DEF Catalog!CatalogInv, Catalog!Knows, Catalog!Open
  <2> QED BY <2>1, <2>2, CatalogCreateConnectionInv
<1>4. ASSUME NEW h \in CatalogHandler, Catalog!LookForVersion(h) \/ Catalog!LookForRun(h) \/ Catalog!LookForResult(h)
      PROVE  Catalog!CatalogInv'
  BY <1>4, CatalogLookUpInv DEF Catalog!LookForVersion, Catalog!LookForRun,
     Catalog!LookForResult
<1>5. ASSUME NEW h \in CatalogHandler, \/ Catalog!NumberModel(h) \/ Catalog!Evaluate(h) \/ Catalog!InsertModel(h) \/ Catalog!InsertVersion(h)
                                       \/ Catalog!InsertRun(h) \/ Catalog!InsertResult(h) \/ Catalog!Fail(h)
      PROVE  Catalog!CatalogInv'
  BY <1>5, CatalogNumberModelInv, CatalogEvaluateInv, CatalogInsertModelInv,
     CatalogInsertVersionInv, CatalogInsertRunInv, CatalogInsertResultInv, CatalogFailInv
<1> QED BY <1>1, <1>2, <1>3, <1>4, <1>5 DEF Catalog!Next

(***************************************************************************)
(* For any handlers and requests, however replies are lost, transactions   *)
(* fail and clients ask again: a client is told what is stored under its   *)
(* key, a row and a decision are made once, and the versions of a model or *)
(* a pipeline have no gap (the PostgreSQL catalog's create methods,        *)
(* triggerPipelineRun(), appendPipelineVersion(), recordQualityResult()).  *)
(***************************************************************************)
THEOREM CatalogStaysExact == CatalogPlaneSpec => []CatalogAnswersOnce
<1> DEFINE I == catalogPart = "catalog" => Catalog!CatalogInv
<1>1. CatalogPlaneInit => I
  BY CatalogInitInv DEF CatalogPlaneInit
<1>2. I /\ [CatalogPlaneNext]_catalogPlaneVars => I'
  <2> SUFFICES ASSUME I, [CatalogPlaneNext]_catalogPlaneVars, catalogPart' = "catalog"
               PROVE  Catalog!CatalogInv'
    OBVIOUS
  <2>1. catalogPart = "catalog" /\ Catalog!CatalogInv
    BY DEF CatalogPlaneNext, catalogPlaneVars
  <2>2. Catalog!Next \/ UNCHANGED Catalog!vars
    BY <2>1 DEF CatalogPlaneNext, catalogPlaneVars, catalogVars, Catalog!vars
  <2> QED BY <2>1, <2>2, CatalogStepInv
<1>3. I => CatalogAnswersOnce
  BY DEF CatalogAnswersOnce, Catalog!CatalogInv
<1> QED BY <1>1, <1>2, <1>3, PTL DEF CatalogPlaneSpec

-----------------------------------------------------------------------------
(* Paging.  Its finite sets are those of the library.                      *)
LEMMA PagesFinite ==
    ASSUME NEW S
    PROVE  /\ Pages!IsFiniteSet(S) <=> IsFiniteSet(S)
           /\ Pages!Cardinality(S) = Cardinality(S)
<1>1. Pages!IsFiniteSet(S) <=> IsFiniteSet(S)
  BY DEF Pages!IsFiniteSet, IsFiniteSet
<1>2. Pages!Cardinality(S) = Cardinality(S)
  BY DEF Pages!Cardinality, Cardinality
<1> QED BY <1>1, <1>2

LEMMA PagesFinType == ASSUME NEW S, Pages!IsFiniteSet(S) PROVE Pages!Cardinality(S) \in Nat
<1>1. IsFiniteSet(S) /\ Pages!Cardinality(S) = Cardinality(S)
  BY PagesFinite
<1> QED BY <1>1, FS_CardinalityType

LEMMA PagesFinSubset ==
    ASSUME NEW S, Pages!IsFiniteSet(S), NEW T \in SUBSET S
    PROVE  /\ Pages!IsFiniteSet(T) /\ Pages!Cardinality(T) <= Pages!Cardinality(S)
           /\ Pages!Cardinality(S) = Pages!Cardinality(T) => S = T
<1>1. IsFiniteSet(S) /\ Pages!Cardinality(S) = Cardinality(S) /\ Pages!Cardinality(T) = Cardinality(T)
  BY PagesFinite
<1>2. IsFiniteSet(T) /\ Cardinality(T) <= Cardinality(S) /\ (Cardinality(S) = Cardinality(T) => S = T)
  BY <1>1, FS_Subset
<1> QED BY <1>1, <1>2, PagesFinite

LEMMA PagesFinAdd ==
    ASSUME NEW S, NEW e, Pages!IsFiniteSet(S) PROVE Pages!IsFiniteSet(S \cup {e})
<1>1. IsFiniteSet(S)
  BY PagesFinite
<1>2. IsFiniteSet(S \cup {e})
  BY <1>1, FS_AddElement
<1> QED BY <1>2, PagesFinite

LEMMA PagesFinImage ==
    ASSUME NEW S, Pages!IsFiniteSet(S), NEW T, NEW f \in [S -> T], \A t \in T : \E s \in S : f[s] = t
    PROVE  Pages!IsFiniteSet(T)
<1>1. f \in Surjection(S, T)
  BY DEF Surjection
<1>2. IsFiniteSet(S)
  BY PagesFinite
<1>3. IsFiniteSet(T)
  BY <1>1, <1>2, FS_Surjection
<1> QED BY <1>3, PagesFinite

(* A list without repetitions has as many places as elements.              *)
LEMMA PagesFinCount ==
    ASSUME NEW n \in Nat, NEW T, NEW f \in [1 .. n -> T],
           \A t \in T : \E s \in 1 .. n : f[s] = t,
           \A i, j \in 1 .. n : f[i] = f[j] => i = j
    PROVE  Pages!IsFiniteSet(T) /\ Pages!Cardinality(T) = n
<1>1. f \in Surjection(1 .. n, T) /\ f \in Injection(1 .. n, T)
  BY DEF Surjection, Injection, IsInjective
<1>2. IsFiniteSet(1 .. n) /\ Cardinality(1 .. n) = n
  BY FS_Interval
<1>3. IsFiniteSet(T) /\ Cardinality(T) = n
  BY <1>1, <1>2, FS_Surjection
<1> QED BY <1>3, PagesFinite

LEMMA PagesFinOnto ==
    ASSUME NEW S, Pages!IsFiniteSet(S), NEW f \in [1 .. Pages!Cardinality(S) -> S],
           \A i, j \in 1 .. Pages!Cardinality(S) : f[i] = f[j] => i = j
    PROVE  \A t \in S : \E i \in 1 .. Pages!Cardinality(S) : f[i] = t
<1>1. IsFiniteSet(S) /\ Pages!Cardinality(S) = Cardinality(S)
  BY PagesFinite
<1>2. PICK n \in Nat : n = Cardinality(S)
  BY <1>1, FS_CardinalityType
<1>3. f \in Injection(1 .. n, S)
  BY <1>1, <1>2 DEF Injection, IsInjective
<1>4. IsFiniteSet(1 .. n) /\ Cardinality(1 .. n) = n
  BY FS_Interval
<1>5. f \in Surjection(1 .. n, S)
  BY <1>1, <1>2, <1>3, <1>4, FS_Injection
<1> QED BY <1>1, <1>2, <1>5 DEF Surjection

(* The rows.                                                               *)

LEMMA PagesFinGrow ==
    ASSUME NEW S, Pages!IsFiniteSet(S), NEW e, NEW T \in SUBSET (S \cup {e}), NEW n \in Nat,
           Pages!Cardinality(S) <= n
    PROVE  Pages!IsFiniteSet(T) /\ Pages!Cardinality(T) <= n + 1
<1>1. IsFiniteSet(S) /\ Cardinality(S) <= n /\ Cardinality(S) \in Nat
  BY PagesFinite, FS_CardinalityType
<1>2. IsFiniteSet(S \cup {e}) /\ Cardinality(S \cup {e}) <= n + 1 /\ Cardinality(S \cup {e}) \in Nat
  BY <1>1, FS_AddElement
<1>3. IsFiniteSet(T) /\ Cardinality(T) <= Cardinality(S \cup {e}) /\ Cardinality(T) \in Nat
  BY <1>2, FS_Subset, FS_CardinalityType
<1>4. Cardinality(T) <= n + 1
  BY <1>2, <1>3
<1> QED BY <1>3, <1>4, PagesFinite

(* Different elements with different numbers below a bound.                *)
LEMMA PagesFinInto ==
    ASSUME NEW S, NEW m \in Nat, NEW l \in Nat, NEW f \in [S -> m .. (m + l - 1)],
           \A a, b \in S : f[a] = f[b] => a = b
    PROVE  Pages!IsFiniteSet(S) /\ Pages!Cardinality(S) <= l
<1>1. f \in Injection(S, m .. (m + l - 1))
  BY DEF Injection, IsInjective
<1>2. IsFiniteSet(m .. (m + l - 1)) /\ Cardinality(m .. (m + l - 1)) = l
  <2>1. m \in Int /\ m + l - 1 \in Int /\ (m > m + l - 1 <=> l = 0) /\ (m + l - 1) - m + 1 = l
    OBVIOUS
  <2> QED BY <2>1, FS_Interval
<1>3. IsFiniteSet(S) /\ Cardinality(S) <= l
  BY <1>1, <1>2, FS_Injection
<1> QED BY <1>3, PagesFinite

(* Of S, a list of as many different elements lacks no more than it has    *)
(* elements outside of S.                                                  *)
LEMMA PagesFinLack ==
    ASSUME NEW S, Pages!IsFiniteSet(S), NEW T, Pages!IsFiniteSet(T), NEW G \in SUBSET T,
           Pages!Cardinality(S) <= Pages!Cardinality(G), NEW n \in Nat, Pages!Cardinality(T \ S) <= n
    PROVE  Pages!IsFiniteSet(S \ G) /\ Pages!Cardinality(S \ G) <= n
<1>1. /\ IsFiniteSet(S) /\ IsFiniteSet(T) /\ IsFiniteSet(G) /\ IsFiniteSet(T \ S) /\ IsFiniteSet(G \ S)
      /\ Cardinality(S) <= Cardinality(G) /\ Cardinality(T \ S) <= n
  <2>1. IsFiniteSet(S) /\ IsFiniteSet(T)
    BY PagesFinite
  <2>2. IsFiniteSet(G) /\ IsFiniteSet(T \ S)
    BY <2>1, FS_Subset
  <2>3. IsFiniteSet(G \ S)
    BY <2>2, FS_Subset
  <2> QED BY <2>1, <2>2, <2>3, PagesFinite
<1>2. /\ Cardinality(S \ G) = Cardinality(S) - Cardinality(S \cap G) /\ IsFiniteSet(S \ G)
      /\ Cardinality(G \ S) = Cardinality(G) - Cardinality(G \cap S)
  BY <1>1, FS_Difference
<1>3. Cardinality(G \ S) <= Cardinality(T \ S)
  <2>1. G \ S \in SUBSET (T \ S)
    OBVIOUS
  <2> QED BY <1>1, <2>1, FS_Subset
<1>4. PICK a, b, c, d, e, h : /\ a = Cardinality(S) /\ b = Cardinality(G) /\ c = Cardinality(S \cap G)
                              /\ d = Cardinality(T \ S) /\ e = Cardinality(S \ G) /\ h = Cardinality(G \ S)
  OBVIOUS
<1>5. G \cap S = S \cap G
  OBVIOUS
<1>6. a \in Nat /\ b \in Nat /\ d \in Nat /\ e \in Nat /\ h \in Nat /\ c \in Nat
  <2>1. IsFiniteSet(S \cap G)
    BY <1>1, FS_Subset
  <2> QED BY <1>1, <1>2, <1>4, <2>1, FS_CardinalityType
<1>7. e <= n
  BY <1>1, <1>2, <1>3, <1>4, <1>5, <1>6
<1> QED BY <1>2, <1>4, <1>7, PagesFinite

(* The rows.                                                               *)
PagesRow == [id : RowId, key : Pages!Keys(listing)]

LEMMA PagesKeyFacts ==
    ASSUME Pages!TypeOK
    PROVE  /\ RowId \subseteq Nat /\ Pages!Keys(listing) \subseteq Nat \cup {Null} /\ Null \notin Nat
           /\ listing.grain \in Nat \ {0} /\ limit \in Nat \ {0}
           /\ listing.order \in {"id", "newest", "ascending", "descending"}
           /\ listing.by \in {"cursor", "offset", "counted"}
           /\ listing.order = "newest" => Pages!Keys(listing) \subseteq Nat
           /\ listing.by # "cursor" => listing.changes \subseteq {"add", "move"}
           /\ MaxPageChanges \in Nat
<1>1. PICK l : l = listing /\ l \in Listing /\ limit \in Limit
  BY DEF Pages!TypeOK
<1>2. /\ RowId \subseteq Nat /\ SortKey \subseteq Nat /\ Null \notin Nat /\ limit \in Nat \ {0}
      /\ l.order \in {"id", "newest", "ascending", "descending"}
      /\ l.by \in {"cursor", "offset", "counted"}
      /\ l.grain \in Nat \ {0}
      /\ l.by # "cursor" => l.changes \subseteq {"add", "move"}
      /\ MaxPageChanges \in Nat
  BY <1>1, CatalogPlaneAssumptions DEF Pages!PagingAssumption
<1>3. Pages!Keys(l) \subseteq Nat \cup {Null} /\ (l.order = "newest" => Pages!Keys(l) \subseteq Nat)
  <2>1. CASE l.order = "id"
    BY <2>1 DEF Pages!Keys
  <2>2. CASE l.order = "newest"
    BY <1>2, <2>2 DEF Pages!Keys
  <2>3. CASE l.order \in {"ascending", "descending"}
    BY <1>2, <2>3 DEF Pages!Keys
  <2> QED BY <1>2, <2>1, <2>2, <2>3
<1> QED BY <1>1, <1>2, <1>3

LEMMA PagesFiniteItems ==
    ASSUME NEW S, Pages!IsFiniteSet(S), NEW t
    PROVE  Pages!IsFiniteSet({[id |-> r, key |-> t[r]] : r \in S})
<1>1. PICK I, f : I = {[id |-> r, key |-> t[r]] : r \in S} /\ f = [r \in S |-> [id |-> r, key |-> t[r]]]
  OBVIOUS
<1>2. f \in [S -> I] /\ \A x \in I : \E r \in S : f[r] = x
  BY <1>1
<1> QED BY <1>1, <1>2, PagesFinImage

LEMMA PagesItemFacts ==
    ASSUME Pages!TypeOK
    PROVE  /\ Pages!Items \subseteq PagesRow /\ Pages!IsFiniteSet(Pages!Items)
           /\ Pages!IsFiniteSet(DOMAIN rows)
           /\ \A r \in DOMAIN rows : /\ Pages!Row(r) \in Pages!Items /\ Pages!Row(r) \in PagesRow
                                     /\ Pages!Row(r).id = r /\ Pages!Row(r).key = rows[r]
           /\ \A x \in Pages!Items : x.id \in DOMAIN rows /\ x = Pages!Row(x.id)
           /\ steady \subseteq DOMAIN rows
<1>1. PICK S \in SUBSET RowId : Pages!IsFiniteSet(S) /\ rows \in [S -> Pages!Keys(listing)]
  BY DEF Pages!TypeOK, Pages!Tables
<1>2. /\ DOMAIN rows = S /\ Pages!Items \subseteq PagesRow /\ steady \subseteq S
      /\ \A r \in DOMAIN rows : /\ Pages!Row(r) \in Pages!Items /\ Pages!Row(r) \in PagesRow
                                /\ Pages!Row(r).id = r /\ Pages!Row(r).key = rows[r]
      /\ \A x \in Pages!Items : x.id \in DOMAIN rows /\ x = Pages!Row(x.id)
  BY <1>1 DEF Pages!Items, Pages!Row, PagesRow, Pages!TypeOK
<1>3. Pages!IsFiniteSet(Pages!Items)
  BY <1>1, <1>2, PagesFiniteItems DEF Pages!Items
<1> QED BY <1>1, <1>2, <1>3

(* What a cursor carries of a time.                                        *)
LEMMA PagesCarriedFacts ==
    ASSUME Pages!TypeOK, NEW k \in Nat
    PROVE  /\ Pages!Carried(k) \in Nat /\ Pages!Carried(k) <= k
           /\ listing.grain = 1 => Pages!Carried(k) = k
           /\ \A a \in Nat : Pages!Carried(k) <= a /\ a <= k => Pages!Carried(a) = Pages!Carried(k)
           /\ Pages!Carried(Pages!Carried(k)) = Pages!Carried(k)
<1>1. PICK g \in Nat \ {0} : g = listing.grain /\ Null \notin Nat
  BY PagesKeyFacts
<1>2. \A b \in Nat : Pages!Carried(b) = b - (b % g)
  BY <1>1 DEF Pages!Carried
<1>3. \A b \in Nat : b % g \in 0 .. (g - 1) /\ b = g * (b \div g) + (b % g) /\ b \div g \in Nat
  OBVIOUS
<1>4. Pages!Carried(k) = g * (k \div g) /\ Pages!Carried(k) \in Int /\ Pages!Carried(k) <= k
  BY <1>2, <1>3
<1>5. Pages!Carried(k) \in Nat
  BY <1>3, <1>4
<1>6. g = 1 => Pages!Carried(k) = k
  BY <1>2
<1>7. ASSUME NEW a \in Nat, Pages!Carried(k) <= a, a <= k
      PROVE  Pages!Carried(a) = Pages!Carried(k)
  <2>1. PICK q \in Nat, p \in Nat : q = k \div g /\ p = a \div g
    BY <1>3
  <2>2. g * q <= a /\ a < g * q + g /\ g * p <= a /\ a < g * p + g
    BY <1>3, <1>4, <1>7, <2>1
  <2>3. p = q
    <3>1. CASE p < q
      <4>1. g * (p + 1) <= g * q /\ g * (p + 1) = g * p + g
        BY <3>1
      <4> QED BY <2>2, <4>1
    <3>2. CASE q < p
      <4>1. g * (q + 1) <= g * p /\ g * (q + 1) = g * q + g
        BY <3>2
      <4> QED BY <2>2, <4>1
    <3> QED BY <3>1, <3>2
  <2>4. Pages!Carried(a) = g * p
    BY <1>2, <1>3, <2>1
  <2> QED BY <1>4, <2>1, <2>3, <2>4
<1> QED BY <1>4, <1>5, <1>1, <1>6, <1>7

(* The order of a listing.                                                 *)
LEMMA PagesOrderFacts ==
    ASSUME Pages!TypeOK, NEW x \in PagesRow, NEW y \in PagesRow, NEW z \in PagesRow
    PROVE  /\ ~ Pages!Precedes(x, x)
           /\ Pages!Precedes(x, y) /\ Pages!Precedes(y, z) => Pages!Precedes(x, z)
           /\ x.id # y.id => Pages!Precedes(x, y) \/ Pages!Precedes(y, x)
<1>1. /\ x.id \in Nat /\ y.id \in Nat /\ z.id \in Nat /\ Null \notin Nat
      /\ x.key \in Nat \cup {Null} /\ y.key \in Nat \cup {Null} /\ z.key \in Nat \cup {Null}
      /\ listing.order = "newest" => x.key \in Nat /\ y.key \in Nat /\ z.key \in Nat
      /\ listing.order \in {"id", "newest", "ascending", "descending"}
  BY PagesKeyFacts DEF PagesRow
<1>2. CASE listing.order = "id"
  BY <1>1, <1>2 DEF Pages!Precedes
<1>3. CASE listing.order = "newest"
  BY <1>1, <1>3 DEF Pages!Precedes
<1>4. CASE listing.order = "ascending"
  BY <1>1, <1>4 DEF Pages!Precedes
<1>5. CASE listing.order = "descending"
  BY <1>1, <1>5 DEF Pages!Precedes
<1> QED BY <1>1, <1>2, <1>3, <1>4, <1>5

(* A list in order holds every item once.                                  *)
LEMMA PagesInOrderFacts ==
    ASSUME Pages!TypeOK, NEW S \in SUBSET Pages!Items, NEW all \in Pages!InOrder(S)
    PROVE  \E n \in Nat :
              /\ n = Len(all) /\ DOMAIN all = 1 .. n /\ all \in Seq(PagesRow) /\ all \in [1 .. n -> S]
              /\ \A i, j \in 1 .. n : i < j <=> Pages!Precedes(all[i], all[j])
              /\ \A i, j \in 1 .. n : all[i] = all[j] => i = j
              /\ \A x \in S : \E i \in 1 .. n : all[i] = x
              /\ Pages!IsFiniteSet(S) /\ n = Pages!Cardinality(S)
<1>1. Pages!IsFiniteSet(S) /\ S \subseteq PagesRow
  BY PagesItemFacts, PagesFinSubset
<1>2. PICK n \in Nat : n = Pages!Cardinality(S)
  BY <1>1, PagesFinType
<1>3. all \in [1 .. n -> S] /\ \A i, j \in 1 .. n : i < j => Pages!Precedes(all[i], all[j])
  BY <1>2 DEF Pages!InOrder
<1>4. all \in Seq(PagesRow) /\ Len(all) = n /\ DOMAIN all = 1 .. n /\ \A i \in 1 .. n : all[i] \in PagesRow
  BY <1>1, <1>3
<1>5. \A i, j \in 1 .. n : i < j <=> Pages!Precedes(all[i], all[j])
  <2> SUFFICES ASSUME NEW i \in 1 .. n, NEW j \in 1 .. n, Pages!Precedes(all[i], all[j]), ~ (i < j)
               PROVE  FALSE
    BY <1>3
  <2>1. CASE i = j
    BY <1>4, <2>1, PagesOrderFacts
  <2>2. CASE j < i
    <3>1. Pages!Precedes(all[j], all[i])
      BY <1>3, <2>2
    <3> QED BY <1>4, <3>1, PagesOrderFacts
  <2> QED BY <2>1, <2>2
<1>6. \A i, j \in 1 .. n : all[i] = all[j] => i = j
  <2> SUFFICES ASSUME NEW i \in 1 .. n, NEW j \in 1 .. n, all[i] = all[j], i # j PROVE FALSE
    OBVIOUS
  <2>1. i < j \/ j < i
    OBVIOUS
  <2>2. ~ Pages!Precedes(all[i], all[i])
    BY <1>4, PagesOrderFacts
  <2> QED BY <1>3, <2>1, <2>2
<1>7. \A x \in S : \E i \in 1 .. n : all[i] = x
  BY <1>1, <1>2, <1>3, <1>6, PagesFinOnto
<1> QED BY <1>1, <1>2, <1>3, <1>4, <1>5, <1>6, <1>7

(* s is a list of A's: those of seq after the first skip, at most n.       *)
PagesIsSlice(s, A, seq, skip, n) ==
    \E m \in Nat :
       /\ s \in Seq(A) /\ Len(s) = m /\ DOMAIN s = 1 .. m
       /\ \A i \in Nat : i \in 1 .. m <=> i \in 1 .. n /\ skip + i <= Len(seq)
       /\ \A i \in 1 .. m : s[i] = seq[skip + i]

LEMMA PagesSliceFacts ==
    ASSUME NEW A, NEW seq \in Seq(A), NEW skip \in Nat, NEW n \in Nat
    PROVE  PagesIsSlice(Pages!Slice(seq, skip, n), A, seq, skip, n)
<1>1. PICK k \in Nat : k = Len(seq) /\ DOMAIN seq = 1 .. k
  OBVIOUS
<1>2. PICK m \in Nat : m = IF skip >= k THEN 0 ELSE IF skip + n <= k THEN n ELSE k - skip
  <2>1. (IF skip >= k THEN 0 ELSE IF skip + n <= k THEN n ELSE k - skip) \in Nat
    OBVIOUS
  <2> QED BY <2>1
<1>3. \A i \in Nat : i \in 1 .. m <=> i \in 1 .. n /\ skip + i <= k
  BY <1>2
<1>4. {i \in 1 .. n : skip + i <= k} = 1 .. m
  <2>1. ASSUME NEW i \in 1 .. m PROVE i \in 1 .. n /\ skip + i <= k
    <3>1. i \in Nat
      OBVIOUS
    <3> QED BY <1>3, <3>1
  <2>2. ASSUME NEW i \in 1 .. n, skip + i <= k PROVE i \in 1 .. m
    <3>1. i \in Nat
      OBVIOUS
    <3> QED BY <1>3, <2>2, <3>1
  <2> QED BY <2>1, <2>2
<1>5. PICK s : s = Pages!Slice(seq, skip, n)
  OBVIOUS
<1>6. s = [i \in 1 .. m |-> seq[skip + i]]
  BY <1>1, <1>4, <1>5 DEF Pages!Slice
<1>7. ASSUME NEW i \in 1 .. m PROVE skip + i \in 1 .. k /\ seq[skip + i] \in A
  <2>1. i \in Nat /\ i > 0
    OBVIOUS
  <2>2. skip + i <= k
    BY <1>3, <2>1
  <2>3. skip + i \in 1 .. k
    BY <2>1, <2>2
  <2> QED BY <1>1, <2>3
<1>8. s \in [1 .. m -> A]
  BY <1>6, <1>7
<1>9. s \in Seq(A) /\ Len(s) = m /\ DOMAIN s = 1 .. m
  BY <1>8
<1> QED BY <1>1, <1>3, <1>5, <1>6, <1>9 DEF PagesIsSlice

(* A cursor is made of a row that was beyond the last one: what was passed *)
(* stays passed or shares its millisecond read upwards, what is before the *)
(* row is passed likewise, and what is after it is beyond, unless it has   *)
(* the row's millisecond and is not read upwards.                          *)
LEMMA PagesCursorFacts ==
    ASSUME Pages!TypeOK, NEW z \in PagesRow
    PROVE  LET c == Pages!CursorOf(z)
           IN /\ c.at = "row" /\ c.id = z.id /\ c.id \in Nat /\ c.key = Pages!Carried(z.key)
              /\ c \in [at : {"start", "row", "counted", "end"}, key : Nat \cup {Null}, id : Nat]
              /\ z.key = Null <=> c.key = Null
              /\ z.key \in Nat => /\ c.key \in Nat /\ c.key <= z.key
                                  /\ listing.grain = 1 => c.key = z.key
                                  /\ \A a \in Nat : c.key <= a /\ a <= z.key => Pages!Carried(a) = c.key
                                  /\ Pages!Carried(c.key) = c.key
<1>1. z.id \in Nat /\ z.key \in Nat \cup {Null} /\ Null \notin Nat
  BY PagesKeyFacts DEF PagesRow
<1>2. PICK c : c = Pages!CursorOf(z) /\ c = [at |-> "row", key |-> Pages!Carried(z.key), id |-> z.id]
  BY DEF Pages!CursorOf
<1>3. CASE z.key = Null
  <2>1. Pages!Carried(z.key) = Null
    BY <1>3 DEF Pages!Carried
  <2> QED BY <1>1, <1>2, <1>3, <2>1
<1>4. CASE z.key \in Nat
  BY <1>1, <1>2, <1>4, PagesCarriedFacts
<1> QED BY <1>1, <1>3, <1>4

(* Read upwards: an item is beyond a cursor with key k and id i.           *)
PagesAfter(x, k, i) ==
    \/ x.key = Null /\ k # Null
    \/ x.key = k /\ x.id > i
    \/ x.key # Null /\ k # Null /\ x.key > k

(* Passed by the cursor, or of the millisecond the cursor was cut to.      *)
PagesPassed(x, k, i) ==
    PagesAfter(x, k, i) => listing.grain > 1 /\ x.key # Null /\ Pages!Carried(x.key) = k

LEMMA PagesUpwards ==
    ASSUME Pages!TypeOK, NEW w \in PagesRow, NEW z \in PagesRow, NEW x \in PagesRow,
           PagesPassed(x, Pages!CursorOf(w).key, w.id), PagesAfter(z, Pages!CursorOf(w).key, w.id)
    PROVE  PagesPassed(x, Pages!CursorOf(z).key, z.id)
<1>1. /\ x.id \in Nat /\ z.id \in Nat /\ w.id \in Nat /\ Null \notin Nat
      /\ x.key \in Nat \cup {Null} /\ z.key \in Nat \cup {Null} /\ w.key \in Nat \cup {Null}
      /\ listing.grain \in Nat \ {0}
  BY PagesKeyFacts DEF PagesRow
<1>2. PICK k \in Nat \cup {Null} :
         /\ k = Pages!CursorOf(w).key
         /\ k # Null => Pages!Carried(k) = k
  BY <1>1, PagesCursorFacts
<1>3. PICK n \in Nat \cup {Null} :
         /\ n = Pages!CursorOf(z).key
         /\ z.key = Null <=> n = Null
         /\ z.key \in Nat => /\ n \in Nat /\ n <= z.key /\ (listing.grain = 1 => n = z.key)
                             /\ \A a \in Nat : n <= a /\ a <= z.key => Pages!Carried(a) = n
                             /\ Pages!Carried(n) = n
  BY <1>1, PagesCursorFacts
<1>4. PagesPassed(x, k, w.id) /\ PagesAfter(z, k, w.id)
  BY <1>2, <1>3
<1>5. PagesPassed(x, n, z.id)
  <2>1. CASE z.key = Null
    BY <1>1, <1>3, <1>4, <2>1 DEF PagesPassed, PagesAfter
  <2>2. CASE z.key # Null /\ k = Null
    BY <1>1, <1>2, <1>4, <2>2 DEF PagesAfter
  <2>3. CASE z.key # Null /\ k # Null /\ x.key = Null
    BY <1>1, <1>4, <2>3 DEF PagesPassed, PagesAfter
  <2>4. CASE z.key # Null /\ k # Null /\ x.key # Null
    <3>1. z.key \in Nat /\ k \in Nat /\ x.key \in Nat /\ n \in Nat /\ k <= z.key /\ n <= z.key
      BY <1>1, <1>3, <1>4, <2>4 DEF PagesAfter
    <3>2. k <= n
      <4>1. k < n \/ k = n \/ n < k
        BY <3>1
      <4>2. n < k => Pages!Carried(k) = n
        BY <1>3, <3>1
      <4>3. Pages!Carried(k) = k
        BY <1>1, <1>2, <3>1
      <4> QED BY <3>1, <4>1, <4>2, <4>3
    <3>3. CASE PagesAfter(x, k, w.id)
      <4>1. listing.grain > 1 /\ Pages!Carried(x.key) = k
        BY <1>4, <3>3 DEF PagesPassed
      <4>2. CASE n = k
        BY <2>4, <4>1, <4>2 DEF PagesPassed
      <4>3. CASE k < n
        <5>1. x.key < n
          <6>1. \A a \in Nat : k <= a /\ a <= x.key => Pages!Carried(a) = k
            BY <1>1, <3>1, <4>1, PagesCarriedFacts
          <6>2. n <= x.key => Pages!Carried(n) = k
            BY <3>1, <4>3, <6>1
          <6> QED BY <1>1, <1>3, <3>1, <4>3, <6>2
        <5> QED BY <1>1, <3>1, <5>1 DEF PagesPassed, PagesAfter
      <4> QED BY <3>1, <3>2, <4>2, <4>3
    <3>4. CASE ~ PagesAfter(x, k, w.id)
      <4>1. x.key < k \/ (x.key = k /\ x.id <= w.id)
        BY <1>1, <2>4, <3>1, <3>4 DEF PagesAfter
      <4>2. CASE x.key < n
        BY <1>1, <3>1, <4>2 DEF PagesPassed, PagesAfter
      <4>3. CASE x.key = n /\ k = n /\ x.id <= w.id
        <5>1. Pages!Carried(x.key) = n
          BY <1>3, <3>1, <4>3
        <5>2. listing.grain = 1 => z.id > w.id
          BY <1>1, <1>3, <1>4, <3>1, <4>3 DEF PagesAfter
        <5>3. listing.grain = 1 \/ listing.grain > 1
          BY <1>1
        <5> QED BY <1>1, <2>4, <3>1, <4>3, <5>1, <5>2, <5>3 DEF PagesPassed, PagesAfter
      <4> QED BY <3>1, <3>2, <4>1, <4>2, <4>3
    <3> QED BY <3>3, <3>4
  <2> QED BY <2>1, <2>2, <2>3, <2>4
<1> QED BY <1>3, <1>5

LEMMA PagesPassedStays ==
    ASSUME Pages!TypeOK, NEW w \in PagesRow, cursor = Pages!CursorOf(w),
           NEW z \in PagesRow, cursor' = Pages!CursorOf(z), UNCHANGED listing, Pages!Beyond(z),
           NEW x \in PagesRow, Pages!Beyond(x) => Pages!Again(x)
    PROVE  Pages!Beyond(x)' => Pages!Again(x)'
<1>1. /\ x.id \in Nat /\ z.id \in Nat /\ Null \notin Nat
      /\ x.key \in Nat \cup {Null} /\ z.key \in Nat \cup {Null}
      /\ listing.order = "newest" => x.key \in Nat /\ z.key \in Nat /\ w.key \in Nat
      /\ listing.order \in {"id", "newest", "ascending", "descending"}
  BY PagesKeyFacts DEF PagesRow
<1>2. PICK k \in Nat \cup {Null}, i \in Nat :
         /\ k = cursor.key /\ i = cursor.id /\ cursor.at = "row" /\ i = w.id /\ k = Pages!CursorOf(w).key
         /\ listing.order = "newest" => k \in Nat
  BY <1>1, PagesCursorFacts
<1>3. PICK n \in Nat \cup {Null} :
         /\ n = cursor'.key /\ cursor'.at = "row" /\ cursor'.id = z.id /\ n = Pages!CursorOf(z).key
         /\ z.key = Null <=> n = Null
         /\ z.key \in Nat => n \in Nat /\ n <= z.key /\ (listing.grain = 1 => n = z.key)
  BY PagesCursorFacts
<1>4. CASE listing.order = "id"
  BY <1>1, <1>2, <1>3, <1>4 DEF Pages!Beyond, Pages!Again
<1>5. CASE listing.order = "newest"
  BY <1>1, <1>2, <1>3, <1>5 DEF Pages!Beyond, Pages!Again
<1>6. CASE listing.order = "ascending"
  <2>1. PagesPassed(x, k, i) /\ PagesAfter(z, k, i)
    BY <1>2, <1>6 DEF Pages!Beyond, Pages!Again, PagesPassed, PagesAfter
  <2>2. PagesPassed(x, n, z.id)
    BY <1>2, <1>3, <2>1, PagesUpwards
  <2>3. Pages!Carried(x.key)' = Pages!Carried(x.key)
    BY DEF Pages!Carried
  <2> QED BY <1>3, <1>6, <2>2, <2>3 DEF Pages!Beyond, Pages!Again, PagesPassed, PagesAfter
<1>7. CASE listing.order = "descending"
  BY <1>1, <1>2, <1>3, <1>7 DEF Pages!Beyond, Pages!Again
<1> QED BY <1>1, <1>4, <1>5, <1>6, <1>7

LEMMA PagesPassedNow ==
    ASSUME Pages!TypeOK, NEW z \in PagesRow, cursor' = Pages!CursorOf(z), UNCHANGED listing,
           NEW x \in PagesRow, x = z \/ Pages!Precedes(x, z)
    PROVE  Pages!Beyond(x)' => Pages!Again(x)'
<1>1. /\ x.id \in Nat /\ z.id \in Nat /\ Null \notin Nat
      /\ x.key \in Nat \cup {Null} /\ z.key \in Nat \cup {Null}
      /\ listing.order = "newest" => x.key \in Nat /\ z.key \in Nat
      /\ listing.order \in {"id", "newest", "ascending", "descending"}
      /\ listing.grain \in Nat \ {0}
  BY PagesKeyFacts DEF PagesRow
<1>3. PICK n \in Nat \cup {Null} :
         /\ n = cursor'.key /\ cursor'.at = "row" /\ cursor'.id = z.id
         /\ z.key = Null <=> n = Null
         /\ z.key \in Nat => /\ n \in Nat /\ n <= z.key /\ (listing.grain = 1 => n = z.key)
                             /\ \A a \in Nat : n <= a /\ a <= z.key => Pages!Carried(a) = n
  BY PagesCursorFacts
<1>4. CASE listing.order = "id"
  BY <1>1, <1>3, <1>4 DEF Pages!Beyond, Pages!Precedes
<1>5. CASE listing.order = "newest"
  BY <1>1, <1>3, <1>5 DEF Pages!Beyond, Pages!Precedes
<1>6. CASE listing.order = "ascending"
  <2>1. CASE x.key = Null \/ z.key = Null
    BY <1>1, <1>3, <1>6, <2>1 DEF Pages!Beyond, Pages!Precedes
  <2>2. CASE x.key \in Nat /\ z.key \in Nat
    <3>1. x.key < z.key \/ (x.key = z.key /\ x.id <= z.id)
      BY <1>1, <1>6, <2>2 DEF Pages!Precedes
    <3>2. ASSUME Pages!Beyond(x)' PROVE n <= x.key /\ x.key <= z.key /\ listing.grain > 1
      BY <1>1, <1>3, <1>6, <2>2, <3>1, <3>2 DEF Pages!Beyond
    <3>3. ASSUME Pages!Beyond(x)' PROVE Pages!Carried(x.key) = n
      BY <1>3, <2>2, <3>2, <3>3
    <3>4. Pages!Carried(x.key)' = Pages!Carried(x.key)
      BY DEF Pages!Carried
    <3> QED BY <1>1, <1>3, <1>6, <2>2, <3>2, <3>3, <3>4 DEF Pages!Again
  <2> QED BY <1>1, <2>1, <2>2
<1>7. CASE listing.order = "descending"
  BY <1>1, <1>3, <1>7 DEF Pages!Beyond, Pages!Precedes
<1> QED BY <1>1, <1>4, <1>5, <1>6, <1>7

LEMMA PagesBeyondStays ==
    ASSUME Pages!TypeOK, NEW z \in PagesRow, cursor' = Pages!CursorOf(z), UNCHANGED listing,
           NEW y \in PagesRow, Pages!Precedes(z, y)
    PROVE  \/ Pages!Beyond(y)'
           \/ /\ listing.grain > 1 /\ listing.order # "ascending" /\ y.key # Null
              /\ Pages!Carried(z.key) = Pages!Carried(y.key)
<1>1. /\ y.id \in Nat /\ z.id \in Nat /\ Null \notin Nat
      /\ y.key \in Nat \cup {Null} /\ z.key \in Nat \cup {Null}
      /\ listing.order = "newest" => y.key \in Nat /\ z.key \in Nat
      /\ listing.order \in {"id", "newest", "ascending", "descending"}
      /\ listing.grain \in Nat \ {0}
  BY PagesKeyFacts DEF PagesRow
<1>2. PICK n \in Nat \cup {Null} :
         /\ n = cursor'.key /\ cursor'.at = "row" /\ cursor'.id = z.id
         /\ z.key = Null <=> n = Null
         /\ z.key \in Nat => /\ n \in Nat /\ n <= z.key /\ (listing.grain = 1 => n = z.key)
                             /\ n = Pages!Carried(z.key)
  BY PagesCursorFacts
<1>3. z.key \in Nat /\ y.key \in Nat /\ n <= y.key /\ y.key <= z.key => Pages!Carried(y.key) = Pages!Carried(z.key)
  BY <1>2, PagesCarriedFacts
<1>4. CASE listing.order = "id"
  BY <1>1, <1>2, <1>4 DEF Pages!Beyond, Pages!Precedes
<1>5. CASE listing.order = "newest"
  BY <1>1, <1>2, <1>3, <1>5 DEF Pages!Beyond, Pages!Precedes
<1>6. CASE listing.order = "ascending"
  BY <1>1, <1>2, <1>6 DEF Pages!Beyond, Pages!Precedes
<1>7. CASE listing.order = "descending"
  <2>1. CASE y.key = Null \/ z.key = Null
    BY <1>1, <1>2, <1>7, <2>1 DEF Pages!Beyond, Pages!Precedes
  <2>2. CASE y.key \in Nat /\ z.key \in Nat
    BY <1>1, <1>2, <1>3, <1>7, <2>2 DEF Pages!Beyond, Pages!Precedes
  <2> QED BY <1>1, <2>1, <2>2
<1> QED BY <1>1, <1>4, <1>5, <1>6, <1>7

-----------------------------------------------------------------------------
(* A page.  What is asked of the rows that stay is asked of their items.   *)
LEMMA PagesHalves ==
    ASSUME NEW m \in Nat, NEW k \in Nat, NEW i \in 1 .. m + k
    PROVE  i \in 1 .. m \/ \E q \in 1 .. k : i = m + q
<1>1. CASE i <= m
  BY <1>1
<1>2. CASE m < i
  <2>1. i - m \in 1 .. k /\ i = m + (i - m)
    BY <1>2
  <2> QED BY <2>1
<1> QED BY <1>1, <1>2

(* A page that is full ends where another page may begin.                  *)
LEMMA PagesNextEnd == ASSUME NEW m \in Nat, NEW l \in Nat \ {0}, m % l = 0 PROVE (m + l) % l = 0
<1>1. PICK q \in Nat : q = m \div l
  OBVIOUS
<1>2. PICK p \in Nat, r \in Nat : p = (m + l) \div l /\ r = (m + l) % l
  OBVIOUS
<1>3. m = l * q + (m % l) /\ m + l = l * p + r /\ r < l
  BY <1>1, <1>2
<1>4. l * q + l = l * (q + 1) /\ l * (q + 1) = l * p + r
  BY <1>3
<1>5. p = q + 1
  <2>1. CASE p < q + 1
    <3>1. l * (p + 1) <= l * (q + 1) /\ l * (p + 1) = l * p + l
      BY <2>1
    <3> QED BY <1>3, <1>4, <3>1
  <2>2. CASE q + 1 < p
    <3>1. l * (q + 2) <= l * p /\ l * (q + 2) = l * (q + 1) + l
      BY <2>2
    <3> QED BY <1>3, <1>4, <3>1
  <2> QED BY <2>1, <2>2
<1> QED BY <1>2, <1>4, <1>5

LEMMA PagesFetchedType ==
    ASSUME Pages!PagingInv, UNCHANGED <<listing, limit, rows, steady, pageChanges>>,
           NEW page \in Seq(Pages!Items), NEW end, Pages!Upto(page, end),
           end \in {Pages!At("row"), Pages!At("end")} \/ (\E z \in PagesRow : end = Pages!CursorOf(z))
    PROVE  /\ Pages!TypeOK' /\ listed' \in Seq(PagesRow)
           /\ \E m, k \in Nat :
                 /\ m = Len(listed) /\ k = Len(page) /\ Len(listed') = m + k
                 /\ DOMAIN listed = 1 .. m /\ DOMAIN page = 1 .. k /\ DOMAIN listed' = 1 .. m + k
                 /\ \A i \in 1 .. m : listed'[i] = listed[i] /\ listed[i] \in PagesRow
                 /\ \A i \in 1 .. k : listed'[m + i] = page[i] /\ page[i] \in Pages!Items
<1>1. /\ Pages!TypeOK /\ Null \notin Nat /\ Pages!Items \subseteq PagesRow /\ listed \in Seq(PagesRow) /\ page \in Seq(PagesRow)
      /\ listed' = listed \o page /\ cursor' = end
  <2>1. Pages!TypeOK
    BY DEF Pages!PagingInv
  <2>2. Null \notin Nat /\ Pages!Items \subseteq PagesRow
    BY <2>1, PagesKeyFacts, PagesItemFacts
  <2>3. listed \in Seq(PagesRow)
    BY <2>1 DEF Pages!TypeOK, PagesRow
  <2>4. page \in Seq(PagesRow)
    BY <2>2
  <2> QED BY <2>1, <2>2, <2>3, <2>4 DEF Pages!Upto
<1>2. PICK m \in Nat, k \in Nat :
         m = Len(listed) /\ k = Len(page) /\ DOMAIN listed = 1 .. m /\ DOMAIN page = 1 .. k
  BY <1>1
<1>3. listed' \in Seq(PagesRow) /\ Len(listed') = m + k /\ DOMAIN listed' = 1 .. m + k
  BY <1>1, <1>2
<1>4. \A i \in 1 .. m : listed'[i] = listed[i] /\ listed[i] \in PagesRow
  BY <1>1, <1>2
<1>5. \A i \in 1 .. k : listed'[m + i] = page[i] /\ page[i] \in Pages!Items
  BY <1>1, <1>2
<1>7. end \in [at : {"start", "row", "counted", "end"}, key : Nat \cup {Null}, id : Nat]
  <2>1. CASE \E z \in PagesRow : end = Pages!CursorOf(z)
    <3>1. PICK z \in PagesRow : end = Pages!CursorOf(z)
      BY <2>1
    <3> QED BY <1>1, <3>1, PagesCursorFacts
  <2>2. CASE ~ \E z \in PagesRow : end = Pages!CursorOf(z)
    BY <2>2 DEF Pages!At
  <2> QED BY <2>1, <2>2
<1>8. Pages!TypeOK'
  BY <1>1, <1>3, <1>7 DEF Pages!TypeOK, Pages!Tables, PagesRow
<1> QED BY <1>2, <1>3, <1>4, <1>5, <1>8

LEMMA PagesFetchPageInv == ASSUME Pages!PagingInv, Pages!FetchPage PROVE Pages!PagingInv'
<1>1. Pages!TypeOK /\ Pages!GivenAsTheyAre /\ Pages!ByCursor /\ Pages!ByOffset
  BY DEF Pages!PagingInv
<1>2. /\ listing.by = "cursor" /\ cursor.at # "end"
      /\ UNCHANGED <<listing, limit, rows, steady, pageChanges>>
  BY DEF Pages!FetchPage
<1>3. PICK ahead, batch, page :
         /\ ahead \in Pages!InOrder({x \in Pages!Items : Pages!Beyond(x)})
         /\ batch = Pages!Slice(ahead, 0, limit + 1) /\ page = Pages!Slice(batch, 0, limit)
         /\ Pages!Upto(page, IF Pages!HasMore(batch) THEN Pages!CursorOf(page[Len(page)]) ELSE Pages!At("end"))
  BY DEF Pages!FetchPage
<1>4. PICK S \in SUBSET Pages!Items : S = {x \in Pages!Items : Pages!Beyond(x)}
  OBVIOUS
<1>5. PICK n \in Nat :
         /\ n = Len(ahead) /\ DOMAIN ahead = 1 .. n /\ ahead \in [1 .. n -> S]
         /\ \A i, j \in 1 .. n : i < j <=> Pages!Precedes(ahead[i], ahead[j])
         /\ \A i, j \in 1 .. n : ahead[i] = ahead[j] => i = j
         /\ \A x \in S : \E i \in 1 .. n : ahead[i] = x
  <2>1. ahead \in Pages!InOrder(S)
    BY <1>3, <1>4
  <2> QED BY <1>1, <2>1, PagesInOrderFacts
<1>6. PICK l \in Nat : l = limit /\ l # 0
  BY <1>1, PagesKeyFacts
<1>7. PICK b \in Nat :
         /\ batch \in Seq(S) /\ Len(batch) = b
         /\ \A i \in Nat : i \in 1 .. b <=> i \in 1 .. l + 1 /\ i <= n
         /\ \A i \in 1 .. b : batch[i] = ahead[i]
  <2>1. ahead \in Seq(S)
    BY <1>5
  <2>2. l + 1 \in Nat /\ batch = Pages!Slice(ahead, 0, l + 1)
    BY <1>3, <1>6
  <2>3. PagesIsSlice(batch, S, ahead, 0, l + 1)
    BY <2>1, <2>2, PagesSliceFacts
  <2>4. \A i \in Nat : 0 + i = i
    OBVIOUS
  <2> QED BY <1>5, <2>3, <2>4 DEF PagesIsSlice
<1>8. PICK k \in Nat :
         /\ page \in Seq(S) /\ Len(page) = k /\ DOMAIN page = 1 .. k
         /\ \A i \in Nat : i \in 1 .. k <=> i \in 1 .. l /\ i <= b
         /\ \A i \in 1 .. k : page[i] = batch[i]
  <2>1. page = Pages!Slice(batch, 0, l)
    BY <1>3, <1>6
  <2>2. PagesIsSlice(page, S, batch, 0, l)
    BY <1>6, <1>7, <2>1, PagesSliceFacts
  <2>3. \A i \in Nat : 0 + i = i
    OBVIOUS
  <2> QED BY <1>7, <2>2, <2>3 DEF PagesIsSlice
<1>9. /\ \A i \in 1 .. k : i \in 1 .. n /\ page[i] = ahead[i] /\ page[i] \in Pages!Items /\ Pages!Beyond(page[i])
      /\ Pages!HasMore(batch) <=> b > l
      /\ b > l => k = l /\ k \in 1 .. k
      /\ ~ (b > l) => k = n
      /\ n \in Nat /\ k <= n
  <2>1. \A i \in 1 .. k : i \in 1 .. n /\ page[i] = ahead[i] /\ ahead[i] \in S
    <3>1. \A i \in 1 .. k : i \in Nat /\ i \in 1 .. l /\ i \in 1 .. b /\ page[i] = batch[i]
      BY <1>8
    <3>2. \A i \in 1 .. b : i \in 1 .. n /\ batch[i] = ahead[i]
      BY <1>7
    <3> QED BY <1>5, <3>1, <3>2
  <2>2. Pages!HasMore(batch) <=> b > l
    BY <1>6, <1>7 DEF Pages!HasMore
  <2>3. b > l => k = l
    <3> SUFFICES ASSUME b > l PROVE k = l
      OBVIOUS
    <3>1. l \in 1 .. k
      BY <1>6, <1>8
    <3>2. ~ (l + 1 \in 1 .. k)
      BY <1>6, <1>8
    <3> QED BY <3>1, <3>2
  <2>4. ~ (b > l) => k = n
    <3> SUFFICES ASSUME b <= l PROVE k = n
      OBVIOUS
    <3>1. PICK c \in Nat : c = b + 1 /\ ~ (c \in 1 .. b) /\ c \in 1 .. l + 1
      OBVIOUS
    <3>2. n <= b
      <4>1. ~ (c <= n)
        BY <1>7, <3>1
      <4> QED BY <3>1, <4>1
    <3>3. b = 0 \/ b \in 1 .. b
      OBVIOUS
    <3>4. b <= n
      BY <1>7, <3>3
    <3>5. b <= k
      BY <1>8, <3>3
    <3>6. k = 0 \/ k \in 1 .. k
      OBVIOUS
    <3>7. k <= b
      BY <1>8, <3>6
    <3> QED BY <3>2, <3>4, <3>5, <3>7
  <2>5. k <= n
    <3>1. k = 0 \/ k \in 1 .. k
      OBVIOUS
    <3> QED BY <2>1, <3>1
  <2> QED BY <1>4, <1>6, <2>1, <2>2, <2>3, <2>4, <2>5
<1>10. PICK end : /\ end = IF b > l THEN Pages!CursorOf(page[k]) ELSE Pages!At("end")
                  /\ Pages!Upto(page, end)
  BY <1>3, <1>8, <1>9
<1>11. b > l => page[k] \in Pages!Items /\ page[k] \in PagesRow /\ Pages!Beyond(page[k])
  BY <1>1, <1>9, PagesItemFacts
<1>12. /\ Pages!TypeOK' /\ listed' \in Seq(PagesRow) /\ cursor' = end
       /\ \E m \in Nat :
             /\ m = Len(listed) /\ DOMAIN listed = 1 .. m /\ DOMAIN listed' = 1 .. m + k
             /\ \A i \in 1 .. m : listed'[i] = listed[i] /\ listed[i] \in PagesRow
             /\ \A i \in 1 .. k : listed'[m + i] = page[i] /\ page[i] \in Pages!Items
  <2>1. page \in Seq(Pages!Items)
    BY <1>8, <1>9
  <2>2. end = Pages!At("end") \/ (\E z \in PagesRow : end = Pages!CursorOf(z))
    BY <1>10, <1>11
  <2>3. /\ Pages!TypeOK' /\ listed' \in Seq(PagesRow)
        /\ \E m, h \in Nat :
                 /\ m = Len(listed) /\ h = Len(page) /\ Len(listed') = m + h
                 /\ DOMAIN listed = 1 .. m /\ DOMAIN page = 1 .. h /\ DOMAIN listed' = 1 .. m + h
                 /\ \A i \in 1 .. m : listed'[i] = listed[i] /\ listed[i] \in PagesRow
                 /\ \A i \in 1 .. h : listed'[m + i] = page[i] /\ page[i] \in Pages!Items
    BY <1>2, <1>10, <2>1, <2>2, PagesFetchedType
  <2>4. cursor' = end
    BY <1>10 DEF Pages!Upto
  <2> QED BY <1>8, <2>3, <2>4
<1>13. PICK m \in Nat :
         /\ m = Len(listed) /\ DOMAIN listed = 1 .. m /\ DOMAIN listed' = 1 .. m + k
         /\ \A i \in 1 .. m : listed'[i] = listed[i] /\ listed[i] \in PagesRow
         /\ \A i \in 1 .. k : listed'[m + i] = page[i] /\ page[i] \in Pages!Items
  BY <1>12
<1>14. cursor.at = "start" \/ cursor.at = "row"
  BY <1>1, <1>2 DEF Pages!TypeOK, Pages!ByCursor
<1>15. cursor.at = "start" => m = 0
  BY <1>1, <1>2, <1>13 DEF Pages!ByCursor
<1>16. cursor.at = "row" =>
          /\ m \in 1 .. m /\ m \in Pages!PageEnds /\ cursor = Pages!CursorOf(listed[m])
          /\ \A i \in 1 .. m : Pages!Beyond(listed[i]) => Pages!Again(listed[i])
  BY <1>1, <1>2, <1>13 DEF Pages!ByCursor, Pages!PageEnds
<1>17. m % l = 0
  <2>1. 0 % l = 0
    BY <1>6
  <2> QED BY <1>1, <1>2, <1>6, <1>13, <1>14, <1>15, <2>1 DEF Pages!ByCursor
<1>18. /\ \A i \in 1 .. m : i \in 1 .. m + k /\ listed'[i] = listed[i]
       /\ \A i \in 1 .. k : m + i \in 1 .. m + k /\ listed'[m + i] = page[i]
       /\ \A i \in 1 .. m + k : i \in 1 .. m \/ \E q \in 1 .. k : i = m + q
  <2>1. \A i \in 1 .. m + k : i \in 1 .. m \/ \E q \in 1 .. k : i = m + q
    BY PagesHalves
  <2>2. /\ \A i \in 1 .. m : i \in 1 .. m + k
        /\ \A i \in 1 .. k : m + i \in 1 .. m + k
    OBVIOUS
  <2>3. /\ \A i \in 1 .. m : listed'[i] = listed[i]
        /\ \A i \in 1 .. k : listed'[m + i] = page[i]
    BY <1>13
  <2> QED BY <2>1, <2>2, <2>3
<1>19. ASSUME NEW r \in steady, Pages!AtBoundary(r) PROVE Pages!AtBoundary(r)'
  <2>1. PICK i \in Pages!PageEnds : Pages!Carried(listed[i].key) = Pages!Carried(rows[r])
    BY <1>19 DEF Pages!AtBoundary
  <2>2. i \in 1 .. m /\ i % limit = 0
    BY <1>13, <2>1 DEF Pages!PageEnds
  <2>3. i \in Pages!PageEnds'
    BY <1>2, <1>13, <1>18, <2>2 DEF Pages!PageEnds
  <2>4. Pages!Carried(listed'[i].key) = Pages!Carried(rows[r])
    BY <1>18, <2>1, <2>2
  <2>5. Pages!Carried(listed[i].key)' = Pages!Carried(rows[r])'
    BY <1>2, <2>4 DEF Pages!Carried
  <2> QED BY <1>2, <1>19, <2>3, <2>5 DEF Pages!AtBoundary
<1>20. ASSUME NEW r \in steady, listing.grain > 1, rows[r] # Null, NEW i \in 1 .. m + k, i % l = 0,
              Pages!Carried(listed'[i].key) = Pages!Carried(rows[r])
       PROVE  Pages!AtBoundary(r)'
  <2>1. i \in Pages!PageEnds'
    BY <1>2, <1>6, <1>13, <1>20 DEF Pages!PageEnds
  <2>2. Pages!Carried(listed[i].key)' = Pages!Carried(rows[r])'
    BY <1>2, <1>20 DEF Pages!Carried
  <2> QED BY <1>2, <1>20, <2>1, <2>2 DEF Pages!AtBoundary
<1>21. Pages!GivenAsTheyAre'
  <2> SUFFICES ASSUME NEW i \in 1 .. m + k, listed'[i].id \in steady
               PROVE  listed'[i].key = rows[listed'[i].id]
    BY <1>2, <1>13 DEF Pages!GivenAsTheyAre
  <2>1. CASE i \in 1 .. m
    BY <1>1, <1>13, <2>1 DEF Pages!GivenAsTheyAre
  <2>2. ASSUME NEW q \in 1 .. k, i = m + q PROVE listed'[i].key = rows[listed'[i].id]
    <3>1. PICK x \in Pages!Items : x = listed'[i]
      BY <1>13, <2>2
    <3>2. x = Pages!Row(x.id) /\ x.id \in DOMAIN rows
      BY <1>1, PagesItemFacts
    <3> QED BY <3>1, <3>2 DEF Pages!Row
  <2> QED BY <1>18, <2>1, <2>2
<1>22. ASSUME NEW r \in steady, NEW p \in 1 .. m, listed[p].id = r PROVE listed[p] = Pages!Row(r)
  <2>1. listed[p].key = rows[r] /\ listed[p] \in [id : RowId, key : Pages!Keys(listing)]
    BY <1>1, <1>13, <1>22 DEF Pages!GivenAsTheyAre, PagesRow
  <2> QED BY <1>22, <2>1 DEF Pages!Row
<1>23. ASSUME NEW r \in steady, NEW q \in 1 .. k, page[q].id = r
       PROVE  page[q] = Pages!Row(r) /\ page[q] = ahead[q] /\ q \in 1 .. n /\ Pages!Beyond(page[q])
  <2>1. page[q] \in Pages!Items /\ page[q] = ahead[q] /\ q \in 1 .. n /\ Pages!Beyond(page[q])
    BY <1>9
  <2> QED BY <1>1, <1>23, <2>1, PagesItemFacts
<1>24. ASSUME NEW r \in steady, Pages!Repeated(r)'
       PROVE  Pages!AtBoundary(r)' /\ listing.order = "ascending"
  <2>1. PICK i \in 1 .. m + k, j \in 1 .. m + k : i # j /\ listed'[i].id = r /\ listed'[j].id = r
    BY <1>13, <1>24 DEF Pages!Repeated
  <2>2. CASE i \in 1 .. m /\ j \in 1 .. m
    <3>1. Pages!Repeated(r)
      BY <1>13, <2>1, <2>2 DEF Pages!Repeated
    <3>2. Pages!AtBoundary(r) /\ listing.order = "ascending"
      BY <1>1, <1>2, <3>1 DEF Pages!ByCursor, Pages!CursorsStrayAtCutsOnly
    <3> QED BY <1>19, <3>2
  <2>3. ASSUME NEW p \in 1 .. m, NEW q \in 1 .. k, listed'[p].id = r, listed'[m + q].id = r
        PROVE  Pages!AtBoundary(r)' /\ listing.order = "ascending"
    <3>1. listed[p] = Pages!Row(r) /\ page[q] = Pages!Row(r) /\ Pages!Beyond(page[q])
      BY <1>18, <1>22, <1>23, <2>3
    <3>2. cursor.at = "row"
      BY <1>14, <1>15
    <3>3. Pages!Again(Pages!Row(r))
      BY <1>16, <3>1, <3>2
    <3>4. /\ listing.order = "ascending" /\ listing.grain > 1 /\ rows[r] # Null
          /\ Pages!Carried(rows[r]) = cursor.key
      BY <3>3 DEF Pages!Again, Pages!Row
    <3>5. cursor.key = Pages!Carried(listed'[m].key) /\ m \in 1 .. m + k
      BY <1>16, <1>18, <3>2 DEF Pages!CursorOf
    <3> QED BY <1>17, <1>20, <3>4, <3>5
  <2>4. ASSUME NEW p \in 1 .. k, NEW q \in 1 .. k, i = m + p, j = m + q PROVE FALSE
    <3>1. p \in 1 .. n /\ q \in 1 .. n /\ ahead[p] = ahead[q]
      BY <1>18, <1>23, <2>1, <2>4
    <3> QED BY <1>5, <2>1, <2>4, <3>1
  <2>5. i \in 1 .. m \/ \E q \in 1 .. k : i = m + q
    BY <1>18
  <2>6. j \in 1 .. m \/ \E q \in 1 .. k : j = m + q
    BY <1>18
  <2> QED BY <2>1, <2>2, <2>3, <2>4, <2>5, <2>6
<1>25. b > l => \E z \in PagesRow :
                   /\ z = page[k] /\ z = ahead[k] /\ Pages!Beyond(z) /\ cursor' = Pages!CursorOf(z)
                   /\ z = listed'[m + k] /\ m + k \in 1 .. m + k /\ (m + k) % l = 0
                   /\ k \in 1 .. k /\ k \in 1 .. n
  <2> SUFFICES ASSUME b > l
               PROVE  \E z \in PagesRow :
                         /\ z = page[k] /\ z = ahead[k] /\ Pages!Beyond(z) /\ cursor' = Pages!CursorOf(z)
                         /\ z = listed'[m + k] /\ m + k \in 1 .. m + k /\ (m + k) % l = 0
                         /\ k \in 1 .. k /\ k \in 1 .. n
    OBVIOUS
  <2>1. k = l /\ k \in 1 .. k /\ k \in 1 .. n
    BY <1>9
  <2>2. (m + l) % l = 0
    BY <1>6, <1>17, PagesNextEnd
  <2>3. page[k] = ahead[k] /\ page[k] \in PagesRow /\ Pages!Beyond(page[k])
    BY <1>9, <1>11, <2>1
  <2>4. cursor' = Pages!CursorOf(page[k])
    BY <1>10, <1>12
  <2> QED BY <1>18, <2>1, <2>2, <2>3, <2>4
<1>26. ASSUME NEW r \in steady
       PROVE  \/ Pages!Given(r)'
              \/ Pages!AtBoundary(r)' /\ listing.order # "ascending"
              \/ cursor'.at # "end" /\ Pages!Beyond(Pages!Row(r))'
  <2>1. PICK x \in Pages!Items : x = Pages!Row(r) /\ x \in PagesRow /\ x.id = r /\ x.key = rows[r]
    BY <1>1, PagesItemFacts
  <2>2. CASE Pages!Given(r)
    BY <1>13, <1>18, <2>2 DEF Pages!Given
  <2>3. CASE Pages!AtBoundary(r) /\ listing.order # "ascending"
    BY <1>19, <2>3
  <2>4. CASE Pages!Beyond(x)
    <3>1. PICK i \in 1 .. n : ahead[i] = x
      BY <1>4, <1>5, <2>4
    <3>2. CASE i \in 1 .. k
      <4>1. listed'[m + i].id = r /\ m + i \in 1 .. m + k
        BY <1>9, <1>18, <2>1, <3>1, <3>2
      <4> QED BY <1>13, <4>1 DEF Pages!Given
    <3>3. CASE ~ (i \in 1 .. k)
      <4>1. b > l /\ k < i
        BY <1>9, <3>3
      <4>2. PICK z \in PagesRow :
               /\ z = ahead[k] /\ cursor' = Pages!CursorOf(z) /\ k \in 1 .. n
               /\ z = listed'[m + k] /\ m + k \in 1 .. m + k /\ (m + k) % l = 0
        BY <1>25, <4>1
      <4>3. Pages!Precedes(z, x)
        <5>1. Pages!Precedes(ahead[k], ahead[i])
          BY <1>5, <4>1, <4>2
        <5> QED BY <3>1, <4>2, <5>1
      <4>4. \/ Pages!Beyond(x)'
            \/ /\ listing.grain > 1 /\ listing.order # "ascending" /\ x.key # Null
               /\ Pages!Carried(z.key) = Pages!Carried(x.key)
        BY <1>1, <1>2, <2>1, <4>2, <4>3, PagesBeyondStays
      <4>5. cursor'.at # "end"
        BY <4>2 DEF Pages!CursorOf
      <4>6. CASE Pages!Beyond(x)'
        <5>1. Pages!Row(r)' = x
          BY <1>2, <2>1 DEF Pages!Row
        <5> QED BY <4>5, <4>6, <5>1 DEF Pages!Beyond
      <4>7. CASE ~ Pages!Beyond(x)'
        <5>1. /\ listing.grain > 1 /\ listing.order # "ascending" /\ rows[r] # Null
              /\ Pages!Carried(listed'[m + k].key) = Pages!Carried(rows[r])
          BY <2>1, <4>2, <4>4, <4>7
        <5> QED BY <1>20, <4>2, <5>1
      <4> QED BY <4>6, <4>7
    <3> QED BY <3>2, <3>3
  <2> QED BY <1>1, <1>2, <2>1, <2>2, <2>3, <2>4 DEF Pages!ByCursor
<1>27. cursor'.at = "row" => b > l
  BY <1>10, <1>12 DEF Pages!At
<1>28. ASSUME cursor'.at = "row", NEW i \in 1 .. m + k, NEW x \in PagesRow, x = listed'[i]
       PROVE  Pages!Beyond(x)' => Pages!Again(x)'
  <2>1. PICK z \in PagesRow :
           /\ z = page[k] /\ z = ahead[k] /\ Pages!Beyond(z) /\ cursor' = Pages!CursorOf(z)
           /\ k \in 1 .. k /\ k \in 1 .. n
    BY <1>25, <1>27, <1>28
  <2>2. CASE i \in 1 .. m
    <3>1. x = listed[i] /\ cursor.at = "row"
      BY <1>13, <1>14, <1>15, <1>28, <2>2
    <3>2. PICK w \in PagesRow : w = listed[m] /\ cursor = Pages!CursorOf(w)
      BY <1>13, <1>16, <3>1
    <3>3. Pages!Beyond(x) => Pages!Again(x)
      BY <1>16, <2>2, <3>1
    <3> QED BY <1>1, <1>2, <2>1, <3>2, <3>3, PagesPassedStays
  <2>3. ASSUME NEW q \in 1 .. k, i = m + q PROVE Pages!Beyond(x)' => Pages!Again(x)'
    <3>1. x = ahead[q] /\ q \in 1 .. n
      BY <1>9, <1>13, <1>28, <2>3
    <3>2. q = k \/ q < k
      BY <2>1
    <3>3. x = z \/ Pages!Precedes(x, z)
      BY <1>5, <2>1, <3>1, <3>2
    <3> QED BY <1>1, <1>2, <2>1, <3>3, PagesPassedNow
  <2> QED BY <1>18, <2>2, <2>3
<1>29. cursor'.at \in {"row", "end"} /\ cursor'.at # "start" /\ cursor'.at # "counted"
  BY <1>10, <1>12 DEF Pages!At, Pages!CursorOf
<1>30. Pages!CursorsStrayAtCutsOnly'
  <2> SUFFICES ASSUME NEW r \in steady
               PROVE  /\ cursor'.at = "end" /\ ~ Pages!Given(r)' => Pages!AtBoundary(r)' /\ listing.order # "ascending"
                      /\ Pages!Repeated(r)' => Pages!AtBoundary(r)' /\ listing.order = "ascending"
    BY <1>2 DEF Pages!CursorsStrayAtCutsOnly
  <2> QED BY <1>24, <1>26
<1>31. cursor'.at = "row" =>
          /\ listed' # <<>> /\ Len(listed') % limit' = 0
          /\ cursor' = Pages!CursorOf(listed[Len(listed)])'
          /\ \A i \in DOMAIN listed' : Pages!Beyond(listed[i])' => Pages!Again(listed[i])'
  <2> SUFFICES ASSUME cursor'.at = "row"
               PROVE  /\ listed' # <<>> /\ Len(listed') % limit' = 0
                      /\ cursor' = Pages!CursorOf(listed[Len(listed)])'
                      /\ \A i \in DOMAIN listed' : Pages!Beyond(listed[i])' => Pages!Again(listed[i])'
    OBVIOUS
  <2>1. PICK z \in PagesRow :
           /\ cursor' = Pages!CursorOf(z)
           /\ z = listed'[m + k] /\ m + k \in 1 .. m + k /\ (m + k) % l = 0
    BY <1>25, <1>27
  <2>2. listed' # <<>> /\ Len(listed') = m + k
    BY <1>12, <1>13, <2>1
  <2>3. Len(listed') % limit' = 0
    BY <1>2, <1>6, <2>1, <2>2
  <2>4. cursor' = Pages!CursorOf(listed[Len(listed)])'
    BY <1>2, <2>1, <2>2 DEF Pages!CursorOf, Pages!Carried
  <2>5. \A i \in 1 .. m + k : listed'[i] \in PagesRow
    <3>1. Pages!Items \subseteq PagesRow
      BY <1>1, PagesItemFacts
    <3>2. ASSUME NEW i \in 1 .. m PROVE listed'[i] \in PagesRow
      BY <1>13
    <3>3. ASSUME NEW i \in 1 .. k PROVE listed'[m + i] \in PagesRow
      BY <1>13, <3>1
    <3> QED BY <1>18, <3>2, <3>3
  <2>6. ASSUME NEW i \in 1 .. m + k PROVE Pages!Beyond(listed[i])' => Pages!Again(listed[i])'
    <3>1. PICK x \in PagesRow : x = listed'[i]
      BY <2>5
    <3>2. Pages!Beyond(x)' => Pages!Again(x)'
      BY <1>28, <3>1
    <3> QED BY <3>1, <3>2 DEF Pages!Beyond, Pages!Again, Pages!Carried
  <2> QED BY <1>13, <2>2, <2>3, <2>4, <2>6
<1>32. Pages!ByCursor'
  <2>1. \A r \in steady' :
           \/ Pages!Given(r)'
           \/ Pages!AtBoundary(r)' /\ listing'.order # "ascending"
           \/ cursor'.at # "end" /\ Pages!Beyond(Pages!Row(r))'
    BY <1>2, <1>26
  <2> QED BY <1>29, <1>30, <1>31, <2>1 DEF Pages!ByCursor
<1>33. Pages!ByOffset'
  BY <1>2 DEF Pages!ByOffset
<1> QED BY <1>12, <1>21, <1>32, <1>33 DEF Pages!PagingInv

-----------------------------------------------------------------------------
(* By number.  The place of a row among those of a table.                  *)
PagesAt(t, s) == [id |-> s, key |-> t[s]]
PagesBefore(t, s) == {q \in DOMAIN t : Pages!Precedes(PagesAt(t, q), PagesAt(t, s))}
PagesRank(t, s) == Pages!Cardinality(PagesBefore(t, s))
PagesUnseen(t) == {s \in DOMAIN t : PagesRank(t, s) < Len(listed) /\ ~ Pages!Given(s)}

LEMMA PagesRankIs ==
    /\ \A s : Pages!Rank(s) = PagesRank(rows, s) /\ Pages!Row(s) = PagesAt(rows, s)
    /\ Pages!Passed = PagesUnseen(rows)
BY DEF Pages!Rank, Pages!Row, Pages!Passed, PagesAt, PagesBefore, PagesRank, PagesUnseen

LEMMA PagesTableIs ==
    ASSUME Pages!TypeOK, NEW t \in Pages!Tables
    PROVE  /\ Pages!IsFiniteSet(DOMAIN t) /\ DOMAIN t \subseteq RowId
           /\ \A s \in DOMAIN t : /\ PagesAt(t, s) \in PagesRow /\ PagesAt(t, s).id = s
                                  /\ PagesBefore(t, s) \subseteq DOMAIN t
                                  /\ Pages!IsFiniteSet(PagesBefore(t, s))
                                  /\ PagesRank(t, s) \in Nat
<1>1. PICK S \in SUBSET RowId : Pages!IsFiniteSet(S) /\ t \in [S -> Pages!Keys(listing)]
  BY DEF Pages!Tables
<1>2. ASSUME NEW s \in S
      PROVE  /\ PagesAt(t, s) \in PagesRow /\ PagesAt(t, s).id = s
             /\ PagesBefore(t, s) \subseteq S
             /\ Pages!IsFiniteSet(PagesBefore(t, s))
             /\ PagesRank(t, s) \in Nat
  <2>1. PagesBefore(t, s) \subseteq S
    BY <1>1 DEF PagesBefore
  <2>2. Pages!IsFiniteSet(PagesBefore(t, s))
    BY <1>1, <2>1, PagesFinSubset
  <2>3. PagesRank(t, s) \in Nat
    BY <2>2, PagesFinType DEF PagesRank
  <2> QED BY <1>1, <2>1, <2>2, <2>3 DEF PagesAt, PagesRow
<1> QED BY <1>1, <1>2

LEMMA PagesRankOrder ==
    ASSUME Pages!TypeOK, NEW t \in Pages!Tables, NEW r \in DOMAIN t, NEW s \in DOMAIN t
    PROVE  /\ Pages!Precedes(PagesAt(t, r), PagesAt(t, s)) => PagesRank(t, r) < PagesRank(t, s)
           /\ PagesRank(t, r) = PagesRank(t, s) => r = s
<1>1. /\ PagesAt(t, r) \in PagesRow /\ PagesAt(t, r).id = r /\ PagesAt(t, s) \in PagesRow /\ PagesAt(t, s).id = s
      /\ \A q \in DOMAIN t : PagesAt(t, q) \in PagesRow
  BY PagesTableIs
<1>2. ASSUME NEW a \in DOMAIN t, NEW b \in DOMAIN t, Pages!Precedes(PagesAt(t, a), PagesAt(t, b))
      PROVE  PagesRank(t, a) < PagesRank(t, b)
  <2>1. PICK A, B : A = PagesBefore(t, a) /\ B = PagesBefore(t, b)
    OBVIOUS
  <2>2. A \subseteq B
    <3> SUFFICES ASSUME NEW q \in DOMAIN t, Pages!Precedes(PagesAt(t, q), PagesAt(t, a))
                 PROVE  Pages!Precedes(PagesAt(t, q), PagesAt(t, b))
      BY <2>1 DEF PagesBefore
    <3> QED BY <1>1, <1>2, PagesOrderFacts
  <2>3. a \in B /\ ~ (a \in A)
    <3>1. ~ Pages!Precedes(PagesAt(t, a), PagesAt(t, a))
      BY <1>1, PagesOrderFacts
    <3> QED BY <1>2, <2>1, <3>1 DEF PagesBefore
  <2>4. Pages!IsFiniteSet(B) /\ PagesRank(t, a) \in Nat /\ PagesRank(t, b) \in Nat
    BY <1>2, <2>1, PagesTableIs
  <2>5. Pages!Cardinality(A) <= Pages!Cardinality(B) /\ Pages!Cardinality(A) # Pages!Cardinality(B)
    BY <2>2, <2>3, <2>4, PagesFinSubset
  <2> QED BY <2>1, <2>4, <2>5 DEF PagesRank
<1>3. ASSUME r # s PROVE PagesRank(t, r) # PagesRank(t, s)
  <2>1. Pages!Precedes(PagesAt(t, r), PagesAt(t, s)) \/ Pages!Precedes(PagesAt(t, s), PagesAt(t, r))
    BY <1>1, <1>3, PagesOrderFacts
  <2>2. PagesRank(t, r) < PagesRank(t, s) \/ PagesRank(t, s) < PagesRank(t, r)
    BY <1>2, <2>1
  <2>3. PagesRank(t, r) \in Nat /\ PagesRank(t, s) \in Nat
    BY PagesTableIs
  <2> QED BY <2>2, <2>3
<1> QED BY <1>2, <1>3

(* A row that comes or moves puts one more row before the next offset that *)
(* was not given, at most: itself, or the one that it moved away from.     *)
LEMMA PagesAddUnseen ==
    ASSUME Pages!TypeOK, NEW t \in Pages!Tables, NEW u \in Pages!Tables, NEW r,
           DOMAIN u = DOMAIN t \cup {r}, \A s \in DOMAIN t : u[s] = t[s]
    PROVE  PagesUnseen(u) \subseteq PagesUnseen(t) \cup {r}
<1> SUFFICES ASSUME NEW s \in PagesUnseen(u), s # r PROVE s \in PagesUnseen(t)
  OBVIOUS
<1>1. s \in DOMAIN u /\ s \in DOMAIN t /\ PagesRank(u, s) < Len(listed) /\ ~ Pages!Given(s)
  BY DEF PagesUnseen
<1>2. PagesBefore(t, s) \subseteq PagesBefore(u, s)
  BY <1>1 DEF PagesBefore, PagesAt
<1>3. /\ PagesRank(t, s) \in Nat /\ PagesRank(u, s) \in Nat /\ Pages!IsFiniteSet(PagesBefore(u, s))
  BY <1>1, PagesTableIs
<1>4. PagesRank(t, s) <= PagesRank(u, s)
  BY <1>2, <1>3, PagesFinSubset DEF PagesRank
<1>5. Len(listed) \in Nat
  BY DEF Pages!TypeOK
<1> QED BY <1>1, <1>3, <1>4, <1>5 DEF PagesUnseen

LEMMA PagesMoveRank ==
    ASSUME Pages!TypeOK, NEW t \in Pages!Tables, NEW u \in Pages!Tables, NEW r \in DOMAIN t,
           DOMAIN u = DOMAIN t, \A s \in DOMAIN t : s # r => u[s] = t[s],
           NEW s \in DOMAIN t, s # r, PagesRank(u, s) < PagesRank(t, s)
    PROVE  PagesRank(t, s) = PagesRank(u, s) + 1 /\ PagesRank(u, s) < PagesRank(u, r)
<1>1. PICK A, B : A = PagesBefore(t, s) /\ B = PagesBefore(u, s)
  OBVIOUS
<1>2. \A q \in DOMAIN t : q # r => (q \in A <=> q \in B)
  BY <1>1 DEF PagesBefore, PagesAt
<1>3. A \subseteq DOMAIN t /\ B \subseteq DOMAIN t /\ Pages!IsFiniteSet(A) /\ Pages!IsFiniteSet(B)
  BY <1>1, PagesTableIs
<1>4. PICK a \in Nat, b \in Nat : /\ a = PagesRank(t, s) /\ b = PagesRank(u, s)
                                  /\ a = Pages!Cardinality(A) /\ b = Pages!Cardinality(B)
  BY <1>1, PagesTableIs DEF PagesRank
<1>5. A \subseteq B \cup {r} /\ (r \in B => A \subseteq B)
  BY <1>2, <1>3
<1>6. a <= b + 1
  <2>1. b <= b
    BY <1>4
  <2> QED BY <1>3, <1>4, <1>5, <2>1, PagesFinGrow
<1>7. ~ (r \in B)
  <2> SUFFICES ASSUME r \in B PROVE FALSE
    OBVIOUS
  <2>1. a <= b
    BY <1>3, <1>4, <1>5, PagesFinSubset
  <2> QED BY <1>4, <2>1
<1>8. Pages!Precedes(PagesAt(u, s), PagesAt(u, r))
  <2>1. /\ PagesAt(u, s) \in PagesRow /\ PagesAt(u, r) \in PagesRow
        /\ PagesAt(u, s).id = s /\ PagesAt(u, r).id = r
    BY PagesTableIs
  <2>2. ~ Pages!Precedes(PagesAt(u, r), PagesAt(u, s))
    BY <1>1, <1>7 DEF PagesBefore
  <2> QED BY <2>1, <2>2, PagesOrderFacts
<1>9. PagesRank(u, s) < PagesRank(u, r)
  BY <1>8, PagesRankOrder
<1> QED BY <1>4, <1>6, <1>9

LEMMA PagesMoveUnseen ==
    ASSUME Pages!TypeOK, NEW t \in Pages!Tables, NEW u \in Pages!Tables, NEW r \in DOMAIN t,
           DOMAIN u = DOMAIN t, \A s \in DOMAIN t : s # r => u[s] = t[s]
    PROVE  \E w : PagesUnseen(u) \subseteq PagesUnseen(t) \cup {w}
<1>1. PICK d \in Nat : d = Len(listed)
  BY DEF Pages!TypeOK
<1>2. \A s \in DOMAIN t : PagesRank(t, s) \in Nat /\ PagesRank(u, s) \in Nat
  BY PagesTableIs
<1>3. ASSUME NEW s \in PagesUnseen(u), ~ (s \in PagesUnseen(t)), s # r
      PROVE  s \in DOMAIN t /\ PagesRank(t, s) = d /\ ~ (r \in PagesUnseen(u))
  <2>1. s \in DOMAIN t /\ PagesRank(u, s) < d /\ d <= PagesRank(t, s)
    BY <1>1, <1>2, <1>3 DEF PagesUnseen
  <2>2. PagesRank(t, s) = PagesRank(u, s) + 1 /\ PagesRank(u, s) < PagesRank(u, r)
    <3>1. PagesRank(u, s) < PagesRank(t, s)
      BY <1>2, <2>1
    <3> QED BY <1>3, <2>1, <3>1, PagesMoveRank
  <2>3. PagesRank(t, s) = d /\ ~ (PagesRank(u, r) < d)
    BY <1>2, <2>1, <2>2
  <2> QED BY <1>1, <2>1, <2>3 DEF PagesUnseen
<1>4. CASE \E s \in PagesUnseen(u) : ~ (s \in PagesUnseen(t)) /\ s # r
  <2>1. PICK w \in PagesUnseen(u) : ~ (w \in PagesUnseen(t)) /\ w # r
    BY <1>4
  <2>2. w \in DOMAIN t /\ PagesRank(t, w) = d /\ ~ (r \in PagesUnseen(u))
    BY <1>3, <2>1
  <2>3. ASSUME NEW s \in PagesUnseen(u), ~ (s \in PagesUnseen(t)) PROVE s = w
    <3>1. s \in DOMAIN t /\ PagesRank(t, s) = d
      BY <1>3, <2>2, <2>3
    <3> QED BY <2>2, <3>1, PagesRankOrder
  <2> QED BY <2>3
<1>5. CASE ~ \E s \in PagesUnseen(u) : ~ (s \in PagesUnseen(t)) /\ s # r
  BY <1>5
<1> QED BY <1>4, <1>5

LEMMA PagesCountInv == ASSUME Pages!PagingInv, Pages!CountRows PROVE Pages!PagingInv'
<1>1. Pages!TypeOK /\ Pages!GivenAsTheyAre /\ Pages!ByOffset
  BY DEF Pages!PagingInv
<1>2. /\ listing.by = "counted" /\ UNCHANGED <<listing, limit, rows, listed, steady, pageChanges>>
      /\ cursor' = [Pages!At("counted") EXCEPT !.id = Pages!Cardinality(DOMAIN rows)]
  BY DEF Pages!CountRows
<1>3. PICK n \in Nat : n = Pages!Cardinality(DOMAIN rows) /\ Pages!Cardinality(steady) <= n
  <2>1. Pages!IsFiniteSet(DOMAIN rows) /\ steady \subseteq DOMAIN rows
    BY <1>1, PagesItemFacts
  <2> QED BY <2>1, PagesFinType, PagesFinSubset
<1>4. cursor' = [at |-> "counted", key |-> Null, id |-> n]
  BY <1>2, <1>3 DEF Pages!At
<1>5. Pages!TypeOK'
  BY <1>1, <1>2, <1>4 DEF Pages!TypeOK, Pages!Tables, Pages!Keys
<1>6. Pages!GivenAsTheyAre'
  BY <1>1, <1>2 DEF Pages!GivenAsTheyAre
<1>7. Pages!ByCursor'
  BY <1>2 DEF Pages!ByCursor
<1>8. Pages!ByOffset'
  <2>1. Pages!Passed' = Pages!Passed
    BY <1>2 DEF Pages!Passed, Pages!Rank, Pages!Row, Pages!Precedes, Pages!Given
  <2>2. Pages!Cardinality(Pages!Passed) <= pageChanges
    BY <1>1, <1>2 DEF Pages!ByOffset, Pages!OffsetsStrayByChanges
  <2>3. Pages!OffsetsStrayByChanges'
    BY <1>2, <1>4, <2>1, <2>2 DEF Pages!OffsetsStrayByChanges
  <2> QED BY <1>1, <1>2, <1>3, <1>4, <2>3 DEF Pages!ByOffset
<1> QED BY <1>5, <1>6, <1>7, <1>8 DEF Pages!PagingInv

LEMMA PagesFetchOffsetInv == ASSUME Pages!PagingInv, Pages!FetchOffset PROVE Pages!PagingInv'
<1>1. Pages!TypeOK /\ Pages!GivenAsTheyAre /\ Pages!ByCursor /\ Pages!ByOffset
  BY DEF Pages!PagingInv
<1>2. /\ listing.by \in {"offset", "counted"} /\ listing.by # "cursor"
      /\ UNCHANGED <<listing, limit, rows, steady, pageChanges>>
  <2>1. listing.by \in {"cursor", "offset", "counted"}
    BY <1>1, PagesKeyFacts
  <2>2. listing.by # "cursor"
    BY <1>1 DEF Pages!FetchOffset, Pages!ByCursor
  <2> QED BY <2>1, <2>2 DEF Pages!FetchOffset
<1>3. PICK page :
         /\ page \in Pages!InOrder({Pages!Row(r) : r \in Pages!Fresh(Pages!Window)})
         /\ Pages!Upto(page, Pages!At(IF Len(listed) + Len(page) < Pages!Total THEN "row" ELSE "end"))
  BY DEF Pages!FetchOffset
<1>4. PICK S \in SUBSET Pages!Items :
         /\ S = {Pages!Row(r) : r \in Pages!Fresh(Pages!Window)} /\ page \in Pages!InOrder(S)
  <2>1. \A r \in Pages!Fresh(Pages!Window) : r \in DOMAIN rows /\ Pages!Row(r) \in Pages!Items
    BY <1>1, PagesItemFacts DEF Pages!Fresh, Pages!Window
  <2> QED BY <1>3, <2>1
<1>5. PICK k \in Nat :
         /\ k = Len(page) /\ page \in [1 .. k -> S] /\ k = Pages!Cardinality(S)
         /\ \A i, j \in 1 .. k : page[i] = page[j] => i = j
         /\ \A x \in S : \E i \in 1 .. k : page[i] = x
  <2>1. \E n \in Nat :
           /\ n = Len(page) /\ DOMAIN page = 1 .. n /\ page \in Seq(PagesRow) /\ page \in [1 .. n -> S]
           /\ \A i, j \in 1 .. n : i < j <=> Pages!Precedes(page[i], page[j])
           /\ \A i, j \in 1 .. n : page[i] = page[j] => i = j
           /\ \A x \in S : \E i \in 1 .. n : page[i] = x
           /\ Pages!IsFiniteSet(S) /\ n = Pages!Cardinality(S)
    BY ONLY <1>1, <1>4, PagesInOrderFacts
  <2> QED BY ONLY <2>1
<1>6. PICK l \in Nat : l = limit
  BY <1>1, PagesKeyFacts
<1>7. PICK end : /\ end = Pages!At(IF Len(listed) + Len(page) < Pages!Total THEN "row" ELSE "end")
                 /\ Pages!Upto(page, end)
  BY <1>3
<1>8. /\ Pages!TypeOK' /\ cursor' = end
      /\ \E m \in Nat :
             /\ m = Len(listed) /\ Len(listed') = m + k
             /\ DOMAIN listed = 1 .. m /\ DOMAIN listed' = 1 .. m + k
             /\ \A i \in 1 .. m : listed'[i] = listed[i]
             /\ \A i \in 1 .. k : listed'[m + i] = page[i] /\ page[i] \in Pages!Items
  <2>1. page \in Seq(Pages!Items)
    BY <1>4, <1>5
  <2>2. end \in {Pages!At("row"), Pages!At("end")}
    BY <1>7
  <2>3. /\ Pages!TypeOK' /\ listed' \in Seq(PagesRow)
        /\ \E m, h \in Nat :
                 /\ m = Len(listed) /\ h = Len(page) /\ Len(listed') = m + h
                 /\ DOMAIN listed = 1 .. m /\ DOMAIN page = 1 .. h /\ DOMAIN listed' = 1 .. m + h
                 /\ \A i \in 1 .. m : listed'[i] = listed[i] /\ listed[i] \in PagesRow
                 /\ \A i \in 1 .. h : listed'[m + i] = page[i] /\ page[i] \in Pages!Items
    BY <1>2, <1>7, <2>1, <2>2, PagesFetchedType
  <2>4. cursor' = end
    BY <1>7 DEF Pages!Upto
  <2>5. PICK m, h \in Nat :
           /\ m = Len(listed) /\ h = Len(page) /\ Len(listed') = m + h
           /\ DOMAIN listed = 1 .. m /\ DOMAIN page = 1 .. h /\ DOMAIN listed' = 1 .. m + h
           /\ \A i \in 1 .. m : listed'[i] = listed[i] /\ listed[i] \in PagesRow
           /\ \A i \in 1 .. h : listed'[m + i] = page[i] /\ page[i] \in Pages!Items
    BY <2>3
  <2>6. h = k
    BY ONLY <1>5, <2>5
  <2> QED BY ONLY <2>3, <2>4, <2>5, <2>6
<1>9. PICK m \in Nat :
         /\ m = Len(listed) /\ Len(listed') = m + k
         /\ DOMAIN listed = 1 .. m /\ DOMAIN listed' = 1 .. m + k
         /\ \A i \in 1 .. m : listed'[i] = listed[i]
         /\ \A i \in 1 .. k : listed'[m + i] = page[i] /\ page[i] \in Pages!Items
  BY <1>8
<1>10. /\ \A i \in 1 .. m : i \in 1 .. m + k
       /\ \A i \in 1 .. k : m + i \in 1 .. m + k
       /\ \A i \in 1 .. m + k : i \in 1 .. m \/ \E q \in 1 .. k : i = m + q
  <2>1. \A i \in 1 .. m + k : i \in 1 .. m \/ \E q \in 1 .. k : i = m + q
    BY PagesHalves
  <2>2. (\A i \in 1 .. m : i \in 1 .. m + k) /\ (\A i \in 1 .. k : m + i \in 1 .. m + k)
    OBVIOUS
  <2> QED BY <2>1, <2>2
<1>11. \A x \in S : /\ x.id \in DOMAIN rows /\ x = Pages!Row(x.id) /\ ~ Pages!Given(x.id)
                    /\ PagesRank(rows, x.id) >= m /\ PagesRank(rows, x.id) < m + l
  <2> SUFFICES ASSUME NEW r \in Pages!Fresh(Pages!Window)
               PROVE  LET x == Pages!Row(r)
                      IN /\ x.id \in DOMAIN rows /\ x = Pages!Row(x.id) /\ ~ Pages!Given(x.id)
                         /\ PagesRank(rows, x.id) >= m /\ PagesRank(rows, x.id) < m + l
    BY <1>4
  <2>1. r \in DOMAIN rows /\ ~ Pages!Given(r) /\ PagesRank(rows, r) >= m /\ PagesRank(rows, r) < m + l
    BY <1>6, <1>9, PagesRankIs DEF Pages!Fresh, Pages!Window
  <2> QED BY <1>1, <2>1, PagesItemFacts
<1>12. k <= l
  <2>1. PICK f : f = [x \in S |-> PagesRank(rows, x.id)]
    OBVIOUS
  <2>2. rows \in Pages!Tables
    BY <1>1 DEF Pages!TypeOK
  <2>3. f \in [S -> m .. (m + l - 1)]
    <3> SUFFICES ASSUME NEW x \in S PROVE PagesRank(rows, x.id) \in m .. (m + l - 1)
      BY <2>1
    <3>1. PagesRank(rows, x.id) \in Nat
      BY <1>1, <1>11, <2>2, PagesTableIs
    <3> QED BY <1>11, <3>1
  <2>4. \A x, y \in S : f[x] = f[y] => x = y
    <3> SUFFICES ASSUME NEW x \in S, NEW y \in S, PagesRank(rows, x.id) = PagesRank(rows, y.id) PROVE x = y
      BY <2>1
    <3>1. x.id = y.id
      BY <1>1, <1>11, <2>2, PagesRankOrder
    <3> QED BY <1>11, <3>1
  <2>5. Pages!Cardinality(S) <= l
    BY <2>3, <2>4, PagesFinInto
  <2> QED BY <1>5, <2>5
<1>13. Pages!GivenAsTheyAre'
  <2> SUFFICES ASSUME NEW i \in 1 .. m + k, listed'[i].id \in steady
               PROVE  listed'[i].key = rows[listed'[i].id]
    BY <1>2, <1>9 DEF Pages!GivenAsTheyAre
  <2>1. CASE i \in 1 .. m
    BY <1>1, <1>9, <2>1 DEF Pages!GivenAsTheyAre
  <2>2. ASSUME NEW q \in 1 .. k, i = m + q PROVE listed'[i].key = rows[listed'[i].id]
    <3>1. PICK x \in Pages!Items : x = listed'[i]
      BY <1>9, <2>2
    <3>2. x = Pages!Row(x.id) /\ x.id \in DOMAIN rows
      BY <1>1, PagesItemFacts
    <3> QED BY <3>1, <3>2 DEF Pages!Row
  <2> QED BY <1>10, <2>1, <2>2
<1>14. /\ \A i, j \in 1 .. m : listed[i].id = listed[j].id => i = j
       /\ \A i \in 1 .. m : listed[i].id \in DOMAIN rows /\ Pages!Given(listed[i].id)
       /\ Pages!Cardinality(DOMAIN rows \ steady) <= pageChanges
       /\ listing.by = "counted" => Pages!Cardinality(steady) <= cursor.id
       /\ Pages!Cardinality(Pages!Passed) <= pageChanges
  <2>1. \A i, j \in DOMAIN listed : listed[i].id = listed[j].id => i = j
    BY <1>1, <1>2 DEF Pages!ByOffset
  <2>2. \A i \in DOMAIN listed : listed[i].id \in DOMAIN rows
    BY <1>1, <1>2 DEF Pages!ByOffset
  <2>3. \A i \in DOMAIN listed : Pages!Given(listed[i].id)
    BY DEF Pages!Given
  <2>4. Pages!Cardinality(DOMAIN rows \ steady) <= pageChanges
    BY <1>1, <1>2 DEF Pages!ByOffset
  <2>5. listing.by = "counted" => cursor.at = "counted"
    BY DEF Pages!FetchOffset
  <2>6. listing.by = "counted" => Pages!Cardinality(steady) <= cursor.id
    BY <1>1, <1>2, <2>5 DEF Pages!ByOffset
  <2>7. Pages!Cardinality(Pages!Passed) <= pageChanges
    BY <1>1, <1>2 DEF Pages!ByOffset, Pages!OffsetsStrayByChanges
  <2> QED BY <1>9, <2>1, <2>2, <2>3, <2>4, <2>6, <2>7
<1>15. \A i \in 1 .. k : page[i] \in S /\ page[i].id \in DOMAIN rows /\ ~ Pages!Given(page[i].id)
  BY <1>5, <1>11
<1>16. \A i, j \in 1 .. k : page[i].id = page[j].id => i = j
  <2> SUFFICES ASSUME NEW i \in 1 .. k, NEW j \in 1 .. k, page[i].id = page[j].id PROVE i = j
    OBVIOUS
  <2>1. page[i] = page[j]
    BY <1>11, <1>15
  <2> QED BY <1>5, <2>1
<1>17. \A i \in 1 .. m + k : listed'[i].id \in DOMAIN rows
  <2>1. \A i \in 1 .. m : listed'[i].id \in DOMAIN rows
    BY <1>9, <1>14
  <2>2. \A i \in 1 .. k : listed'[m + i].id \in DOMAIN rows
    BY <1>9, <1>15
  <2> QED BY <1>10, <2>1, <2>2
<1>18. ASSUME NEW i \in 1 .. m + k, NEW j \in 1 .. m + k, listed'[i].id = listed'[j].id PROVE i = j
  <2>1. CASE i \in 1 .. m /\ j \in 1 .. m
    BY <1>9, <1>14, <1>18, <2>1
  <2>2. ASSUME NEW p \in 1 .. m, NEW q \in 1 .. k PROVE listed'[p].id # listed'[m + q].id
    BY <1>9, <1>14, <1>15
  <2>3. ASSUME NEW p \in 1 .. k, NEW q \in 1 .. k, i = m + p, j = m + q PROVE i = j
    BY <1>9, <1>16, <1>18, <2>3
  <2> QED BY <1>10, <1>18, <2>1, <2>2, <2>3
<1>19. \A r \in DOMAIN rows : Pages!Given(r) => Pages!Given(r)'
  BY <1>9, <1>10 DEF Pages!Given
<1>20. \A x \in S : Pages!Given(x.id)'
  <2> SUFFICES ASSUME NEW x \in S PROVE Pages!Given(x.id)'
    OBVIOUS
  <2>1. PICK i \in 1 .. k : page[i] = x
    BY <1>5
  <2>2. listed'[m + i].id = x.id /\ m + i \in DOMAIN listed'
    BY <1>9, <1>10, <2>1
  <2> QED BY <2>2 DEF Pages!Given
<1>21. Pages!Passed' \subseteq Pages!Passed
  <2>1. \A r \in DOMAIN rows : Pages!Rank(r)' = Pages!Rank(r)
    <3> SUFFICES ASSUME NEW r \in DOMAIN rows PROVE Pages!Rank(r)' = Pages!Rank(r)
      OBVIOUS
    <3>1. {s \in DOMAIN rows : Pages!Precedes(Pages!Row(s), Pages!Row(r))}' = {s \in DOMAIN rows : Pages!Precedes(Pages!Row(s), Pages!Row(r))}
      BY <1>2 DEF Pages!Precedes, Pages!Row
    <3> QED BY <3>1 DEF Pages!Rank
  <2> SUFFICES ASSUME NEW r \in DOMAIN rows, Pages!Rank(r) < m + k, ~ Pages!Given(r)'
               PROVE  r \in Pages!Passed
    BY <1>2, <1>9, <2>1 DEF Pages!Passed
  <2>2. ~ Pages!Given(r)
    BY <1>19
  <2>3. Pages!Rank(r) \in Nat
    BY <1>1, PagesTableIs, PagesRankIs DEF Pages!TypeOK
  <2>4. CASE Pages!Rank(r) < m
    BY <1>9, <2>2, <2>4 DEF Pages!Passed
  <2>5. CASE Pages!Rank(r) >= m
    <3>1. Pages!Rank(r) < m + l
      BY <1>12, <2>3
    <3>2. r \in Pages!Fresh(Pages!Window)
      BY <1>6, <1>9, <2>2, <2>5, <3>1 DEF Pages!Fresh, Pages!Window
    <3>3. Pages!Row(r) \in S /\ Pages!Row(r).id = r
      BY <1>1, <1>4, <3>2, PagesItemFacts
    <3> QED BY <1>20, <3>3
  <2> QED BY <2>3, <2>4, <2>5
<1>22. Pages!IsFiniteSet(Pages!Passed) /\ Pages!Cardinality(Pages!Passed') <= pageChanges
  <2>1. Pages!IsFiniteSet(Pages!Passed)
    BY <1>1, PagesItemFacts, PagesFinSubset DEF Pages!Passed
  <2>2. Pages!Cardinality(Pages!Passed') <= Pages!Cardinality(Pages!Passed) /\ Pages!IsFiniteSet(Pages!Passed')
    BY <1>21, <2>1, PagesFinSubset
  <2>3. pageChanges \in Nat
    BY <1>1, PagesKeyFacts DEF Pages!TypeOK
  <2> QED BY <1>14, <2>1, <2>2, <2>3, PagesFinType
<1>23. ASSUME cursor'.at = "end"
       PROVE  Pages!Cardinality({r \in steady : ~ Pages!Given(r)}') <=
                 IF listing.by = "offset" THEN 0 ELSE pageChanges
  <2>1. PICK G, g : G = {listed'[i].id : i \in 1 .. m + k} /\ g = [i \in 1 .. m + k |-> listed'[i].id]
    OBVIOUS
  <2>2. Pages!IsFiniteSet(G) /\ Pages!Cardinality(G) = m + k /\ G \subseteq DOMAIN rows
    <3>1. g \in [1 .. m + k -> G] /\ (\A t \in G : \E s \in 1 .. m + k : g[s] = t) /\ m + k \in Nat
      BY <2>1
    <3>2. \A i, j \in 1 .. m + k : g[i] = g[j] => i = j
      BY <1>18, <2>1
    <3>3. G \subseteq DOMAIN rows
      BY <1>17, <2>1
    <3> QED BY <3>1, <3>2, <3>3, PagesFinCount
  <2>3. {r \in steady : ~ Pages!Given(r)}' = steady \ G
    BY <1>2, <1>9, <2>1 DEF Pages!Given
  <2>4. PICK n \in Int : n = Pages!Total /\ n <= m + k
    <3>1. Pages!Total \in Int
      BY <1>1, PagesItemFacts, PagesFinType DEF Pages!Total, Pages!TypeOK
    <3>2. ~ (m + k < Pages!Total)
      BY <1>5, <1>7, <1>8, <1>9, <1>23 DEF Pages!At
    <3> QED BY <3>1, <3>2
  <2>5. Pages!IsFiniteSet(DOMAIN rows) /\ steady \subseteq DOMAIN rows /\ Pages!IsFiniteSet(steady)
    BY <1>1, PagesItemFacts, PagesFinSubset
  <2>6. CASE listing.by = "offset"
    <3>1. n = Pages!Cardinality(DOMAIN rows) /\ n \in Nat
      BY <2>4, <2>5, <2>6, PagesFinType DEF Pages!Total
    <3>2. Pages!Cardinality(DOMAIN rows) = Pages!Cardinality(G)
      <4>1. Pages!Cardinality(G) <= Pages!Cardinality(DOMAIN rows)
        BY <2>2, <2>5, PagesFinSubset
      <4> QED BY <2>2, <2>4, <3>1, <4>1
    <3>3. DOMAIN rows = G
      BY <2>2, <2>5, <3>2, PagesFinSubset
    <3>4. steady \ G = {}
      BY <2>5, <3>3
    <3>5. Pages!Cardinality({}) = 0
      BY FS_EmptySet, PagesFinite
    <3> QED BY <2>3, <2>6, <3>4, <3>5
  <2>7. CASE listing.by = "counted"
    <3>1. Pages!Cardinality(steady) <= n /\ Pages!Cardinality(steady) \in Nat
      BY <1>14, <2>4, <2>5, <2>7, PagesFinType DEF Pages!Total
    <3>2. Pages!Cardinality(steady) <= Pages!Cardinality(G)
      BY <2>2, <2>4, <3>1
    <3>3. pageChanges \in Nat
      BY <1>1, PagesKeyFacts DEF Pages!TypeOK
    <3>4. Pages!Cardinality(steady \ G) <= pageChanges
      BY <1>14, <2>2, <2>5, <3>2, <3>3, PagesFinLack
    <3> QED BY <2>3, <2>7, <3>4
  <2> QED BY <1>2, <2>6, <2>7
<1>24. Pages!OffsetsStrayByChanges'
  BY <1>2, <1>22, <1>23 DEF Pages!OffsetsStrayByChanges
<1>25. cursor'.at # "counted"
  BY <1>7, <1>8 DEF Pages!At
<1>26. Pages!ByOffset'
  BY <1>2, <1>9, <1>14, <1>17, <1>18, <1>24, <1>25 DEF Pages!ByOffset
<1>27. Pages!ByCursor'
  BY <1>2 DEF Pages!ByCursor
<1> QED BY <1>8, <1>13, <1>26, <1>27 DEF Pages!PagingInv

-----------------------------------------------------------------------------
(* Other clients.  What they do to one row leaves the rows that stay.      *)
LEMMA PagesChangeInv ==
    ASSUME Pages!PagingInv, NEW kind, NEW r \in RowId, NEW newRows \in Pages!Tables,
           Pages!Change(kind, newRows, r),
           \A s \in DOMAIN rows : s # r => s \in DOMAIN newRows /\ newRows[s] = rows[s],
           kind = "add" => DOMAIN newRows = DOMAIN rows \cup {r} /\ \A s \in DOMAIN rows : newRows[s] = rows[s],
           kind = "move" => r \in DOMAIN rows /\ DOMAIN newRows = DOMAIN rows
    PROVE  Pages!PagingInv'
<1>1. Pages!TypeOK /\ Pages!GivenAsTheyAre /\ Pages!ByCursor /\ Pages!ByOffset
  BY DEF Pages!PagingInv
<1>2. /\ kind \in listing.changes /\ rows' = newRows /\ steady' = steady \ {r}
      /\ cursor.at \in {"row", "counted"} /\ pageChanges < MaxPageChanges /\ pageChanges' = pageChanges + 1
      /\ UNCHANGED <<listing, limit, cursor, listed>>
  BY DEF Pages!Change
<1>3. steady' \subseteq steady /\ \A s \in steady' : s \in DOMAIN rows' /\ rows'[s] = rows[s]
  BY <1>1, <1>2, PagesItemFacts
<1>4. Pages!TypeOK'
  <2>1. pageChanges' \in 0 .. MaxPageChanges
    BY <1>1, <1>2, PagesKeyFacts DEF Pages!TypeOK
  <2>2. rows' \in Pages!Tables'
    BY <1>2 DEF Pages!Tables, Pages!Keys
  <2> QED BY <1>1, <1>2, <1>3, <2>1, <2>2 DEF Pages!TypeOK, Pages!Keys
<1>5. Pages!GivenAsTheyAre'
  BY <1>1, <1>2, <1>3 DEF Pages!GivenAsTheyAre
<1>6. ASSUME NEW s \in steady'
      PROVE  /\ Pages!Given(s) <=> Pages!Given(s)'
             /\ Pages!Repeated(s) <=> Pages!Repeated(s)'
             /\ Pages!AtBoundary(s) <=> Pages!AtBoundary(s)'
             /\ Pages!Beyond(Pages!Row(s))' <=> Pages!Beyond(Pages!Row(s))
  <2>1. Pages!Given(s) <=> Pages!Given(s)'
    BY <1>2 DEF Pages!Given
  <2>2. Pages!Repeated(s) <=> Pages!Repeated(s)'
    BY <1>2 DEF Pages!Repeated
  <2>3. Pages!AtBoundary(s) <=> Pages!AtBoundary(s)'
    BY <1>2, <1>3, <1>6 DEF Pages!AtBoundary, Pages!PageEnds, Pages!Carried
  <2>4. Pages!Beyond(Pages!Row(s))' <=> Pages!Beyond(Pages!Row(s))
    BY <1>2, <1>3, <1>6 DEF Pages!Beyond, Pages!Row
  <2> QED BY <2>1, <2>2, <2>3, <2>4
<1>7. Pages!CursorsStrayAtCutsOnly'
  <2> SUFFICES ASSUME listing.by = "cursor", NEW s \in steady'
               PROVE  /\ cursor.at = "end" /\ ~ Pages!Given(s)' => Pages!AtBoundary(s)' /\ listing.order # "ascending"
                      /\ Pages!Repeated(s)' => Pages!AtBoundary(s)' /\ listing.order = "ascending"
    BY <1>2 DEF Pages!CursorsStrayAtCutsOnly
  <2>1. /\ cursor.at = "end" /\ ~ Pages!Given(s) => Pages!AtBoundary(s) /\ listing.order # "ascending"
        /\ Pages!Repeated(s) => Pages!AtBoundary(s) /\ listing.order = "ascending"
    BY <1>1, <1>3 DEF Pages!ByCursor, Pages!CursorsStrayAtCutsOnly
  <2> QED BY <1>6, <2>1
<1>8. Pages!ByCursor'
  <2> SUFFICES ASSUME listing.by = "cursor" PROVE Pages!ByCursor'
    BY <1>2 DEF Pages!ByCursor
  <2>1. /\ cursor'.at # "counted"
        /\ cursor'.at = "start" => listed' = <<>>
    BY <1>1, <1>2 DEF Pages!ByCursor
  <2>2. cursor'.at = "row" =>
           /\ listed' # <<>> /\ Len(listed') % limit' = 0
           /\ cursor' = Pages!CursorOf(listed[Len(listed)])'
           /\ \A i \in DOMAIN listed' : Pages!Beyond(listed[i])' => Pages!Again(listed[i])'
    <3>1. \A i \in DOMAIN listed : /\ Pages!Beyond(listed[i])' <=> Pages!Beyond(listed[i])
                                   /\ Pages!Again(listed[i])' <=> Pages!Again(listed[i])
      BY <1>2 DEF Pages!Beyond, Pages!Again, Pages!Carried
    <3>2. Pages!CursorOf(listed[Len(listed)])' = Pages!CursorOf(listed[Len(listed)])
      BY <1>2 DEF Pages!CursorOf, Pages!Carried
    <3> QED BY <1>1, <1>2, <3>1, <3>2 DEF Pages!ByCursor
  <2>3. ASSUME NEW s \in steady'
        PROVE  \/ Pages!Given(s)'
               \/ Pages!AtBoundary(s)' /\ listing'.order # "ascending"
               \/ cursor'.at # "end" /\ Pages!Beyond(Pages!Row(s))'
    <3>1. \/ Pages!Given(s)
          \/ Pages!AtBoundary(s) /\ listing.order # "ascending"
          \/ cursor.at # "end" /\ Pages!Beyond(Pages!Row(s))
      BY <1>1, <1>3, <2>3 DEF Pages!ByCursor
    <3> QED BY <1>2, <1>6, <2>3, <3>1
  <2> QED BY <1>7, <2>1, <2>2, <2>3 DEF Pages!ByCursor
<1>9. ASSUME listing.by # "cursor" PROVE Pages!ByOffset'
  <2>1. kind \in {"add", "move"} /\ DOMAIN rows \subseteq DOMAIN newRows /\ DOMAIN newRows \subseteq DOMAIN rows \cup {r}
    BY <1>1, <1>2, <1>9, PagesKeyFacts
  <2>2. /\ \A i, j \in DOMAIN listed' : listed'[i].id = listed'[j].id => i = j
        /\ \A i \in DOMAIN listed' : listed'[i].id \in DOMAIN rows'
    BY <1>1, <1>2, <1>9, <2>1 DEF Pages!ByOffset
  <2>3. /\ Pages!IsFiniteSet(DOMAIN rows) /\ pageChanges \in Nat /\ steady \subseteq DOMAIN rows
        /\ Pages!IsFiniteSet(DOMAIN rows \ steady) /\ Pages!IsFiniteSet(steady) /\ Pages!IsFiniteSet(PagesUnseen(rows))
    <3>1. Pages!IsFiniteSet(DOMAIN rows) /\ steady \subseteq DOMAIN rows
      BY <1>1, PagesItemFacts
    <3>2. DOMAIN rows \ steady \in SUBSET DOMAIN rows /\ PagesUnseen(rows) \in SUBSET DOMAIN rows
      BY DEF PagesUnseen
    <3>3. Pages!IsFiniteSet(DOMAIN rows \ steady)
      BY <3>1, <3>2, PagesFinSubset
    <3>4. Pages!IsFiniteSet(steady) /\ Pages!IsFiniteSet(PagesUnseen(rows))
      BY <3>1, <3>2, PagesFinSubset
    <3>5. pageChanges \in Nat
      BY <1>1, PagesKeyFacts DEF Pages!TypeOK
    <3> QED BY <3>1, <3>3, <3>4, <3>5
  <2>4. Pages!Cardinality(DOMAIN rows' \ steady') <= pageChanges'
    <3>1. DOMAIN newRows \ (steady \ {r}) \in SUBSET ((DOMAIN rows \ steady) \cup {r})
      BY <2>1
    <3>2. Pages!Cardinality(DOMAIN rows \ steady) <= pageChanges
      BY <1>1, <1>9 DEF Pages!ByOffset
    <3>3. Pages!Cardinality(DOMAIN newRows \ (steady \ {r})) <= pageChanges + 1
      BY <2>3, <3>1, <3>2, PagesFinGrow
    <3> QED BY <1>2, <3>3
  <2>5. cursor'.at = "counted" => listing'.by = "counted" /\ Pages!Cardinality(steady') <= cursor'.id
    <3> SUFFICES ASSUME cursor.at = "counted" PROVE listing.by = "counted" /\ Pages!Cardinality(steady') <= cursor.id
      BY <1>2
    <3>1. listing.by = "counted" /\ Pages!Cardinality(steady) <= cursor.id
      BY <1>1, <1>9 DEF Pages!ByOffset
    <3>2. cursor.id \in Nat
      BY <1>1 DEF Pages!TypeOK
    <3>3. /\ Pages!IsFiniteSet(steady') /\ Pages!Cardinality(steady') <= Pages!Cardinality(steady)
      BY <1>3, <2>3, PagesFinSubset
    <3>4. Pages!Cardinality(steady') \in Nat /\ Pages!Cardinality(steady) \in Nat
      BY <2>3, <3>3, PagesFinType
    <3> QED BY <3>1, <3>2, <3>3, <3>4
  <2>6. Pages!Cardinality(Pages!Passed') <= pageChanges'
    <3>1. Pages!Passed' = PagesUnseen(newRows)
      <4>1. ASSUME NEW s PROVE Pages!Rank(s)' = PagesRank(newRows, s)
        <5>1. {q \in DOMAIN rows : Pages!Precedes(Pages!Row(q), Pages!Row(s))}' = PagesBefore(newRows, s)
          BY <1>2 DEF Pages!Precedes, Pages!Row, PagesBefore, PagesAt
        <5> QED BY <5>1 DEF Pages!Rank, PagesRank
      <4>2. \A s : Pages!Given(s)' <=> Pages!Given(s)
        BY <1>2 DEF Pages!Given
      <4> QED BY <1>2, <4>1, <4>2 DEF Pages!Passed, PagesUnseen
    <3>2. PICK w : PagesUnseen(newRows) \subseteq PagesUnseen(rows) \cup {w}
      <4>1. rows \in Pages!Tables
        BY <1>1 DEF Pages!TypeOK
      <4>2. CASE kind = "add"
        BY <1>1, <4>1, <4>2, PagesAddUnseen
      <4>3. CASE kind = "move"
        BY <1>1, <4>1, <4>3, PagesMoveUnseen
      <4> QED BY <2>1, <4>2, <4>3
    <3>3. Pages!Cardinality(PagesUnseen(rows)) <= pageChanges
      BY <1>1, <1>9, PagesRankIs DEF Pages!ByOffset, Pages!OffsetsStrayByChanges
    <3>4. Pages!Cardinality(PagesUnseen(newRows)) <= pageChanges + 1
      BY <2>3, <3>2, <3>3, PagesFinGrow
    <3> QED BY <1>2, <3>1, <3>4
  <2>7. Pages!OffsetsStrayByChanges'
    BY <1>2, <2>6 DEF Pages!OffsetsStrayByChanges
  <2> QED BY <2>2, <2>4, <2>5, <2>7 DEF Pages!ByOffset
<1>10. Pages!ByOffset'
  BY <1>2, <1>9 DEF Pages!ByOffset
<1> QED BY <1>4, <1>5, <1>8, <1>10 DEF Pages!PagingInv

LEMMA PagesTableFacts ==
    ASSUME Pages!TypeOK, NEW r \in RowId, NEW key \in Pages!Keys(listing)
    PROVE  /\ [s \in DOMAIN rows \cup {r} |-> IF s = r THEN key ELSE rows[s]] \in Pages!Tables
           /\ [rows EXCEPT ![r] = key] \in Pages!Tables
           /\ [s \in DOMAIN rows \ {r} |-> rows[s]] \in Pages!Tables
<1>1. PICK S \in SUBSET RowId : Pages!IsFiniteSet(S) /\ rows \in [S -> Pages!Keys(listing)]
  BY DEF Pages!TypeOK, Pages!Tables
<1>2. Pages!IsFiniteSet(S \cup {r}) /\ Pages!IsFiniteSet(S \ {r})
  BY <1>1, PagesFinAdd, PagesFinSubset
<1>3. /\ [s \in S \cup {r} |-> IF s = r THEN key ELSE rows[s]] \in [S \cup {r} -> Pages!Keys(listing)]
      /\ [rows EXCEPT ![r] = key] \in [S -> Pages!Keys(listing)]
      /\ [s \in S \ {r} |-> rows[s]] \in [S \ {r} -> Pages!Keys(listing)]
      /\ DOMAIN rows = S
  BY <1>1
<1> QED BY <1>1, <1>2, <1>3 DEF Pages!Tables

LEMMA PagesInitInv == Pages!Init => Pages!PagingInv
<1> SUFFICES ASSUME Pages!Init PROVE Pages!PagingInv
  OBVIOUS
<1>1. /\ listed = <<>> /\ DOMAIN listed = {} /\ Len(listed) = 0 /\ cursor = Pages!At("start")
      /\ steady = DOMAIN rows
  BY DEF Pages!Init
<1>2. Pages!TypeOK
  <2>1. Pages!At("start") \in [at : {"start", "row", "counted", "end"}, key : Nat \cup {Null}, id : Nat]
    BY DEF Pages!At
  <2>2. pageChanges \in 0 .. MaxPageChanges
    BY CatalogPlaneAssumptions DEF Pages!Init, Pages!PagingAssumption
  <2> QED BY <1>1, <2>1, <2>2 DEF Pages!Init, Pages!TypeOK
<1>3. cursor.at = "start"
  BY <1>1 DEF Pages!At
<1>4. Pages!GivenAsTheyAre /\ Pages!ByCursor
  BY <1>1, <1>3 DEF Pages!GivenAsTheyAre, Pages!ByCursor, Pages!CursorsStrayAtCutsOnly, Pages!Repeated, Pages!Beyond
<1>5. Pages!ByOffset
  <2>1. Pages!Cardinality({}) = 0 /\ pageChanges = 0
    BY FS_EmptySet, PagesFinite DEF Pages!Init
  <2>2. DOMAIN rows \ steady = {}
    BY <1>1
  <2>3. Pages!Passed = {}
    <3> SUFFICES ASSUME NEW r \in DOMAIN rows PROVE ~ (Pages!Rank(r) < 0)
      BY <1>1 DEF Pages!Passed
    <3>1. Pages!Rank(r) \in Nat
      BY <1>2, PagesTableIs, PagesRankIs DEF Pages!TypeOK
    <3> QED BY <3>1
  <2>4. Pages!Cardinality(DOMAIN rows \ steady) = 0
    BY ONLY <2>1, <2>2
  <2>5. Pages!Cardinality(Pages!Passed) = 0
    BY ONLY <2>1, <2>3
  <2>6. cursor.at # "end" /\ cursor.at # "counted"
    BY <1>3
  <2> QED BY <1>1, <2>1, <2>4, <2>5, <2>6 DEF Pages!ByOffset, Pages!OffsetsStrayByChanges
<1> QED BY <1>2, <1>4, <1>5 DEF Pages!PagingInv

LEMMA PagesStepInv == ASSUME Pages!PagingInv, Pages!Next \/ UNCHANGED Pages!vars PROVE Pages!PagingInv'
<1>1. CASE UNCHANGED Pages!vars
  <2>1. UNCHANGED <<listing, limit, rows, cursor, listed, steady, pageChanges>>
    BY <1>1 DEF Pages!vars
  <2>2. Pages!TypeOK' /\ Pages!GivenAsTheyAre'
    BY <2>1 DEF Pages!PagingInv, Pages!TypeOK, Pages!Tables, Pages!Keys, Pages!GivenAsTheyAre
  <2>3. Pages!ByCursor'
    BY <2>1 DEF Pages!PagingInv, Pages!ByCursor, Pages!CursorsStrayAtCutsOnly, Pages!Given, Pages!Repeated,
       Pages!AtBoundary, Pages!PageEnds, Pages!CursorOf, Pages!Carried, Pages!Beyond, Pages!Again, Pages!Row
  <2>4. Pages!ByOffset'
    <3>1. Pages!Passed' = Pages!Passed
      BY <2>1 DEF Pages!Passed, Pages!Rank, Pages!Row, Pages!Precedes, Pages!Given
    <3>2. {r \in steady : ~ Pages!Given(r)}' = {r \in steady : ~ Pages!Given(r)}
      BY <2>1 DEF Pages!Given
    <3>3. Pages!OffsetsStrayByChanges' <=> Pages!OffsetsStrayByChanges
      BY <2>1, <3>1, <3>2 DEF Pages!OffsetsStrayByChanges
    <3> QED BY <2>1, <3>3 DEF Pages!PagingInv, Pages!ByOffset
  <2> QED BY <2>2, <2>3, <2>4 DEF Pages!PagingInv
<1>2. Pages!TypeOK
  BY DEF Pages!PagingInv
<1>3. CASE Pages!FetchPage
  BY <1>3, PagesFetchPageInv
<1>4. CASE Pages!FetchOffset
  BY <1>4, PagesFetchOffsetInv
<1>5. CASE Pages!CountRows
  BY <1>5, PagesCountInv
<1>6. ASSUME NEW r \in RowId, NEW key \in Pages!Keys(listing), Pages!Add(r, key)
      PROVE  Pages!PagingInv'
  <2>1. PICK t : t = [s \in DOMAIN rows \cup {r} |-> IF s = r THEN key ELSE rows[s]]
    OBVIOUS
  <2>2. t \in Pages!Tables /\ Pages!Change("add", t, r) /\ r \notin DOMAIN rows
    BY <1>2, <1>6, <2>1, PagesTableFacts DEF Pages!Add
  <2>3. DOMAIN t = DOMAIN rows \cup {r} /\ \A s \in DOMAIN rows : s # r /\ s \in DOMAIN t /\ t[s] = rows[s]
    BY <2>1, <2>2
  <2> QED BY <2>2, <2>3, PagesChangeInv
<1>7. ASSUME NEW r \in RowId, NEW key \in Pages!Keys(listing), Pages!Move(r, key)
      PROVE  Pages!PagingInv'
  <2>1. PICK t : t = [rows EXCEPT ![r] = key]
    OBVIOUS
  <2>2. t \in Pages!Tables /\ Pages!Change("move", t, r) /\ r \in DOMAIN rows
    BY <1>2, <1>7, <2>1, PagesTableFacts DEF Pages!Move
  <2>3. DOMAIN t = DOMAIN rows /\ \A s \in DOMAIN rows : s # r => s \in DOMAIN t /\ t[s] = rows[s]
    BY <1>2, <2>1 DEF Pages!TypeOK, Pages!Tables
  <2> QED BY <2>2, <2>3, PagesChangeInv
<1>8. ASSUME NEW r \in RowId, Pages!Delete(r) PROVE Pages!PagingInv'
  <2>1. PICK t : t = [s \in DOMAIN rows \ {r} |-> rows[s]]
    OBVIOUS
  <2>2. PICK key : key \in Pages!Keys(listing)
    BY <1>2, <1>8 DEF Pages!Delete, Pages!TypeOK, Pages!Tables
  <2>3. t \in Pages!Tables /\ Pages!Change("remove", t, r)
    BY <1>2, <1>8, <2>1, <2>2, PagesTableFacts DEF Pages!Delete
  <2>4. \A s \in DOMAIN rows : s # r => s \in DOMAIN t /\ t[s] = rows[s]
    BY <2>1
  <2> QED BY <2>3, <2>4, PagesChangeInv
<1> QED BY <1>1, <1>3, <1>4, <1>5, <1>6, <1>7, <1>8 DEF Pages!Next

LEMMA PagingInvHolds == CatalogPlaneSpec => [](catalogPart = "pages" => Pages!PagingInv)
<1> DEFINE I == catalogPart = "pages" => Pages!PagingInv
<1>1. CatalogPlaneInit => I
  BY PagesInitInv DEF CatalogPlaneInit
<1>2. I /\ [CatalogPlaneNext]_catalogPlaneVars => I'
  <2> SUFFICES ASSUME I, [CatalogPlaneNext]_catalogPlaneVars, catalogPart' = "pages"
               PROVE  Pages!PagingInv'
    OBVIOUS
  <2>1. catalogPart = "pages" /\ Pages!PagingInv
    BY DEF CatalogPlaneNext, catalogPlaneVars
  <2>2. Pages!Next \/ UNCHANGED Pages!vars
    BY <2>1 DEF CatalogPlaneNext, catalogPlaneVars, pagesVars, Pages!vars
  <2> QED BY <2>1, <2>2, PagesStepInv
<1> QED BY <1>1, <1>2, PTL DEF CatalogPlaneSpec

(***************************************************************************)
(* For every listing by cursor, page size and table, whatever rows other   *)
(* clients add, change or remove between two pages: of the rows that were  *)
(* there all the time, a client that follows the cursors misses or is      *)
(* given again only some that share the millisecond of a page's last row;  *)
(* it misses none when the rows are read upwards by a time, and is given   *)
(* none again when they are read otherwise (pageFromRows(), the cursor     *)
(* predicates and the sort of a model query).                              *)
(***************************************************************************)
THEOREM ListingsStrayAtCutsOnly == CatalogPlaneSpec => []PagingStraysAtCutsOnly
<1>1. (catalogPart = "pages" => Pages!PagingInv) => PagingStraysAtCutsOnly
  BY DEF PagingStraysAtCutsOnly, Pages!PagingInv, Pages!ByCursor, Pages!CursorsStrayAtCutsOnly
<1> QED BY <1>1, PagingInvHolds, PTL

(***************************************************************************)
(* For every listing by number, page size and table, whatever rows other   *)
(* clients add or rename between the count, a page and the next: a client  *)
(* that skips as many rows as it has, and drops the rows it has, is never  *)
(* past more rows it was not given than were changed since it began, and   *)
(* stops with every row that was there all the time, or all but as many as *)
(* were changed where the rows are counted apart (loadMoreAssets() and the *)
(* queries with LIMIT and OFFSET).                                         *)
(***************************************************************************)
THEOREM OffsetsStayComplete == CatalogPlaneSpec => []OffsetsComplete
<1>1. (catalogPart = "pages" => Pages!PagingInv) => OffsetsComplete
  BY DEF OffsetsComplete, Pages!PagingInv, Pages!ByOffset, Pages!OffsetsStrayByChanges
<1> QED BY <1>1, PagingInvHolds, PTL

=============================================================================
