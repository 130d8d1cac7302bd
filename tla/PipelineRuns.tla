---------------------------- MODULE PipelineRuns ----------------------------
(***************************************************************************)
(* Pipeline runs in PostgreSQL and the workers that execute them.          *)
(*                                                                         *)
(*   - a run is queued, claimed by one worker, executed outside of any     *)
(*     transaction, and ended by a transition with an expected state;      *)
(*   - a claim is one transaction that locks queued rows with FOR UPDATE   *)
(*     SKIP LOCKED and commits later; a transition waits for locked rows;  *)
(*   - a worker polls its scopes in round-robin order, several per cycle,  *)
(*     and executes what it claimed with a bounded number of loops;        *)
(*   - workers stop gracefully, crash, and lose calls to the database.     *)
(*                                                                         *)
(* What a pipeline computes is one outcome, success or failure.  A claim   *)
(* has no lease: a run that its worker lost stays `running'.               *)
(***************************************************************************)
EXTENDS Integers, Sequences, FiniteSets, SequencesExt

CONSTANTS
    Worker,         \* the worker processes
    Scopes,         \* sequence of the tenant/project pairs they poll
    Run,            \* run identifiers: a finite set of numbers
    ScopeOf,        \* ScopeOf[r]: the scope of a run
    BatchSize,      \* runs per claim
    ScopesPerPoll,  \* scopes per cycle
    Concurrency,    \* executions at the same time in one worker
    MaxStops,       \* bound on shutdowns
    MaxFaults       \* bound on crashes and failed calls

ASSUME PipelineAssumption ==
    /\ Run \subseteq Nat /\ IsFiniteSet(Run)
    /\ Scopes \in Seq(Range(Scopes)) /\ Scopes # <<>>
    /\ ScopeOf \in [Run -> Range(Scopes)]
    /\ BatchSize \in Nat \ {0}
    /\ ScopesPerPoll \in 1 .. Len(Scopes)
    /\ Concurrency \in Nat \ {0}
    /\ MaxStops \in Nat /\ MaxFaults \in Nat

\* Values for model checking: every run is in the scope polled last.
TwoScopes == <<"s1", "s2">>
AllInLast == [r \in Run |-> Scopes[Len(Scopes)]]

VARIABLES
    state,          \* pipeline_runs.state; "none": no such row
    events,         \* pipeline_run_events of each run
    locked,         \* rows locked by the open claim of a worker
    phase,          \* what the loop of a worker does
    visit,          \* scopes the current cycle has still to poll
    offset,         \* scopeOffset
    job,            \* job[w][r]: what worker w does with run r
    stopping,       \* shutdown was requested
    aborted,        \* the grace period is over: executionAbort
    stops,          \* shutdowns so far
    faults          \* faults so far

tables == <<state, events>>
process == <<phase, visit, offset, job>>
control == <<stopping, aborted, stops>>
vars == <<tables, locked, process, control, faults>>

Terminal == {"succeeded", "failed", "cancelled"}
RunState == {"none", "queued", "running"} \cup Terminal
NoJobs == [r \in Run |-> "none"]

TypeOK ==
    /\ state \in [Run -> RunState]
    /\ events \in [Run -> Seq(RunState)]
    /\ locked \in [Worker -> SUBSET Run]
    /\ phase \in [Worker -> {"idle", "polling", "working", "stopped"}]
    /\ visit \in [Worker -> Seq(Range(Scopes))]
    /\ offset \in [Worker -> 0 .. Len(Scopes) - 1]
    /\ job \in [Worker -> [Run -> {"none", "waiting", "loading", "succeeded", "failed"}]]
    /\ stopping \in [Worker -> BOOLEAN]
    /\ aborted \in [Worker -> BOOLEAN]
    /\ stops \in 0 .. MaxStops
    /\ faults \in 0 .. MaxFaults

Init ==
    /\ state = [r \in Run |-> "none"]
    /\ events = [r \in Run |-> <<>>]
    /\ locked = [w \in Worker |-> {}]
    /\ phase = [w \in Worker |-> "idle"]
    /\ visit = [w \in Worker |-> <<>>]
    /\ offset = [w \in Worker |-> 0]
    /\ job = [w \in Worker |-> NoJobs]
    /\ stopping = [w \in Worker |-> FALSE]
    /\ aborted = [w \in Worker |-> FALSE]
    /\ stops = 0
    /\ faults = 0

Fault == faults < MaxFaults /\ faults' = faults + 1
Free(r) == \A w \in Worker : r \notin locked[w]

-----------------------------------------------------------------------------
(* The repository. *)

ValidTransition(current, next) ==
    \/ current = "queued" /\ next \in {"running", "cancelled"}
    \/ current = "running" /\ next \in Terminal

\* The runs of R go to state s, each with its event.
Record(R, s) ==
    /\ state' = [r \in Run |-> IF r \in R THEN s ELSE state[r]]
    /\ events' = [r \in Run |-> IF r \in R THEN Append(events[r], s) ELSE events[r]]

\* Variant: an update that does not look at the expected state.
TransitionBlind(r, expected, next) ==
    /\ Free(r)
    /\ Record({r}, next)

(* transitionPipelineRun: the update waits for a lock on the row.  A row in *)
(* another state is left alone: the call replays or reports a conflict.     *)
Transition(r, expected, next) ==
    /\ Free(r)
    /\ ValidTransition(expected, next)
    /\ IF state[r] = expected THEN Record({r}, next) ELSE UNCHANGED tables

(* createPipelineRun: a run that exists already is not touched. *)
Create(r) ==
    /\ state[r] = "none"
    /\ Record({r}, "queued")
    /\ UNCHANGED <<locked, process, control, faults>>

\* A caller cancels a run in the state it has last seen.
Cancel(r) == \E expected \in {"queued", "running"} :
    /\ state[r] = expected
    /\ Transition(r, expected, "cancelled")
    /\ UNCHANGED <<locked, process, control, faults>>

-----------------------------------------------------------------------------
(* A cycle: runOnce. *)

\* Variant: every cycle starts with the same scopes.
NextOffsetStuck(w) == offset[w]
NextOffset(w) == (offset[w] + ScopesPerPoll) % Len(Scopes)

(* nextScopes: the scopes of this cycle, and the offset of the next one. *)
BeginCycle(w) ==
    /\ phase[w] = "idle"
    /\ ~stopping[w]
    /\ phase' = [phase EXCEPT ![w] = "polling"]
    /\ visit' = [visit EXCEPT ![w] =
          [i \in 1 .. ScopesPerPoll |-> Scopes[((offset[w] + i - 1) % Len(Scopes)) + 1]]]
    /\ offset' = [offset EXCEPT ![w] = NextOffset(w)]
    /\ UNCHANGED <<tables, locked, job, control, faults>>

\* Variant: without SKIP LOCKED and the check of the state after the lock.
ClaimableLocked(s) == {r \in Run : ScopeOf[r] = s /\ state[r] = "queued"}

(* The claim sees queued rows that no other claim has locked. *)
Claimable(s) == {r \in Run : ScopeOf[r] = s /\ state[r] = "queued" /\ Free(r)}
Lowest(R) == {r \in R : Cardinality({q \in R : q < r}) < BatchSize}
NextScope(w) == visit' = [visit EXCEPT ![w] = Tail(@)]

\* claimPipelineRuns: the candidates are locked; no candidates, no claim.
Claim(w) ==
    /\ phase[w] = "polling"
    /\ visit[w] # <<>>
    /\ locked[w] = {}
    /\ ~stopping[w]
    /\ LET R == Lowest(Claimable(Head(visit[w])))
       IN  /\ locked' = [locked EXCEPT ![w] = R]
           /\ IF R = {} THEN NextScope(w) ELSE UNCHANGED visit
    /\ UNCHANGED <<tables, phase, offset, job, control, faults>>

\* The claim commits: the runs are running, and the worker has them.
Commit(w) ==
    /\ locked[w] # {}
    /\ Record(locked[w], "running")
    /\ job' = [job EXCEPT ![w] = [r \in Run |-> IF r \in locked[w] THEN "waiting" ELSE @[r]]]
    /\ locked' = [locked EXCEPT ![w] = {}]
    /\ NextScope(w)
    /\ UNCHANGED <<phase, offset, control, faults>>

\* The claim commits but its answer is lost: scope_claim_failed.
CommitUnheard(w) ==
    /\ locked[w] # {}
    /\ Fault
    /\ Record(locked[w], "running")
    /\ locked' = [locked EXCEPT ![w] = {}]
    /\ NextScope(w)
    /\ UNCHANGED <<phase, offset, job, control>>

\* The claim fails or is rolled back: scope_claim_failed.
ClaimFails(w) ==
    /\ phase[w] = "polling"
    /\ visit[w] # <<>>
    /\ Fault
    /\ locked' = [locked EXCEPT ![w] = {}]
    /\ NextScope(w)
    /\ UNCHANGED <<tables, phase, offset, job, control>>

\* All scopes are visited, or a shutdown cuts the round short.
StartWork(w) ==
    /\ phase[w] = "polling"
    /\ visit[w] = <<>> \/ (stopping[w] /\ locked[w] = {})
    /\ phase' = [phase EXCEPT ![w] = "working"]
    /\ visit' = [visit EXCEPT ![w] = <<>>]
    /\ UNCHANGED <<tables, locked, offset, job, control, faults>>

Jobs(w, kinds) == {r \in Run : job[w][r] \in kinds}
SetJob(w, r, kind) == job' = [job EXCEPT ![w][r] = kind]

\* mapConcurrent: a free loop takes the next claimed run.
StartJob(w) == \E r \in Jobs(w, {"waiting"}) :
    /\ phase[w] = "working"
    /\ \A q \in Jobs(w, {"waiting"}) : r <= q
    /\ Cardinality(Jobs(w, {"loading", "succeeded", "failed"})) < Concurrency
    /\ SetJob(w, r, "loading")
    /\ UNCHANGED <<tables, locked, phase, visit, offset, control, faults>>

\* processRun: version and rules are loaded, and the executor runs at once.
\* An aborted executor fails, and so may loading, the rules or the steps.
Execute(w, r) ==
    /\ job[w][r] = "loading"
    /\ \E outcome \in {"succeeded", "failed"} :
        /\ aborted[w] => outcome = "failed"
        /\ SetJob(w, r, outcome)
    /\ UNCHANGED <<tables, locked, phase, visit, offset, control, faults>>

\* The outcome is written from `running'; a conflict is logged.
Finish(w, r) ==
    /\ job[w][r] \in {"succeeded", "failed"}
    /\ Transition(r, "running", job[w][r])
    /\ SetJob(w, r, "none")
    /\ UNCHANGED <<locked, phase, visit, offset, control, faults>>

\* The call fails for another reason: it is logged, and the run is given up.
FinishFails(w, r) ==
    /\ job[w][r] \in {"succeeded", "failed"}
    /\ Fault
    /\ SetJob(w, r, "none")
    /\ UNCHANGED <<tables, locked, phase, visit, offset, control>>

\* Variant: an abort ends the cycle although claimed runs are waiting.
EndCycleEarly(w) ==
    /\ phase[w] = "working"
    /\ IF aborted[w] THEN Jobs(w, {"loading", "succeeded", "failed"}) = {} ELSE job[w] = NoJobs
    /\ phase' = [phase EXCEPT ![w] = "idle"]
    /\ job' = [job EXCEPT ![w] = NoJobs]
    /\ UNCHANGED <<tables, locked, visit, offset, control, faults>>

(* All claimed runs have been processed. *)
EndCycle(w) ==
    /\ phase[w] = "working"
    /\ job[w] = NoJobs
    /\ phase' = [phase EXCEPT ![w] = "idle"]
    /\ UNCHANGED <<tables, locked, visit, offset, job, control, faults>>

-----------------------------------------------------------------------------
(* The process. *)

\* SIGTERM: no new claims.
Stop(w) ==
    /\ ~stopping[w]
    /\ stops < MaxStops
    /\ stops' = stops + 1
    /\ stopping' = [stopping EXCEPT ![w] = TRUE]
    /\ UNCHANGED <<tables, locked, process, aborted, faults>>

\* The grace period ends while a cycle is active.
Abort(w) ==
    /\ stopping[w]
    /\ ~aborted[w]
    /\ phase[w] \in {"polling", "working"}
    /\ aborted' = [aborted EXCEPT ![w] = TRUE]
    /\ UNCHANGED <<tables, locked, process, stopping, stops, faults>>

Stopped(w) ==
    /\ stopping[w]
    /\ phase[w] = "idle"
    /\ phase' = [phase EXCEPT ![w] = "stopped"]
    /\ UNCHANGED <<tables, locked, visit, offset, job, control, faults>>

\* A new process in the place of worker w.
Fresh(w) ==
    /\ locked' = [locked EXCEPT ![w] = {}]
    /\ phase' = [phase EXCEPT ![w] = "idle"]
    /\ visit' = [visit EXCEPT ![w] = <<>>]
    /\ offset' = [offset EXCEPT ![w] = 0]
    /\ job' = [job EXCEPT ![w] = NoJobs]
    /\ stopping' = [stopping EXCEPT ![w] = FALSE]
    /\ aborted' = [aborted EXCEPT ![w] = FALSE]
    /\ UNCHANGED <<tables, stops>>

Start(w) == phase[w] = "stopped" /\ Fresh(w) /\ UNCHANGED faults
Crash(w) == phase[w] # "stopped" /\ Fault /\ Fresh(w)

-----------------------------------------------------------------------------
Cycle(w) == BeginCycle(w) \/ Claim(w) \/ Commit(w) \/ StartWork(w) \/ StartJob(w) \/ EndCycle(w)
Process(w, r) == Execute(w, r) \/ Finish(w, r)
Lost(w) ==
    \/ CommitUnheard(w) \/ ClaimFails(w) \/ Crash(w)
    \/ \E r \in Run : FinishFails(w, r)
Client == \E r \in Run : Create(r) \/ Cancel(r)
Control(w) == Stop(w) \/ Abort(w) \/ Stopped(w) \/ Start(w)
Next == Client \/ \E w \in Worker :
    Cycle(w) \/ Lost(w) \/ Control(w) \/ \E r \in Run : Process(w, r)

Spec == Init /\ [][Next]_vars

(* The loop of a worker goes on, its executions end, and a stopped worker  *)
(* is started again.  Nobody has to create, cancel, stop or abort.         *)
FairSpec == Spec /\ \A w \in Worker :
    /\ WF_vars(Cycle(w)) /\ WF_vars(Stopped(w)) /\ WF_vars(Start(w))
    /\ \A r \in Run : WF_vars(Process(w, r))

-----------------------------------------------------------------------------
(* A run is executed by one worker, once: who has it is the only one, and  *)
(* it is still running unless a caller has cancelled it meanwhile.         *)
ClaimedOnce ==
    /\ \A v, w \in Worker : \A r \in Run :
        job[v][r] # "none" /\ job[w][r] # "none" => v = w
    /\ \A w \in Worker : \A r \in Run :
        job[w][r] # "none" => state[r] \in {"running", "cancelled"}

(* The events of a run are its history: they start with `queued', every    *)
(* step is a valid transition, and the last one is the state of the row.   *)
EventsTellState == \A r \in Run :
    /\ state[r] = (IF events[r] = <<>> THEN "none" ELSE Last(events[r]))
    /\ events[r] # <<>> => events[r][1] = "queued"
    /\ \A i \in 1 .. Len(events[r]) - 1 : ValidTransition(events[r][i], events[r][i + 1])

(* "Another terminal transition wins rather than being overwritten": no    *)
(* step changes a run that has ended, or takes an event back.              *)
EndIsFinal == [][\A r \in Run :
    /\ state[r] \in Terminal => state'[r] = state[r]
    /\ IsPrefix(events[r], events'[r])]_vars

(* Without a crash or a failed call, a shutdown included, every running    *)
(* run is in the hands of a worker: stopping and aborting give up nothing. *)
NothingAbandoned == faults = 0 =>
    \A r \in Run : state[r] = "running" => \E w \in Worker : job[w][r] # "none"

(* The invariant the proofs use: locked rows are queued and locked once,   *)
(* and a worker that is idle or stopped has neither locks nor jobs.        *)
LockInv ==
    /\ \A v, w \in Worker : \A r \in Run : r \in locked[v] /\ r \in locked[w] => v = w
    /\ \A w \in Worker : \A r \in locked[w] : state[r] = "queued"
    /\ \A w \in Worker : locked[w] # {} => phase[w] = "polling" /\ visit[w] # <<>>
    /\ \A w \in Worker : phase[w] \in {"idle", "stopped"} =>
          \A r \in Run : job[w][r] = "none"

PipelineInv == TypeOK /\ ClaimedOnce /\ EventsTellState /\ NothingAbandoned /\ LockInv

(* Every queued run of every scope is claimed or cancelled at last, and    *)
(* without faults it also ends.                                            *)
NoScopeStarves == \A r \in Run : state[r] = "queued" ~> state[r] # "queued"
EveryRunEnds == \A r \in Run : state[r] = "queued" ~> (state[r] \in Terminal \/ faults > 0)
=============================================================================
