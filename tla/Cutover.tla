------------------------------- MODULE Cutover -------------------------------
(***************************************************************************)
(* The one-way move of workspace history from SQLite to PostgreSQL:        *)
(* operators write bundles of a source, rehearse them and apply them with  *)
(* separate invocations of the import tool, against a target that the      *)
(* application may already be using and a source that may still be written.*)
(*                                                                         *)
(* A source is the number of writes it has seen: each adds a revision and  *)
(* an audit event, whose ids count from 1.  A bundle is a prefix of one.   *)
(***************************************************************************)
EXTENDS Naturals, FiniteSets

CONSTANTS
    Source,         \* SQLite databases
    Run,            \* invocations of the import tool
    MaxWrites,      \* bound: writes to a source
    MaxOthers,      \* bound: audit ids the application takes in the target
    MaxFaults       \* bound: failing statements, lost replies

CutoverAssumption == MaxWrites \in Nat /\ MaxOthers \in Nat /\ MaxFaults \in Nat

VARIABLES
    source,         \* per source: its writes, and what makes it unfit
    file,           \* per source: the last bundle written, if any
    run,            \* per invocation: how far it has come
    imports,        \* what invocations have committed to the target
    others,         \* audit ids the application has committed there
    sequence,       \* odf.audit_log_id_seq
    early,          \* has the application used the target before an import?
    faults

vars == <<source, file, run, imports, others, sequence, early, faults>>

(* "unfit": a scoped workspace, or a JSON number no double can hold.       *)
(* "twins": correlation ids that differ in case only, one PostgreSQL UUID. *)
Flaw == {"none", "unfit", "twins"}
Bundle == [of : Source, upto : 0..MaxWrites, flaw : {"none", "twins"}]
Idle == [step |-> "idle"]
OpenSteps == {"read", "begun", "locked", "checked", "inserted", "verified"}

Attempt == [step : OpenSteps \cup {"refused", "failed", "rehearsed", "applied"},
            apply : BOOLEAN, bundle : Bundle, source : 0..MaxWrites,
            seen : SUBSET Run, ids : SUBSET (1..(MaxWrites + MaxOthers))]

TypeOK ==
    /\ source \in [Source -> [written : 0..MaxWrites, flaw : Flaw]]
    /\ file \in [Source -> SUBSET Bundle]
    /\ run \in [Run -> Attempt \cup {Idle}]
    /\ imports \subseteq Run
    /\ others \subseteq 1..(MaxWrites + MaxOthers)
    /\ sequence \in 0..(MaxWrites + MaxOthers)
    /\ early \in BOOLEAN
    /\ faults \in 0..MaxFaults

Init ==
    /\ source = [s \in Source |-> [written |-> 0, flaw |-> "none"]]
    /\ file = [s \in Source |-> {}]
    /\ run = [r \in Run |-> Idle]
    /\ imports = {}
    /\ others = {}
    /\ sequence = 0
    /\ early = FALSE
    /\ faults = 0

Rows(r) == 1..run[r].bundle.upto
AuditIds == others \cup UNION {Rows(r) : r \in imports}
Goto(r, step) == run' = [run EXCEPT ![r].step = step]
Fault == faults < MaxFaults /\ faults' = faults + 1

-----------------------------------------------------------------------------
(* The source and its bundles.                                             *)

(* A writer that was not stopped, or not yet. *)
Write(s, flaw) ==
    /\ source[s].written < MaxWrites
    /\ source' = [source EXCEPT ![s] =
                     [written |-> @.written + 1, flaw |-> IF @.flaw = "none" THEN flaw ELSE @.flaw]]
    /\ UNCHANGED <<file, run, imports, others, sequence, early, faults>>

(* createSqliteCutoverPreflightReport() reads in one SQLite transaction    *)
(* and refuses scoped workspaces and numbers it cannot carry losslessly.   *)
Fit(s) == source[s].flaw # "unfit"
BundleOf(s) == [of |-> s, upto |-> source[s].written, flaw |-> source[s].flaw]

Preflight(s) ==
    /\ Fit(s)
    /\ file' = [file EXCEPT ![s] = {BundleOf(s)}]
    /\ UNCHANGED <<source, run, imports, others, sequence, early, faults>>

-----------------------------------------------------------------------------
(* The import.                                                             *)

(* Variant: the source that is re-read is not compared with the bundle. *)
NotCompared(s, b) == Fit(s)

(* assertCurrentSourceMatchesBundle(): schema, counts, checksums. *)
Matches(s, b) == Fit(s) /\ BundleOf(s) = b

(* createCorrelationIdMapping(): ids that would share a UUID are refused.  *)
Distinct(b) == b.flaw # "twins"

(* --apply demands --database; a rehearsal may go without.  The source is  *)
(* read, compared and closed before PostgreSQL is opened.                  *)
Start(r, b, s, apply, reread) ==
    /\ run[r] = Idle
    /\ apply => reread
    /\ reread \/ s = b.of
    /\ run' = [run EXCEPT ![r] =
          [step   |-> IF (reread => Matches(s, b)) /\ Distinct(b) THEN "read" ELSE "refused",
           apply  |-> apply, bundle |-> b, source |-> source[s].written,
           seen |-> {}, ids |-> {}]]
    /\ UNCHANGED <<source, file, imports, others, sequence, early, faults>>

(* BEGIN ISOLATION LEVEL SERIALIZABLE: the first set_config() fixes the    *)
(* snapshot, before the advisory lock is waited for.                       *)
Begin(r) ==
    /\ run[r].step = "read"
    /\ run' = [run EXCEPT ![r].step = "begun", ![r].seen = imports, ![r].ids = others]
    /\ UNCHANGED <<source, file, imports, others, sequence, early, faults>>

Lock(r) ==
    /\ run[r].step = "begun"
    /\ \A q \in Run : run[q].step \notin {"locked", "checked", "inserted", "verified"}
    /\ Goto(r, "locked")
    /\ UNCHANGED <<source, file, imports, others, sequence, early, faults>>

(* verifyRequiredMigrations() and verifyCutoverPrincipal() hold; the       *)
(* target must be empty in the snapshot.                                   *)
SeenEmpty(r) == run[r].ids = {} /\ \A i \in run[r].seen : Rows(i) = {}

Check(r) ==
    /\ run[r].step = "locked"
    /\ Goto(r, IF SeenEmpty(r) THEN "checked" ELSE "refused")
    /\ UNCHANGED <<source, file, imports, others, sequence, early, faults>>

(* insertTargetData(): a row that was committed under the same key since   *)
(* the snapshot is an error.                                               *)
Insert(r) ==
    /\ run[r].step = "checked"
    /\ Goto(r, IF Rows(r) \cap AuditIds = {} THEN "inserted" ELSE "failed")
    /\ UNCHANGED <<source, file, imports, others, sequence, early, faults>>

(* advanceAuditSequence(): only when applying, and only if there are rows. *)
Advances(r) == run[r].apply /\ Rows(r) # {}

(* Counts, integrity and checksums of what was inserted are verified; a    *)
(* rehearsal then rolls back.  setval() is not undone by a ROLLBACK.       *)
Verify(r) ==
    /\ run[r].step = "inserted"
    /\ sequence' = IF Advances(r) THEN run[r].bundle.upto ELSE sequence
    /\ Goto(r, IF run[r].apply THEN "verified" ELSE "rehearsed")
    /\ UNCHANGED <<source, file, imports, others, early, faults>>

(* Two imports that overlap cannot both get here: their audit ids clash    *)
(* (and SERIALIZABLE would refuse the second to commit).                   *)
Commit(r) ==
    /\ run[r].step = "verified"
    /\ imports' = imports \cup {r}
    /\ Goto(r, "applied")
    /\ UNCHANGED <<source, file, others, sequence, early, faults>>

(* A statement fails or times out, or the process dies: ROLLBACK, or the   *)
(* connection is discarded, which rolls back too.                          *)
Fails(r) ==
    /\ run[r].step \in OpenSteps
    /\ Fault
    /\ Goto(r, "failed")
    /\ UNCHANGED <<source, file, imports, others, sequence, early>>

(* COMMIT takes effect and its reply is lost. *)
ReplyLost(r) ==
    /\ run[r].step = "verified"
    /\ Fault
    /\ imports' = imports \cup {r}
    /\ Goto(r, "failed")
    /\ UNCHANGED <<source, file, others, sequence, early>>

(* The application writes an audit event to the target.  An insert waits   *)
(* while an import holds its key uncommitted, and fails if it is taken.    *)
Held == UNION {Rows(r) : r \in {q \in Run : run[q].step \in {"inserted", "verified"}}}

Others ==
    /\ sequence < MaxWrites + MaxOthers
    /\ Cardinality(others) < MaxOthers
    /\ sequence + 1 \notin Held
    /\ sequence' = sequence + 1
    /\ others' = IF sequence' \in AuditIds THEN others ELSE others \cup {sequence'}
    /\ early' = (early \/ imports = {} \/ \E r \in Run : run[r].step \in OpenSteps)
    /\ UNCHANGED <<source, file, run, imports, faults>>

Next ==
    \/ \E s \in Source : Preflight(s) \/ \E flaw \in Flaw : Write(s, flaw)
    \/ \E r \in Run, s \in Source, t \in Source, apply, reread \in BOOLEAN : \E b \in file[t] : Start(r, b, s, apply, reread)
    \/ \E r \in Run : \/ Begin(r) \/ Lock(r) \/ Check(r) \/ Insert(r) \/ Verify(r)
                      \/ Commit(r) \/ Fails(r) \/ ReplyLost(r)
    \/ Others

Spec == Init /\ [][Next]_vars

-----------------------------------------------------------------------------
(* What was applied is one whole source: every committed import is of a    *)
(* bundle that equalled the database when it was read again, at most one   *)
(* of them has rows, and an invocation that answers "applied" is one of    *)
(* them (importSqliteCutoverBundle() with a retry after a lost reply, with *)
(* a second operator at work and with a writer nobody stopped).            *)
TargetHoldsOneSource ==
    /\ \A r \in imports : run[r].bundle.upto = run[r].source
    /\ Cardinality({r \in imports : Rows(r) # {}}) <= 1
    /\ \A r \in Run : run[r].step = "applied" => r \in imports

(* If nobody used the target before or during the import, the next audit   *)
(* event of the application gets an id of its own (advanceAuditSequence()  *)
(* before COMMIT).                                                         *)
NextIdIsFree == ~early => sequence + 1 \notin AuditIds

(* A rehearsal leaves nothing behind: while no invocation has reached the  *)
(* end of an apply and the application has written nothing, tables and     *)
(* sequence are as they were (dry-run is the default).                     *)
RehearsalsLeaveNoTrace ==
    (\A r \in Run : run[r] # Idle => ~run[r].apply) /\ ~early => AuditIds = {} /\ sequence = 0

-----------------------------------------------------------------------------
(* The inductive invariant behind the three.  One invocation at a time is  *)
(* past the advisory lock, and what it has inserted is nobody's yet; what  *)
(* was committed was an apply of what its source held.  While the target   *)
(* was left alone, ids in use are behind the sequence, a snapshot is still *)
(* what the target holds, and only an apply leaves anything.               *)
Exclusive == {"locked", "checked", "inserted", "verified"}

AttemptInv(r) ==
    /\ run[r].apply /\ run[r].step # "refused" => run[r].bundle.upto = run[r].source
    /\ run[r].step \in {"verified", "applied"} => run[r].apply
    /\ run[r].step = "applied" => r \in imports
    /\ run[r].step \in {"inserted", "verified"} => Rows(r) \cap AuditIds = {}

LeftAloneInv ==
    /\ AuditIds \subseteq 1..sequence
    /\ \A r \in Run : run[r].step \in Exclusive \cup {"begun"} => run[r].ids = others
    /\ \A r \in Run : run[r].step \in Exclusive \ {"locked"} => run[r].ids = {}
    /\ \A r \in Run : run[r].step = "verified" => run[r].bundle.upto <= sequence
    /\ (\A r \in Run : run[r] # Idle => ~run[r].apply) =>
          imports = {} /\ others = {} /\ sequence = 0

CutoverInv ==
    /\ TypeOK
    /\ \A q, r \in Run : run[q].step \in Exclusive /\ run[r].step \in Exclusive => q = r
    /\ \A r \in Run : run[r] # Idle => AttemptInv(r)
    /\ \A r \in imports : run[r].step \in {"applied", "failed"} /\ run[r].apply
    /\ \A q, r \in imports : Rows(q) # {} /\ Rows(r) # {} => q = r
    /\ ~early => LeftAloneInv
=============================================================================
