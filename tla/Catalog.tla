------------------------------- MODULE Catalog -------------------------------
(***************************************************************************)
(* The catalog of one project on PostgreSQL: datasets, sources, connectors,*)
(* projects, pipelines and their versions, quality rules and results, runs *)
(* on demand, data-model versions, candidates and their review.  Handlers  *)
(* serve requests, each in a READ COMMITTED transaction of a few           *)
(* statements whose COMMIT may be lost; clients then ask again.            *)
(*                                                                         *)
(* Every effect is a row and its audit entry, committed together and never *)
(* deleted: the tables are read off the log of effects.  An INSERT waits   *)
(* for a transaction that has inserted the same key, so that checking a    *)
(* key and committing the row are one step here.                           *)
(***************************************************************************)
EXTENDS Naturals, Sequences, FiniteSets

CONSTANTS
    Handler,
    Workload,       \* sets of requests [kind, id, of, input]: "id" is the key the
                    \* client chose, "of" the model, pipeline, source, project
                    \* or candidate the request is about
    MaxEffects,     \* bound: effects
    MaxFaults       \* bound: failing statements, lost replies

VARIABLES
    asked,          \* the requests that clients make, again and again
    log,            \* committed effects [asked, number], oldest first
    session,        \* per handler: the transaction it is in, or its last answer
    faults

vars == <<asked, log, session, faults>>

Idle == [step |-> "idle"]
None == "none"

(* Asked again, a keyed request is answered with the row it made, if that  *)
(* was made from the same input, and a once-only request gets a conflict.  *)
(* Quality results are found by correlation id, and not compared.          *)
Keyed  == {"dataset", "source", "connector", "project", "append", "run"}
Once   == {"pipeline", "rule", "candidate"}
Locked == {"model", "append", "run", "result"}

Request == UNION Workload
Effect == [asked : Request, number : Nat]
Open   == {"sourced", "locked", "looked", "evaluated"}

CatalogAssumption ==
    /\ \A q \in Request : q = [kind |-> q.kind, id |-> q.id, of |-> q.of, input |-> q.input]
    /\ \A q \in Request : q.kind = "graph" => q.input \in Nat
    /\ {MaxEffects, MaxFaults} \subseteq Nat

Session ==
    {Idle} \cup [step : {"sourced", "locked", "refused"}, asked : Request]
    \cup [step : {"looked", "evaluated"}, asked : Request, number : Nat]
    \cup [step : {"told"}, asked : Request, effect : Effect]

TypeOK ==
    /\ asked \in Workload
    /\ log \in Seq(Effect) /\ Len(log) <= MaxEffects
    /\ session \in [Handler -> Session]
    /\ faults \in 0..MaxFaults

Init ==
    /\ asked \in Workload
    /\ log = <<>>
    /\ session = [h \in Handler |-> Idle]
    /\ faults = 0

Stored == {log[i] : i \in DOMAIN log}
Prior(q) == {e \in Stored : e.asked.kind = q.kind /\ e.asked.id = q.id}
OfKind(kind, of) == {e \in Stored : e.asked.kind = kind /\ e.asked.of = of}

Goto(h, s) == session' = [session EXCEPT ![h] = s]
Fault      == faults < MaxFaults /\ faults' = faults + 1

Free(h)    == session[h].step \notin Open

(* The transaction ends and the client is told, or the reply is lost. *)
Tells(h, answer) == \/ Goto(h, answer) /\ UNCHANGED faults
                    \/ Goto(h, Idle) /\ Fault
Answers(h, q, e) == Tells(h, [step |-> "told", asked |-> q, effect |-> e]) /\ UNCHANGED <<asked, log>>
Refuses(h, q)    == Tells(h, [step |-> "refused", asked |-> q]) /\ UNCHANGED <<asked, log>>

Commits(h, q, n) ==
    LET e == [asked |-> q, number |-> n] IN
    /\ Len(log) < MaxEffects
    /\ log' = Append(log, e)
    /\ UNCHANGED asked
    /\ Tells(h, [step |-> "told", asked |-> q, effect |-> e])

-----------------------------------------------------------------------------
(* Requests of a single INSERT ... ON CONFLICT DO NOTHING.                 *)

(* A project is renamed in place: a create is compared with the row as it  *)
(* is now.                                                                 *)
Renames(q) == OfKind("rename", q.id)
Current(q) ==
    IF q.kind = "project" /\ Renames(q) # {}
    THEN log[CHOOSE i \in DOMAIN log : /\ log[i] \in Renames(q)
                                       /\ \A j \in DOMAIN log : j > i => log[j] \notin Renames(q)].asked.input
    ELSE (CHOOSE e \in Prior(q) : TRUE).asked.input

(* sameProject(), sameDataset(), sameSourceConnection(), input_hash, ... *)
Same(q) == Current(q) = q.input /\ \A e \in Prior(q) : e.asked.of = q.of

Resolve(h, q) ==
    IF q.kind \in Keyed => Same(q)
    THEN \E e \in Prior(q) : Answers(h, q, e)
    ELSE Refuses(h, q)

CreateKeyed(h, q) ==
    /\ Free(h)
    /\ q.kind \in {"dataset", "project"}
    /\ IF Prior(q) # {} THEN Resolve(h, q) ELSE Commits(h, q, 0)

CreateOnce(h, q) ==
    /\ Free(h)
    /\ q.kind \in Once
    /\ IF Prior(q) # {} THEN Refuses(h, q) ELSE Commits(h, q, 0)

(* Sources and connectors are both source_connections, with one external   *)
(* id each per project: the other kind's row is an error.                  *)
Twin(q) == [q EXCEPT !.kind = CASE @ = "source" -> "connector" [] @ = "connector" -> "source" [] OTHER -> "none"]

CreateConnection(h, q) ==
    IF Prior(q) # {} THEN Resolve(h, q)
    ELSE IF Prior(Twin(q)) # {} THEN Refuses(h, q)
    ELSE Commits(h, q, 0)

CreateSource(h, q) ==
    /\ Free(h)
    /\ q.kind = "source"
    /\ CreateConnection(h, q)

(* createConnector() looks for its source in a transaction of its own. *)
FindSource(h, q) ==
    /\ Free(h)
    /\ q.kind = "connector"
    /\ Prior([q EXCEPT !.kind = "source", !.id = q.of]) # {}
    /\ Goto(h, [step |-> "sourced", asked |-> q])
    /\ UNCHANGED <<asked, log, faults>>

CreateConnector(h) ==
    /\ session[h].step = "sourced"
    /\ CreateConnection(h, session[h].asked)

(* reviewCandidate(), reviewSpatialAssetLink(): WHERE status = 'proposed'. *)
Proposed(q) ==
    Prior([q EXCEPT !.kind = "candidate", !.id = q.of]) # {} /\ OfKind("decision", q.of) = {}

Review(h, q) ==
    /\ Free(h)
    /\ q.kind = "decision"
    /\ IF Proposed(q) THEN Commits(h, q, 0) ELSE Refuses(h, q)

(* updateProject() *)
Rename(h, q) ==
    /\ Free(h)
    /\ q.kind = "rename"
    /\ Prior([q EXCEPT !.kind = "project", !.id = q.of]) # {}
    /\ Commits(h, q, 0)

(* The model graph's own createModelVersion(), with a version its client   *)
(* names, in the same space.                                               *)
Numbers(of) == {e.number : e \in OfKind("model", of) \cup OfKind("graph", of)}
CreateGraphModel(h, q) ==
    /\ Free(h)
    /\ q.kind = "graph"
    /\ IF q.input \in Numbers(q.of) THEN Refuses(h, q) ELSE Commits(h, q, q.input)

-----------------------------------------------------------------------------
(* Requests that take an advisory lock first.                              *)

LockOf(q) == IF q.kind \in {"model", "append"} THEN <<q.kind, q.of>> ELSE <<q.kind, q.id>>

(* Variant: no lock is taken. *)
UnlockedAlways(q) == TRUE

(* pg_advisory_xact_lock(): held until the transaction ends. *)
Holds(h)    == session[h].step \in Open \ {"sourced"}
Unlocked(q) == \A h \in Handler : Holds(h) => LockOf(session[h].asked) # LockOf(q)
Lock(h, q) ==
    /\ Free(h)
    /\ q.kind \in Locked
    /\ Unlocked(q)
    /\ Goto(h, [step |-> "locked", asked |-> q])
    /\ UNCHANGED <<asked, log, faults>>

At(h, step, kind) == session[h].step = step /\ session[h].asked.kind = kind
Looked(h, step, n) ==
    /\ Goto(h, [step |-> step, asked |-> session[h].asked, number |-> n])
    /\ UNCHANGED <<asked, log, faults>>

(* The earlier row under the same version id, idempotency key or           *)
(* correlation id answers, and ends the transaction.                       *)
LookUp(h) == LET q == session[h].asked IN IF Prior(q) # {} THEN Resolve(h, q) ELSE Looked(h, "looked", 0)

LookForVersion(h) == At(h, "locked", "append") /\ LookUp(h)
LookForRun(h)     == At(h, "locked", "run") /\ LookUp(h)
LookForResult(h)  == At(h, "locked", "result") /\ LookUp(h)

(* SELECT max(version) + 1, and the oldest model space. *)
NextNumber(q)  == Cardinality(OfKind(q.kind, q.of)) + 1
NumberModel(h) == At(h, "locked", "model") /\ Looked(h, "looked", NextNumber(session[h].asked))

(* evaluateQuality() reads the rules in a statement of its own. *)
Rules       == {e \in Stored : e.asked.kind = "rule"}
Evaluate(h) == At(h, "looked", "run") /\ Looked(h, "evaluated", Cardinality(Rules))

(* INSERT INTO odf.data_models ... ON CONFLICT DO NOTHING returns no row. *)
Twinned(q, n) == n \in Numbers(q.of)

InsertIf(h, free, n) == IF free THEN Commits(h, session[h].asked, n) ELSE Refuses(h, session[h].asked)

InsertModel(h) ==
    /\ At(h, "looked", "model")
    /\ InsertIf(h, ~Twinned(session[h].asked, session[h].number), session[h].number)

(* UPDATE odf.pipelines SET current_version = current_version + 1 *)
InsertVersion(h) ==
    /\ At(h, "looked", "append")
    /\ InsertIf(h, Prior(session[h].asked) = {}, NextNumber(session[h].asked))

InsertRun(h) ==
    /\ At(h, "evaluated", "run")
    /\ InsertIf(h, Prior(session[h].asked) = {}, session[h].number)

(* No key would refuse a second result. *)
InsertResult(h) == At(h, "looked", "result") /\ InsertIf(h, TRUE, 0)

(* A statement fails or the process dies: ROLLBACK. *)
Fail(h) ==
    /\ ~Free(h)
    /\ Fault
    /\ Goto(h, Idle)
    /\ UNCHANGED <<asked, log>>

Next ==
    \E h \in Handler :
        \/ \E q \in asked :
              \/ CreateKeyed(h, q) \/ CreateOnce(h, q) \/ CreateSource(h, q) \/ FindSource(h, q)
              \/ Review(h, q) \/ Rename(h, q) \/ CreateGraphModel(h, q) \/ Lock(h, q)
        \/ CreateConnector(h) \/ LookForVersion(h) \/ LookForRun(h)
        \/ LookForResult(h) \/ NumberModel(h) \/ Evaluate(h) \/ InsertModel(h) \/ InsertVersion(h)
        \/ InsertRun(h) \/ InsertResult(h) \/ Fail(h)

Spec == Init /\ [][Next]_vars

-----------------------------------------------------------------------------
(* A client is told what is stored, however often it asks and whoever else *)
(* asks: the row was made under its key and, but for quality results, from *)
(* its input; and it is only refused what somebody else has made, or what  *)
(* is made once (the replay branches of the catalog's create methods,      *)
(* triggerPipelineRun(), appendPipelineVersion()).                         *)
Agrees(t) ==
    /\ t.step = "told" =>
          /\ t.effect \in Stored
          /\ t.effect.asked.kind = t.asked.kind
          /\ t.effect.asked.id = t.asked.id
          /\ t.asked.kind \in Keyed \ {"project"} => t.effect.asked = t.asked
    /\ t.step = "refused" /\ t.asked.kind \in Keyed =>
          \/ \E e \in Prior(t.asked) : e.asked # t.asked
          \/ Prior(Twin(t.asked)) # {}
          \/ Renames(t.asked) # {}

AnswersAgree == \A h \in Handler : Agrees(session[h])

(* However often a request is repeated after a lost reply, there is one    *)
(* row for its key and one decision on a candidate: recordQualityResult()  *)
(* looks for the earlier result under a lock, since no key would refuse    *)
(* the second.                                                             *)
RecordedOnce ==
    \A i, j \in DOMAIN log : i # j =>
        LET p == log[i].asked  q == log[j].asked IN
        /\ p.kind = q.kind /\ p.id = q.id => p.kind \in {"model", "graph", "rename", "decision"}
        /\ p.kind = "decision" /\ q.kind = "decision" => p.of # q.of

(* The versions of a model or pipeline are 1, 2, ... and the model graph   *)
(* never holds two rows for one version of a model, although its own API   *)
(* makes versions there too (createDataModelVersion() with its twin).      *)
WithoutGaps(kind, of) ==
    {e.number : e \in OfKind(kind, of)} = 1..Cardinality(OfKind(kind, of))

VersionsAreTwinned ==
    /\ \A e \in Stored : e.asked.kind \in {"model", "append"} => WithoutGaps(e.asked.kind, e.asked.of)
    /\ \A i, j \in DOMAIN log :
          /\ i # j
          /\ {log[i].asked.kind, log[j].asked.kind} \subseteq {"model", "graph"}
          /\ log[i].asked.of = log[j].asked.of
          => log[i].number # log[j].number

(***************************************************************************)
(* The inductive invariant.  No two handlers hold one lock, and under it   *)
(* what a handler has looked up stays so: no row of its key, no earlier    *)
(* version of its id, and the next number of its model.                    *)
(***************************************************************************)
LocksExclude ==
    \A g, h \in Handler : g # h /\ Holds(g) /\ Holds(h) =>
        LockOf(session[g].asked) # LockOf(session[h].asked)

Knows(s) ==
    /\ s.step = "sourced" => s.asked.kind = "connector"
    /\ s.step \in Open \ {"sourced"} => s.asked.kind \in Locked
    /\ s.step = "evaluated" => s.asked.kind = "run"
    /\ s.step \in {"looked", "evaluated"} /\ s.asked.kind \in {"run", "result"} => Prior(s.asked) = {}
    /\ s.step = "looked" /\ s.asked.kind = "append" =>
          \A e \in Prior(s.asked) : e.asked.of # s.asked.of
    /\ s.step = "looked" /\ s.asked.kind = "model" => s.number = NextNumber(s.asked)

NumberedWithoutGaps ==
    \A kind \in {"model", "append"}, of \in {q.of : q \in Request} :
        IsFiniteSet(OfKind(kind, of)) /\ WithoutGaps(kind, of)

CatalogInv ==
    /\ TypeOK /\ LocksExclude /\ \A h \in Handler : Knows(session[h])
    /\ AnswersAgree /\ RecordedOnce /\ VersionsAreTwinned /\ NumberedWithoutGaps
=============================================================================
