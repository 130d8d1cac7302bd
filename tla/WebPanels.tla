------------------------------ MODULE WebPanels ------------------------------
(***************************************************************************)
(* The lists of the web application.  A workspace loads the first page of  *)
(* its lists in an effect that runs again when the project changes and     *)
(* aborts what the run before it asked for; "load more", forms and row     *)
(* buttons ask without an abort signal, so that their answers arrive       *)
(* whenever they do, in any order, also after the project has changed.     *)
(* Some workspaces compare the project with the one a request was made     *)
(* for, others take whatever arrives.  A panel is one list with the form   *)
(* and the buttons that touch it.  Leaving a view unmounts its panels:     *)
(* what arrives then changes nothing, and coming back is a fresh start.    *)
(***************************************************************************)
EXTENDS Integers, SequencesExt, FiniteSetsExt

CONSTANTS Project,      \* the projects a user can choose
          NoProject,    \* while none is chosen
          Rows,         \* the rows each project has to begin with
          Id,           \* row ids, from 1; two projects may use the same
          NoCursor,     \* after the last page
          MaxActs,      \* bound: what the user does
          MaxFailures   \* bound: requests that fail

WebPanelsAssumption ==
    /\ Id \subseteq Nat \ {0} /\ Rows \in [Project -> SUBSET Id]
    /\ \A p \in Project : IsFiniteSet(Rows[p])
    /\ NoProject \notin Project /\ NoCursor \notin Nat
    /\ {MaxActs, MaxFailures} \subseteq Nat

-----------------------------------------------------------------------------
(* What the code of each workspace says of its lists.                      *)
Load(guarded, resets, empties) ==
    [guarded |-> guarded, resets |-> resets, empties |-> empties]
Handler(does, guarded) == [does |-> does, guarded |-> guarded]
Panel(load, handlers, form, paging) ==
    [load |-> load, handlers |-> handlers, form |-> form, paging |-> paging]

\* Workspaces that compare the project when an answer arrives.
SourcesEffect == Load(TRUE, TRUE, TRUE)
loadMoreSources == Handler("more", TRUE)
loadMoreConnectors == Handler("more", TRUE)
loadMoreDatasets == Handler("more", TRUE)
loadMoreRawEvidence == Handler("more", TRUE)
createDataset == Handler("create", TRUE)
createSource == Handler("create", TRUE)
createConnector == Handler("create", TRUE)
replayRawEvidence == Handler("change", TRUE)
replayBeside == Handler("beside", TRUE)
PipelinesEffect == Load(TRUE, TRUE, TRUE)
loadMorePipelines == Handler("more", TRUE)
loadMoreRuns == Handler("more", TRUE)
loadMoreQuality == Handler("more", TRUE)
loadMoreQualityRules == Handler("more", TRUE)
createPipeline == Handler("create", TRUE)
createQualityRule == Handler("create", TRUE)
runPipeline == Handler("run", TRUE)
ModelsEffect == Load(TRUE, TRUE, TRUE)
createModelVersion == Handler("create", TRUE)
loadMoreModels == Handler("more", TRUE)

\* Workspaces that do not.
ContextEffect == Load(FALSE, FALSE, TRUE)
reviewCandidate == Handler("change", FALSE)
loadMoreCandidates == Handler("more", FALSE)
DiagramsEffect == Load(FALSE, FALSE, TRUE)
submitExtraction == Handler("create", FALSE)
loadMoreExtractions == Handler("more", FALSE)
MatchingEffect == Load(FALSE, FALSE, TRUE)
submitEvaluation == Handler("create", FALSE)
loadMoreEvaluations == Handler("more", FALSE)
SpatialEffect == Load(FALSE, FALSE, TRUE)
propose == Handler("create", FALSE)
reviewLink == Handler("change", FALSE)
loadMoreLinks == Handler("more", FALSE)
WritebackEffect == Load(FALSE, FALSE, TRUE)
createRequest == Handler("create", FALSE)
reviewRequest == Handler("change", FALSE)
execute == Handler("execute", FALSE)
loadMoreRequests == Handler("more", FALSE)
AuditEffect == Load(FALSE, FALSE, FALSE)
loadMoreEvents == Handler("more", FALSE)
ExplorerEffect == Load(FALSE, FALSE, TRUE)
reloadAssets == Handler("reload", FALSE)
loadMoreAssets == Handler("more", FALSE)

\* Lists that are loaded whole, by the effect only.
OverviewEffect == Load(FALSE, FALSE, TRUE)
SearchEffect == Load(FALSE, FALSE, TRUE)
ResultsEffect == Load(FALSE, FALSE, TRUE)

\* A keyed form is a new one in another project, is disabled while a request
\* of its workspace is in flight, and is cleared when it is told of success.
\* A shared form can be filled in meanwhile and is cleared by any success; the
\* others are never cleared.
DatasetForm == "keyed"
SourceForm == "keyed"
ConnectorForm == "keyed"
ModelVersionForm == "keyed"
PipelineForm == "keyed"
QualityRuleForm == "keyed"
ExtractionForm == "shared"

Guarded ==
    {Panel(SourcesEffect, {loadMoreSources, createSource, replayBeside}, SourceForm, "cursor"),
     Panel(SourcesEffect, {loadMoreConnectors, createConnector, replayBeside}, ConnectorForm, "cursor"),
     Panel(SourcesEffect, {loadMoreDatasets, createDataset, replayBeside}, DatasetForm, "cursor"),
     Panel(SourcesEffect, {loadMoreRawEvidence, replayRawEvidence}, "none", "cursor"),
     Panel(PipelinesEffect, {loadMorePipelines, createPipeline}, PipelineForm, "cursor"),
     Panel(PipelinesEffect, {loadMoreQualityRules, createQualityRule}, QualityRuleForm, "cursor"),
     Panel(PipelinesEffect, {loadMoreRuns, runPipeline}, "none", "cursor"),
     Panel(PipelinesEffect, {loadMoreQuality, runPipeline}, "none", "cursor"),
     Panel(ModelsEffect, {loadMoreModels, createModelVersion}, ModelVersionForm, "cursor")}

Unguarded ==
    {Panel(ContextEffect, {loadMoreCandidates, reviewCandidate}, "none", "cursor"),
     Panel(DiagramsEffect, {loadMoreExtractions, submitExtraction}, ExtractionForm, "cursor"),
     Panel(MatchingEffect, {loadMoreEvaluations, submitEvaluation}, "kept", "cursor"),
     Panel(SpatialEffect, {loadMoreLinks, propose, reviewLink}, "kept", "cursor"),
     Panel(WritebackEffect, {loadMoreRequests, createRequest, reviewRequest, execute}, "kept", "cursor"),
     Panel(AuditEffect, {loadMoreEvents}, "none", "offset"),
     Panel(ExplorerEffect, {loadMoreAssets, reloadAssets}, "none", "offset"),
     Panel(OverviewEffect, {}, "none", "whole"),
     Panel(SearchEffect, {}, "none", "whole"),
     Panel(ResultsEffect, {}, "none", "whole")}

Panels == Guarded \cup Unguarded

-----------------------------------------------------------------------------
VARIABLES panel,        \* the list this behaviour is about
          table,        \* the rows of each project, on the server
          scope,        \* the project chosen
          shown,        \* the rows of the list, each with its project
          next,         \* nextCursor, or the total of a list by offset
          flags,        \* which of loading and loadingMore are set
          busy,         \* the row that waits for an answer, or 0 for the form
          issue,        \* the notice shown: of the load, of more, or none
          form,         \* which mount of the form it is, and what is typed
          inflight,     \* requests that were sent and not answered
          tale,         \* for the properties: see Told
          count         \* of what the bounds limit

vars == <<panel, table, scope, shown, next, flags, busy, issue, form, inflight,
          tale, count>>

NoReply == [ok |-> FALSE, rows |-> <<>>, next |-> NoCursor]

\* How the list came to be: which copy of it this is, whether that is a first
\* page, and whether it took an answer that was asked for another copy (mixed)
\* or another project (late); whether what was typed was ever lost, and before
\* which request the form was last freed by something else than its answer.
Told == [copy : Nat, based : BOOLEAN, mixed : BOOLEAN, late : BOOLEAN,
         lost : BOOLEAN, freed : Nat]

Request == [op : {"first", "more", "create", "change", "beside", "run", "execute", "again"},
            scope : Project, copy : Nat, at : Nat, id : Nat, form : [mount : Nat, draft : Nat],
            guarded : BOOLEAN, n : Nat, served : BOOLEAN,
            reply : [ok : BOOLEAN, rows : Seq(Project \X Id), next : Nat \cup {NoCursor}]]

\* A row is in a list once.
HasEachOnce(rows) == \A i, j \in DOMAIN rows : rows[i][2] = rows[j][2] => i = j

TypeOK ==
    /\ panel \in Panels /\ scope \in Project \cup {NoProject}
    /\ table \in [Project -> SUBSET Id]
    /\ shown \in Seq(Project \X Id) /\ HasEachOnce(shown)
    /\ next \in Nat \cup {NoCursor}
    /\ flags \subseteq {"loading", "loadingMore"}
    /\ busy \in {NoCursor, 0} \cup Id
    /\ issue \in {"none", "load", "more"}
    /\ form \in [mount : Nat, draft : 0..MaxActs]
    /\ inflight \subseteq Request
    /\ tale \in Told
    /\ count \in [acts : 0..MaxActs, failures : 0..MaxFailures]

Does(op) == \E h \in panel.handlers : h.does = op
GuardOf(op) == \E h \in panel.handlers : h.does = op /\ h.guarded
NotBusy == NoCursor
ByOffset == panel.paging = "offset"
Has(id) == \E i \in DOMAIN shown : shown[i][2] = id

Ask(op, guarded, p, copy, at, id) ==
    [op |-> op, scope |-> p, copy |-> copy, at |-> at, id |-> id, form |-> form,
     guarded |-> guarded, n |-> count.acts, served |-> FALSE, reply |-> NoReply]

\* A workspace is opened for the project chosen.
Init ==
    /\ panel \in Panels /\ table = Rows /\ scope \in Project
    /\ shown = <<>> /\ next = NoCursor /\ busy = NotBusy /\ flags = {"loading"}
    /\ issue = "none" /\ form = [mount |-> 0, draft |-> 0]
    /\ tale = [copy |-> 0, based |-> FALSE, mixed |-> FALSE, late |-> FALSE,
                 lost |-> FALSE, freed |-> 0]
    /\ count = [acts |-> 0, failures |-> 0]
    /\ inflight = {Ask("first", panel.load.guarded, scope, 0, 0, 0)}

\* The effect: what its last run asked for is aborted, so that nothing of it
\* is answered; a guarded workspace forgets what it waits for.
Fresh(p) ==
    LET empty == panel.load.empties \/ p = NoProject
        began == [tale EXCEPT !.copy = @ + 1, !.based = FALSE, !.freed = count.acts + 1]
    IN /\ scope' = p
       /\ shown' = (IF empty THEN <<>> ELSE shown)
       /\ next' = (IF empty THEN NoCursor ELSE next)
       /\ flags' = (IF panel.load.empties THEN {} ELSE flags \ {"loading"})
                      \cup (IF p = NoProject THEN {} ELSE {"loading"})
       /\ busy' = (IF panel.load.resets THEN NotBusy ELSE busy)
       /\ issue' = "none"
       /\ tale' = (IF empty THEN [began EXCEPT !.mixed = FALSE, !.late = FALSE] ELSE began)
       /\ inflight' = {r \in inflight : r.op # "first"} \cup
              (IF p = NoProject THEN {}
               ELSE {Ask("first", panel.load.guarded, p, tale.copy + 1, 0, 0)})

Acts == count.acts < MaxActs /\ count' = [count EXCEPT !.acts = @ + 1]
InProject == Acts /\ scope # NoProject

\* The project changes (to none, while the projects of a tenant are asked for).
Switch(p) ==
    /\ p # scope /\ Acts
    /\ Fresh(p)
    /\ form' = (IF panel.form = "keyed" THEN [mount |-> form.mount + 1, draft |-> 0] ELSE form)
    /\ UNCHANGED <<panel, table>>

\* The retry button of a notice runs the effect again; that of a guarded
\* list's "load more" asks for that page again instead.
Reload ==
    /\ InProject /\ ~Does("reload")
    /\ issue = "load" \/ (issue = "more" /\ ~panel.load.guarded)
    /\ Fresh(scope)
    /\ UNCHANGED <<panel, table, form>>

HasNext == next # NoCursor /\ (ByOffset => Len(shown) < next)

LoadMore ==
    /\ InProject /\ Does("more") /\ HasNext /\ "loadingMore" \notin flags
    /\ flags' = flags \cup {"loadingMore"} /\ issue' = "none"
    /\ inflight' = inflight \cup
           {Ask("more", GuardOf("more"), scope, tale.copy,
                IF ByOffset THEN Len(shown) ELSE next, 0)}
    /\ UNCHANGED <<panel, table, scope, shown, next, busy, form, tale>>

Type ==
    /\ InProject /\ Does("create")
    /\ panel.form = "keyed" => busy = NotBusy
    /\ form' = [form EXCEPT !.draft = count.acts + 1]
    /\ UNCHANGED <<panel, table, scope, shown, next, flags, busy, issue, inflight, tale>>

\* What is typed is created, a pipeline is run, a row shown is replayed,
\* reviewed or executed, or evidence of another list beside this is replayed.
Act(op, id) ==
    /\ InProject /\ Does(op)
    /\ panel.load.guarded /\ op \in {"create", "change"} => busy = NotBusy
    /\ CASE op = "create" -> form.draft # 0 /\ busy # 0
         [] op = "run" -> busy # id
         [] op = "beside" -> busy \in {NotBusy, 0}
         [] OTHER -> busy # id /\ Has(id)
    /\ op \in {"create", "run"} =>
           /\ id \notin table[scope]
           /\ \A r \in inflight : r.op = op /\ r.scope = scope => r.id # id
    /\ busy' = (IF op = "create" THEN 0 ELSE id)
    /\ inflight' = inflight \cup {Ask(op, GuardOf(op), scope, tale.copy, 0, id)}
    /\ UNCHANGED <<panel, table, scope, shown, next, flags, issue, form, tale>>

\* Something was ingested: the explorer lists its assets again.
ReloadAssets ==
    /\ InProject /\ Does("reload")
    /\ flags' = flags \cup {"loading"} /\ issue' = "none"
    /\ inflight' = inflight \cup {Ask("again", FALSE, scope, tale.copy, 0, 0)}
    /\ UNCHANGED <<panel, table, scope, shown, next, busy, form, tale>>

-----------------------------------------------------------------------------
(* The server answers with what it has by then, pages of one row.          *)
Listed(r) ==
    LET all == table[r.scope]
        rest == {id \in all : id > r.at}
        page == IF ByOffset THEN {id \in all : Cardinality({j \in all : j < id}) = r.at}
                ELSE rest
        rows == IF panel.paging = "whole" THEN SetToSeq(rest)
                ELSE IF page = {} THEN <<>> ELSE <<Min(page)>>
    IN [ok |-> TRUE,
        rows |-> [i \in DOMAIN rows |-> <<r.scope, rows[i]>>],
        next |-> IF ByOffset THEN Cardinality(all)
                 ELSE IF panel.paging = "cursor" /\ \E id \in rest : rest # {id} THEN Min(rest)
                 ELSE NoCursor]

Answered(r, reply) ==
    inflight' = (inflight \ {r}) \cup {[r EXCEPT !.served = TRUE, !.reply = reply]}

Serve(r) ==
    /\ ~r.served
    /\ Answered(r, IF r.op \in {"first", "more", "again"} THEN Listed(r)
                   ELSE [NoReply EXCEPT !.ok = TRUE, !.rows = <<<<r.scope, r.id>>>>])
    /\ table' = (IF r.op \in {"create", "run"} THEN [table EXCEPT ![r.scope] = @ \cup {r.id}]
                 ELSE table)
    /\ UNCHANGED <<panel, scope, shown, next, flags, busy, issue, form, tale, count>>

Refuse(r) ==
    /\ ~r.served /\ count.failures < MaxFailures
    /\ Answered(r, NoReply)
    /\ count' = [count EXCEPT !.failures = @ + 1]
    /\ UNCHANGED <<panel, table, scope, shown, next, flags, busy, issue, form, tale>>

-----------------------------------------------------------------------------
(* An answer arrives.                                                      *)
Without(id) ==
    IF Has(id) THEN RemoveAt(shown, CHOOSE i \in DOMAIN shown : shown[i][2] = id) ELSE shown

Merge(rows) == IF rows = <<>> \/ Has(rows[1][2]) THEN shown ELSE Append(shown, rows[1])
Upsert(row) == <<row>> \o Without(row[2])
Replace(row) == [i \in DOMAIN shown |-> IF shown[i][2] = row[2] THEN row ELSE shown[i]]

\* Variant: a workspace forgets to compare.
IgnoredNever(r) == FALSE

\* A guarded workspace takes no notice of what another project asked for.
Ignored(r) == r.guarded /\ r.scope # scope

Late(r) == [tale EXCEPT !.late = @ \/ r.scope # scope]

\* A first page takes the place of what was shown.
Replaced(r) ==
    /\ shown' = r.reply.rows /\ next' = r.reply.next
    /\ flags' = (IF ByOffset THEN flags \ {"loading"} ELSE {})
    /\ issue' = "none"
    /\ tale' = [tale EXCEPT !.copy = @ + 1, !.based = TRUE, !.mixed = FALSE,
                           !.late = r.scope # scope]

TakeFirst(r) ==
    /\ IF r.reply.ok THEN Replaced(r)
       ELSE /\ shown' = <<>> /\ next' = NoCursor /\ issue' = "load"
            /\ flags' = (IF ByOffset THEN flags \ {"loading"} ELSE {})
            /\ tale' = [tale EXCEPT !.based = FALSE, !.mixed = FALSE, !.late = FALSE]
    /\ inflight' = inflight \ {r} /\ UNCHANGED <<busy, form>>

TakeMore(r) ==
    /\ flags' = flags \ {"loadingMore"}
    /\ IF r.reply.ok
       THEN /\ shown' = Merge(r.reply.rows) /\ next' = r.reply.next
            /\ tale' = [Late(r) EXCEPT !.mixed = @ \/ r.copy # tale.copy]
            /\ UNCHANGED issue
       ELSE issue' = "more" /\ UNCHANGED <<shown, next, tale>>
    /\ inflight' = inflight \ {r} /\ UNCHANGED <<busy, form>>

\* The form that asked is cleared, if it is still there or shared.
Clears(r) == \/ panel.form = "keyed" /\ r.form.mount = form.mount
             \/ panel.form = "shared"

Loses(r) == Clears(r) /\ form.draft \notin {0, r.form.draft} /\ tale.freed <= r.n

TakeCreated(r) ==
    /\ IF r.reply.ok
       THEN /\ shown' = Upsert(r.reply.rows[1])
            /\ IF r.guarded THEN flags' = flags \ {"loading"} /\ issue' = "none"
               ELSE UNCHANGED <<flags, issue>>
            /\ form' = (IF Clears(r) THEN [form EXCEPT !.draft = 0] ELSE form)
            /\ tale' = [Late(r) EXCEPT !.lost = @ \/ Loses(r), !.freed = count.acts]
       ELSE /\ tale' = [tale EXCEPT !.freed = count.acts]
            /\ UNCHANGED <<shown, flags, issue, form>>
    /\ busy' = NotBusy /\ inflight' = inflight \ {r} /\ UNCHANGED next

TakeChanged(r) ==
    /\ IF r.reply.ok
       THEN shown' = Replace(r.reply.rows[1]) /\ tale' = Late(r)
       ELSE UNCHANGED <<shown, tale>>
    /\ issue' = (IF r.reply.ok /\ r.guarded THEN "none" ELSE issue)
    /\ busy' = NotBusy /\ inflight' = inflight \ {r} /\ UNCHANGED <<next, flags, form>>

TakeBeside(r) ==
    /\ busy' = NotBusy /\ inflight' = inflight \ {r}
    /\ tale' = [tale EXCEPT !.freed = count.acts]
    /\ UNCHANGED <<shown, next, flags, issue, form>>

\* A run that started, or an execution that failed: the list is asked for
\* again, without an abort signal, before the button is released.
AskAgain(r) ==
    /\ inflight' = (inflight \ {r}) \cup
           {[Ask("again", r.guarded, r.scope, tale.copy, 0, 0) EXCEPT !.n = r.n]}
    /\ UNCHANGED <<shown, next, flags, issue, busy, form, tale>>

TakeRun(r) ==
    IF r.reply.ok THEN AskAgain(r)
    ELSE /\ busy' = NotBusy /\ inflight' = inflight \ {r}
         /\ UNCHANGED <<shown, next, flags, issue, form, tale>>

TakeExecuted(r) == IF r.reply.ok THEN TakeChanged(r) ELSE AskAgain(r)

TakeAgain(r) ==
    /\ IF r.reply.ok THEN Replaced(r)
       ELSE /\ flags' = (IF ByOffset THEN flags \ {"loading"} ELSE flags)
            /\ issue' = (IF Does("execute") THEN issue ELSE "load")
            /\ UNCHANGED <<shown, next, tale>>
    /\ busy' = NotBusy /\ inflight' = inflight \ {r} /\ UNCHANGED form

Ignore(r) ==
    /\ inflight' = inflight \ {r}
    /\ UNCHANGED <<shown, next, flags, busy, issue, form, tale>>

Deliver(r) ==
    /\ r.served
    /\ IF Ignored(r) THEN Ignore(r)
       ELSE \/ r.op = "first" /\ TakeFirst(r)
            \/ r.op = "more" /\ TakeMore(r)
            \/ r.op = "create" /\ TakeCreated(r)
            \/ r.op = "change" /\ TakeChanged(r)
            \/ r.op = "beside" /\ TakeBeside(r)
            \/ r.op = "run" /\ TakeRun(r)
            \/ r.op = "execute" /\ TakeExecuted(r)
            \/ r.op = "again" /\ TakeAgain(r)
    /\ UNCHANGED <<panel, table, scope, count>>

Next ==
    \/ \E p \in Project \cup {NoProject} : Switch(p)
    \/ Reload \/ LoadMore \/ Type \/ ReloadAssets
    \/ \E op \in {"create", "change", "beside", "run", "execute"}, id \in Id : Act(op, id)
    \/ \E r \in inflight : Serve(r) \/ Refuse(r) \/ Deliver(r)

Spec == Init /\ [][Next]_vars

-----------------------------------------------------------------------------
(* Rows of another project are shown only by the audit list while its own  *)
(* are asked for, or by a workspace that does not compare, after an answer *)
(* that came late.                                                         *)
ShowsItsProject ==
    /\ (\E i \in DOMAIN shown : shown[i][1] # scope) =>
           tale.late \/ (~panel.load.empties /\ "loading" \in flags)
    /\ tale.late => ~panel.load.guarded

(* What was there from the beginning is shown up to where the list goes on, *)
(* unless an answer that was asked for another copy of it was taken.        *)
Steady == Rows[scope]

ShowsAllItPassed ==
    scope # NoProject /\ tale.based /\ ~tale.mixed /\ ~tale.late =>
        \A id \in Steady :
            (IF ByOffset THEN Cardinality({j \in Steady : j < id}) < Len(shown)
             ELSE next = NoCursor \/ id <= next) =>
                \E i \in DOMAIN shown : shown[i] = <<scope, id>>

(* Nothing waits for an answer that nobody asked for: a list that says it   *)
(* loads, and a button that says it works, are told when that is over.      *)
Asked(ops) == \E r \in inflight : r.op \in ops /\ (r.guarded => r.scope = scope)

WaitsForSomething ==
    /\ "loading" \in flags => Asked({"first", "again"})
    /\ "loadingMore" \in flags => Asked({"more"})
    /\ busy # NotBusy => Asked({"create", "change", "beside", "run", "execute", "again"})

(* A form that belongs to one project never loses what was typed in it      *)
(* since it was sent, unless a retry of the lists or the answer to another  *)
(* request of the workspace enabled it while its own was still awaited.     *)
KeyedFormsKeepText == panel.form = "keyed" => ~tale.lost

(* The inductive invariant behind them.  What is known of a request: it is *)
(* one the panel makes; its answer has rows of its own project, among them *)
(* each that was there from the beginning and comes next.                  *)
Offers(op) ==
    CASE op = "first" -> TRUE
      [] op = "again" -> Does("reload") \/ Does("run") \/ Does("execute")
      [] OTHER -> Does(op)

Rank(p, id) == Cardinality({j \in Rows[p] : j < id})

PageIsWhole(r) ==
    LET rows == r.reply.rows
    IN /\ HasEachOnce(rows) /\ (panel.paging # "whole" => Len(rows) <= 1)
       /\ \A i \in DOMAIN rows :
             /\ rows[i][1] = r.scope
             /\ ByOffset => rows[i][2] \in Rows[r.scope] /\ Rank(r.scope, rows[i][2]) = r.at
       /\ \A id \in Rows[r.scope] :
             (IF ByOffset THEN Rank(r.scope, id) = r.at
              ELSE id > r.at /\ (r.reply.next = NoCursor \/ id <= r.reply.next)) =>
                 \E i \in DOMAIN rows : rows[i] = <<r.scope, id>>

RequestIsSound(r) ==
    /\ Offers(r.op) /\ r.copy <= tale.copy /\ r.guarded = panel.load.guarded
    /\ r.op = "first" => r.scope = scope
    /\ r.op \in {"first", "again"} => r.at = 0
    /\ r.op \notin {"first", "more", "again"} => r.id \in Id
    /\ r.served /\ r.reply.ok =>
          IF r.op \in {"first", "more", "again"} THEN PageIsWhole(r)
          ELSE r.reply.rows = <<<<r.scope, r.id>>>>

\* A page that was asked for of this copy goes on from what is shown.
Goes(r) == r.op = "more" /\ r.copy = tale.copy /\ tale.based /\ ~tale.mixed /\ ~tale.late

Passed(id) == \E i \in DOMAIN shown : shown[i] = <<scope, id>>

PagesFollow ==
    scope # NoProject => \A r \in inflight : Goes(r) =>
        IF ByOffset THEN r.at <= Len(shown) ELSE \A id \in Steady : id <= r.at => Passed(id)

TablesGrow ==
    \A p \in Project :
        /\ Rows[p] \subseteq table[p] /\ IsFiniteSet(table[p])
        /\ ByOffset => table[p] = Rows[p]

ListsAreOwn ==
    ~tale.late /\ (panel.load.empties \/ tale.based) =>
        \A i \in DOMAIN shown : shown[i][1] = scope

\* The first page is for the project chosen; a list by offset may instead be
\* listed again.
LoadingIsAsked ==
    "loading" \in flags =>
        \E r \in inflight : r.op = "first" \/ (ByOffset /\ r.op = "again")

\* A form is disabled while what was sent from it is not answered.
FormsWait ==
    panel.form = "keyed" =>
        \A r \in inflight : r.op = "create" =>
            /\ r.n < count.acts
            /\ r.form.mount = form.mount /\ tale.freed <= r.n =>
                  busy # NotBusy /\ form.draft = r.form.draft

WebPanelsInv ==
    /\ TypeOK /\ ShowsItsProject /\ ShowsAllItPassed /\ WaitsForSomething /\ KeyedFormsKeepText
    /\ \A r \in inflight : RequestIsSound(r)
    /\ PagesFollow /\ TablesGrow /\ ListsAreOwn /\ LoadingIsAsked /\ FormsWait
=============================================================================
