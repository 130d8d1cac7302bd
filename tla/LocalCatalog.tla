---------------------------- MODULE LocalCatalog ----------------------------
(***************************************************************************)
(* The catalog of one project on the SQLite plane: what PlatformCatalog    *)
(* and AdvancedPlatformCatalog keep, the search index with its full-text   *)
(* mirror, the runs of its pipelines and its members.  Every operation is  *)
(* one synchronous transaction of the only connection, so what interleaves *)
(* is whole operations, the indexing of ingested assets after their        *)
(* commit, failures of the mirror, and restarts of the process.            *)
(***************************************************************************)
EXTENDS Integers, FiniteSetsExt

CONSTANTS Entry,       \* ids of catalog resources
          Unsearched,  \* those of a kind that is not indexed
          Rule,        \* those that are enabled quality rules
          Proposal,    \* those that are reviewed: candidates, spatial links
          Needs,       \* what a connector or a pipeline refers to
          Versions,    \* the ids the versions of one model get, in turn
          Asset, Title,
          Bundle,      \* ingested bundles, by run id: assets and their names
          Trigger,     \* pipeline runs asked for: [pipeline, key]
          RunId,       \* the identity a run is given, a hash of a joined text
          Input, User,
          Seed,        \* roles the demonstration data gives, at every start
          Absent,
          MaxSteps     \* bound: operations and restarts

Doc == Entry \cup Asset
Role == {"owner", "editor", "reviewer", "viewer"}
Verdict == {"accepted", "rejected"}
Run == [input : Input, rules : SUBSET Rule]
Names == UNION {[S -> Title] : S \in SUBSET Asset}

LocalCatalogAssumption ==
    /\ UNION {Unsearched, Rule, Proposal, Versions} \subseteq Entry /\ Versions \subseteq Nat
    /\ Entry \cap Asset = {} /\ Proposal \cap Trigger = {}
    /\ Absent \notin Title \cup Role \cup Verdict /\ Absent \notin Run
    /\ Needs \in [Entry -> SUBSET Entry]
    /\ \A b \in DOMAIN Bundle : Bundle[b] \in Names
    /\ DOMAIN RunId = Trigger
    \* The demonstration's members have an owner, if there is a demonstration.
    /\ DOMAIN Seed \subseteq User /\ \A u \in DOMAIN Seed : Seed[u] \in Role
    /\ DOMAIN Seed # {} => \E u \in DOMAIN Seed : Seed[u] = "owner"
    /\ MaxSteps \in Nat

VARIABLES row,       \* catalog tables: the title of each resource
          asset,     \* industrial_assets: the name of each asset
          done,      \* ingestion runs that completed
          behind,    \* assets of an ingest, committed and not yet indexed
          index,     \* platform_search_index
          mirror,    \* platform_search_fts, a table without a key
          fts,       \* searchFtsAvailable
          run,       \* platform_pipeline_runs
          verdict,   \* what was decided of each proposal
          role,      \* platform_project_members
          held,      \* the same before the latest change, when a handler may
                     \* have checked it: it awaits between check and operation
          answers,   \* what runs and reviews were answered
          steps

vars == <<row, asset, done, behind, index, mirror, fts, run, verdict, role, held,
          answers, steps>>

TypeOK ==
    /\ row \in [Entry -> Title \cup {Absent}]
    /\ asset \in [Asset -> Title \cup {Absent}]
    /\ done \subseteq DOMAIN Bundle
    /\ behind \in Names
    /\ index \in [Doc -> Title \cup {Absent}]
    /\ mirror \subseteq Doc \X Title
    /\ fts \in BOOLEAN
    /\ run \in [Trigger -> Run \cup {Absent}]
    /\ verdict \in [Proposal -> Verdict \cup {Absent}]
    /\ role \in [User -> Role \cup {Absent}] /\ held \in [User -> Role \cup {Absent}]
    /\ answers \subseteq [of : Trigger \cup Proposal, input : Input \cup Verdict, rules : SUBSET Rule]
    /\ steps \in 0..MaxSteps

Seeded(roles) == [u \in User |-> IF roles[u] = Absent /\ u \in DOMAIN Seed THEN Seed[u] ELSE roles[u]]

Init ==
    /\ row = [e \in Entry |-> Absent] /\ asset = [a \in Asset |-> Absent]
    /\ done = {} /\ behind = [a \in {} |-> Absent]
    /\ index = [d \in Doc |-> Absent] /\ mirror = {} /\ fts \in BOOLEAN
    /\ run = [t \in Trigger |-> Absent] /\ verdict = [p \in Proposal |-> Absent]
    /\ \E creator \in User :
          role = IF DOMAIN Seed = {} THEN [u \in User |-> IF u = creator THEN "owner" ELSE Absent]
                                     ELSE Seeded([u \in User |-> Absent])
    /\ held = role
    /\ answers = {} /\ steps = 0

Step == steps < MaxSteps /\ steps' = steps + 1

Can(user, roles) == role[user] \in roles \/ held[user] \in roles
Writers == {"owner", "editor"}
Reviewers == {"owner", "editor", "reviewer"}

Of(d) == {d} \X Title

\* Variant: a failure of the mirror does not turn it off.
UpsertLenient(d, title) ==
    /\ index' = [index EXCEPT ![d] = title]
    /\ \/ /\ ~fts /\ UNCHANGED <<mirror, fts>>
       \/ /\ fts /\ mirror' = (mirror \ Of(d)) \cup {<<d, title>>} /\ UNCHANGED fts
       \/ /\ fts /\ mirror' \in {mirror, mirror \ Of(d)} /\ UNCHANGED fts

\* The index row, then the mirror's: the old one is deleted and the new one
\* inserted, and if either statement fails the mirror is not used any more.
Upsert(d, title) ==
    /\ index' = [index EXCEPT ![d] = title]
    /\ \/ /\ ~fts /\ UNCHANGED <<mirror, fts>>
       \/ /\ fts /\ mirror' = (mirror \ Of(d)) \cup {<<d, title>>} /\ UNCHANGED fts
       \/ /\ fts /\ mirror' \in {mirror, mirror \ Of(d)} /\ fts' = FALSE

Known(e) == \A other \in Needs[e] : row[other] # Absent

\* A resource is created once, after what it refers to; its row, its search
\* document and its audit entry commit together.
Create(user, e, title) ==
    /\ Step /\ Can(user, Writers) /\ e \notin Unsearched
    /\ row[e] = Absent /\ Known(e)
    /\ row' = [row EXCEPT ![e] = title]
    /\ Upsert(e, title)
    /\ UNCHANGED <<asset, done, behind, run, verdict, role, held, answers>>

\* Extractions, evaluations and proposed links are not searched.
CreateUnsearched(user, e, title) ==
    /\ Step /\ Can(user, Writers) /\ e \in Unsearched
    /\ row[e] = Absent
    /\ row' = [row EXCEPT ![e] = title]
    /\ UNCHANGED <<asset, done, behind, index, mirror, fts, run, verdict, role, held, answers>>

NextVersion == Min({v \in Versions : row[v] = Absent})

\* A model gets its next version, whoever asked for the one before.
CreateVersion(user, title) ==
    /\ \E v \in Versions : row[v] = Absent
    /\ Create(user, NextVersion, title)

\* The transaction rolls back; what it learnt of the mirror stays.
CreateFails ==
    /\ Step /\ fts /\ fts' = FALSE
    /\ UNCHANGED <<row, asset, done, behind, index, mirror, run, verdict, role, held, answers>>

Repeats(t, input) == run[t] # Absent /\ run[t].input = input

Answer(subject, input, rules) ==
    answers' = answers \cup {[of |-> subject, input |-> input, rules |-> rules]}

\* A key that was used answers as it did, if the input is the same.
TriggerRepeated(user, t, input) ==
    /\ Step /\ Can(user, Writers) /\ Repeats(t, input)
    /\ Answer(t, input, run[t].rules)
    /\ UNCHANGED <<row, asset, done, behind, index, mirror, fts, run, verdict, role, held>>

\* The rules a run is checked against: those that are enabled then.
Rules == {e \in Rule : row[e] # Absent}

\* A new run checks the rules of the project, within its transaction; its
\* identity must be free.
TriggerRun(user, t, input) ==
    /\ Step /\ Can(user, Writers)
    /\ row[t.pipeline] # Absent /\ run[t] = Absent
    /\ \A other \in Trigger : run[other] # Absent => RunId[other] # RunId[t]
    /\ run' = [run EXCEPT ![t] = [input |-> input, rules |-> Rules]]
    /\ Answer(t, input, Rules)
    /\ UNCHANGED <<row, asset, done, behind, index, mirror, fts, verdict, role, held>>

Open(p) == row[p] # Absent /\ verdict[p] = Absent

Review(user, p, decision) ==
    /\ Step /\ Can(user, Reviewers) /\ Open(p)
    /\ verdict' = [verdict EXCEPT ![p] = decision]
    /\ Answer(p, decision, {})
    /\ UNCHANGED <<row, asset, done, behind, index, mirror, fts, run, role, held>>

AnotherOwner(u) == \E other \in User \ {u} : role[other] = "owner"

PutMember(user, u, r) ==
    /\ Step /\ Can(user, {"owner"})
    /\ (role[u] = "owner" /\ r # "owner") => AnotherOwner(u)
    /\ role' = [role EXCEPT ![u] = r] /\ held' = role
    /\ UNCHANGED <<row, asset, done, behind, index, mirror, fts, run, verdict, answers>>

RemoveMember(user, u) ==
    /\ Step /\ Can(user, {"owner"}) /\ role[u] # Absent
    /\ role[u] = "owner" => AnotherOwner(u)
    /\ role' = [role EXCEPT ![u] = Absent] /\ held' = role
    /\ UNCHANGED <<row, asset, done, behind, index, mirror, fts, run, verdict, answers>>

\* A bundle is committed, or found to have been; its assets are indexed
\* after that, one by one, each in a transaction of its own.
Ingest(user, b) ==
    /\ Step /\ Can(user, Writers) /\ DOMAIN behind = {}
    /\ done' = done \cup {b}
    /\ asset' = [a \in Asset |-> IF b \notin done /\ a \in DOMAIN Bundle[b]
                                 THEN Bundle[b][a] ELSE asset[a]]
    /\ behind' = Bundle[b]
    /\ UNCHANGED <<row, index, mirror, fts, run, verdict, role, held, answers>>

IndexAsset(a) ==
    /\ a \in DOMAIN behind
    /\ Upsert(a, behind[a])
    /\ behind' = [other \in DOMAIN behind \ {a} |-> behind[other]]
    /\ UNCHANGED <<row, asset, done, run, verdict, role, held, answers, steps>>

Copy(ix) == {<<d, ix[d]>> : d \in {d \in Doc : ix[d] # Absent}}

\* The mirror is emptied and filled, and used if that worked.
Load(ix) == \/ fts' = TRUE /\ mirror' = Copy(ix)
            \/ fts' = FALSE /\ mirror' \in {mirror, {}}

\* The process starts again: the mirror is filled, the demonstration's
\* members are put back, and the assets are indexed as they are.
Restart ==
    /\ Step
    /\ behind' = [a \in {} |-> Absent]
    /\ index' = [d \in Doc |-> IF d \in Asset THEN asset[d] ELSE index[d]]
    /\ Load(index')
    /\ role' = Seeded(role) /\ held' = role'
    /\ UNCHANGED <<row, asset, done, run, verdict, answers>>

Next ==
    \/ \E user \in User :
          \/ \E title \in Title : \/ \E e \in Entry \ Versions : \/ Create(user, e, title)
                                                               \/ CreateUnsearched(user, e, title)
                                  \/ CreateVersion(user, title)
          \/ \E t \in Trigger, input \in Input : \/ TriggerRepeated(user, t, input)
                                                 \/ TriggerRun(user, t, input)
          \/ \E p \in Proposal, decision \in Verdict : Review(user, p, decision)
          \/ \E u \in User : \/ RemoveMember(user, u)
                             \/ \E r \in Role : PutMember(user, u, r)
          \/ \E b \in DOMAIN Bundle : Ingest(user, b)
    \/ \E a \in Asset : IndexAsset(a)
    \/ CreateFails \/ Restart

Spec == Init /\ [][Next]_vars

\* The mirror's matches that are in the index; if there are none, the index's.
Found(title) ==
    LET matches == {d \in Doc : <<d, title>> \in mirror /\ index[d] # Absent}
    IN IF fts /\ matches # {} THEN matches ELSE {d \in Doc : index[d] = title}

(***************************************************************************)
(* A search finds the documents of the index that have what it looks for   *)
(* and no other, and among them every resource of the catalog, whichever   *)
(* statement of the full-text mirror failed and wherever a restart fell.   *)
(***************************************************************************)
SearchIsExact ==
    /\ \A title \in Title : Found(title) = {d \in Doc : index[d] = title}
    /\ \A e \in Entry \ Unsearched : row[e] # Absent => e \in Found(row[e])

(***************************************************************************)
(* A run's key and a proposal have one answer: whoever asks again is told  *)
(* the outcome of the first time, with the quality it had then, or is      *)
(* refused.                                                                *)
(***************************************************************************)
OneAnswer == \A x, y \in answers : x.of = y.of => x = y

(***************************************************************************)
(* The project keeps an owner, whatever owners do to each other: not even  *)
(* two that remove one another at once, each checked while it still was    *)
(* one, leave it without.                                                  *)
(***************************************************************************)
OwnerRemains == \E u \in User : role[u] = "owner"

(***************************************************************************)
(* The inductive invariant: what is indexed is what the catalog has of a   *)
(* resource, a mirror in use is a copy of the index, and what was answered *)
(* is what the tables have of the run or the proposal.                     *)
(***************************************************************************)
IndexFollows == \A e \in Entry \ Unsearched : row[e] # Absent => index[e] = row[e]

MirrorFollows == fts => mirror = Copy(index)

AnswersFollow ==
    \A x \in answers :
        \/ /\ x.of \in Trigger /\ run[x.of] # Absent
           /\ run[x.of] = [input |-> x.input, rules |-> x.rules]
        \/ /\ x.of \in Proposal /\ verdict[x.of] # Absent
           /\ verdict[x.of] = x.input /\ x.rules = {}

RegistryInv == TypeOK /\ IndexFollows /\ MirrorFollows /\ AnswersFollow /\ OwnerRemains
=============================================================================
