---------------------------- MODULE RailsExtract ----------------------------
(***************************************************************************)
(* How the SQL of a pull request's Rails migrations is obtained            *)
(* (rails/extract.py, rails/harness.rb): each is run, by a harness of its  *)
(* own, in a scratch database brought to the state the migration will      *)
(* find, and the statements it issues are recorded.                        *)
(*                                                                         *)
(* The state is built from a committed schema file, or by replaying the    *)
(* earlier migrations, and the branch's own earlier migrations on top.  A  *)
(* schema file that does not load is tried again as a replay.  A harness   *)
(* can fail in every stage, and be killed in every stage.                  *)
(*                                                                         *)
(* A migration is its version.  What a migration issues depends on the     *)
(* state it runs in only through the migrations it looks at (an            *)
(* if_not_exists, a column_exists?), so the SQL recorded is told by which  *)
(* of those were applied.                                                  *)
(***************************************************************************)
EXTENDS Naturals, FiniteSets

CONSTANTS
    Merged,        \* migrations of the base commit
    Change,        \* migrations the pull request adds
    Needs,         \* what has to be applied for a migration to run
    LooksAt,       \* what a migration asks about before it decides what to do
    Tolerant,      \* migrations that also run where they are already applied
    Repositories,  \* schema files at the base commit and in the working tree
    ReplayLimit    \* replays longer than this are refused (200)

Migrations == Merged \cup Change
SchemaFiles == [is : {"absent", "blank", "full"}, state : SUBSET Migrations, loads : BOOLEAN]
Repository == [fetched : BOOLEAN,
               base : [structure : SchemaFiles, schema : SchemaFiles],
               tree : [structure : SchemaFiles, schema : SchemaFiles]]

ASSUME MigrationsAssumption == Migrations \subseteq Nat \ {0} /\ Merged \cap Change = {}
ASSUME FiniteAssumption == IsFiniteSet(Migrations)
ASSUME NeedsAssumption == Needs \in [Migrations -> SUBSET Migrations]
ASSUME LooksAtAssumption == LooksAt \in [Migrations -> SUBSET Migrations]
ASSUME TolerantAssumption == Tolerant \subseteq Migrations
ASSUME RepositoriesAssumption == Repositories \subseteq Repository
ASSUME ReplayLimitAssumption == ReplayLimit \in Nat

VARIABLES
    repo,      \* the repository, one of Repositories
    outcome,   \* per migration of the change: pending, unsupported or its SQL
    file,      \* the migration being rendered, or None
    at,        \* the stage the harness is in
    schema,    \* the schema file it was given, or NoFile
    history,   \* earlier migrations it still has to replay
    branch,    \* the branch's earlier migrations it still has to apply
    loaded,    \* migration classes its Ruby process has loaded
    applied,   \* what is applied in its scratch database
    response   \* what it answers

vars == <<repo, outcome, file, at, schema, history, branch, loaded, applied, response>>

None == 0
NoFile == [is |-> "absent", state |-> {}, loads |-> FALSE]
Stages == {"connect", "schema", "replay", "migration"}
NoResponse == [ok |-> FALSE, stage |-> "connect", issued |-> FALSE, saw |-> {}]
Responses == [ok : BOOLEAN, stage : Stages, issued : BOOLEAN, saw : SUBSET Migrations]

Pending == [status |-> "pending", saw |-> {}]
Unsupported == [status |-> "unsupported", saw |-> {}]
Sql(saw) == [status |-> "sql", saw |-> saw]

-----------------------------------------------------------------------------
(* What a migration finds.                                                 *)

\* The state a migration will find where it is deployed: Rails runs what is
\* pending in version order.
PreState(m) == Merged \cup {c \in Change : c < m}

Seen(m, state) == state \cap (LooksAt[m] \cup {m})

Runs(m, state) == Needs[m] \subseteq state /\ (m \notin state \/ m \in Tolerant)

-----------------------------------------------------------------------------
(* What the harness is given.                                              *)

\* Slip: the branch's own schema file first.
SchemaFileTreeFirst(name) ==
    IF repo.tree[name].is # "absent" THEN repo.tree[name] ELSE repo.base[name]

\* A schema file: at the base commit when git can show it, else in the
\* working tree.
SchemaFile(name) ==
    IF repo.fetched /\ repo.base[name].is # "absent" THEN repo.base[name] ELSE repo.tree[name]

\* _resolve_schema: structure.sql before schema.rb, blank ones passed over.
ResolvedSchema ==
    IF SchemaFile("structure").is = "full" THEN SchemaFile("structure")
    ELSE IF SchemaFile("schema").is = "full" THEN SchemaFile("schema")
    ELSE NoFile

\* Slip: the bound itself taken for an earlier version.
ReplaySetInclusive(m) == {h \in Migrations : h <= m}

\* _replay_set: the directory's earlier migrations, the branch's included.
ReplaySet(m) == {h \in Migrations : h < m}

\* Slip: every other migration of the change.
PrecedingUnordered(m) == Change \ {m}

\* _rails_order: the migrations of the change before this one.
Preceding(m) == {c \in Change : c < m}

Attempt(m, schemaFile, earlier) ==
    /\ at' = "connect"
    /\ schema' = schemaFile
    /\ history' = earlier
    /\ branch' = Preceding(m)
    /\ loaded' = {}
    /\ applied' = {}
    /\ response' = NoResponse

Decide(m, result) ==
    /\ outcome' = [outcome EXCEPT ![m] = result]
    /\ file' = None
    /\ at' = "idle"
    /\ schema' = NoFile
    /\ history' = {}
    /\ branch' = {}
    /\ loaded' = {}
    /\ applied' = {}
    /\ response' = NoResponse
    /\ UNCHANGED repo

-----------------------------------------------------------------------------
(* extract_rails_sql.                                                      *)

\* The change's files are rendered one at a time, in path order.
Extract(m) ==
    /\ at = "idle"
    /\ outcome[m] = Pending
    /\ \A c \in Change : c < m => outcome[c] # Pending
    /\ \/ /\ ResolvedSchema # NoFile
          /\ Attempt(m, ResolvedSchema, {})
          /\ file' = m
          /\ UNCHANGED <<repo, outcome>>
       \/ /\ ResolvedSchema = NoFile
          /\ Cardinality(ReplaySet(m)) \in 1..ReplayLimit
          /\ Attempt(m, NoFile, ReplaySet(m))
          /\ file' = m
          /\ UNCHANGED <<repo, outcome>>
       \/ /\ ResolvedSchema = NoFile
          /\ Cardinality(ReplaySet(m)) \notin 1..ReplayLimit
          /\ Decide(m, Unsupported)

\* The harness could not be started, did not finish in time, or ended without
\* an answer.
Killed ==
    /\ file # None
    /\ at \in Stages \cup {"drop"}
    /\ Decide(file, Unsupported)

\* Slip: any failure is worth the retry.
RetriesAlways == ~response.ok

\* A schema file that did not load; a migration that raised would raise again.
Retries == ~response.ok /\ response.stage = "schema" /\ schema # NoFile

Retry ==
    /\ at = "answered" /\ Retries
    /\ Cardinality(ReplaySet(file)) \in 1..ReplayLimit
    /\ Attempt(file, NoFile, ReplaySet(file))
    /\ UNCHANGED <<repo, outcome, file>>

GiveUp ==
    /\ at = "answered"
    /\ \/ ~response.ok /\ ~Retries
       \/ Retries /\ Cardinality(ReplaySet(file)) \notin 1..ReplayLimit
       \/ response.ok /\ ~response.issued
    /\ Decide(file, Unsupported)

\* The statements enter the ordinary parser, which may not read them.
Render ==
    /\ at = "answered"
    /\ response.ok /\ response.issued
    /\ Decide(file, Sql(response.saw)) \/ Decide(file, Unsupported)

-----------------------------------------------------------------------------
(* harness.rb.                                                             *)

\* Whatever is raised in a stage ends in the answer "not ok, in this stage",
\* after the scratch database is dropped.
Raise ==
    /\ at \in Stages
    /\ response' = [NoResponse EXCEPT !.stage = at]
    /\ at' = "drop"
    /\ UNCHANGED <<repo, outcome, file, schema, history, branch, loaded, applied>>

\* DROP DATABASE IF EXISTS, CREATE DATABASE.
CreateDatabase ==
    /\ at = "connect"
    /\ at' = "schema"
    /\ UNCHANGED <<repo, outcome, file, schema, history, branch, loaded, applied, response>>

LoadSchema ==
    /\ at = "schema"
    /\ schema # NoFile => schema.loads
    /\ applied' = schema.state
    /\ at' = "replay"
    /\ UNCHANGED <<repo, outcome, file, schema, history, branch, loaded, response>>

\* Slip: a class the process has loaded before is run again.
SkipsNone(h) == FALSE

\* Loading the file of a class that is there already yields no new class.
Skips(h) == h \in loaded

\* The history comes before the branch's own migrations, the oldest first.
Replays == IF history # {} THEN history ELSE branch

ReplayOne ==
    /\ at = "replay"
    /\ \E h \in Replays :
          /\ \A g \in Replays : h <= g
          /\ \/ Skips(h) /\ UNCHANGED applied
             \/ ~Skips(h) /\ Runs(h, applied) /\ applied' = applied \cup {h}
          /\ loaded' = loaded \cup {h}
          /\ history' = history \ {h}
          /\ branch' = IF history # {} THEN branch ELSE branch \ {h}
    /\ UNCHANGED <<repo, outcome, file, at, schema, response>>

Replayed ==
    /\ at = "replay" /\ Replays = {}
    /\ at' = "migration"
    /\ UNCHANGED <<repo, outcome, file, schema, history, branch, loaded, applied, response>>

\* The migration under assessment, recorded.  Where it is applied already it
\* may have nothing left to do.
Migrate ==
    /\ at = "migration"
    /\ Runs(file, applied)
    /\ \E issued \in IF file \in applied THEN BOOLEAN ELSE {TRUE} :
          response' = [ok |-> TRUE, stage |-> "migration", issued |-> issued,
                       saw |-> Seen(file, applied)]
    /\ applied' = applied \cup {file}
    /\ at' = "drop"
    /\ UNCHANGED <<repo, outcome, file, schema, history, branch, loaded>>

\* The drop may fail, which is not reported: the name is never used again.
DropDatabase ==
    /\ at = "drop"
    /\ at' = "answered"
    /\ applied' = {}
    /\ UNCHANGED <<repo, outcome, file, schema, history, branch, loaded, response>>

-----------------------------------------------------------------------------
Init ==
    /\ repo \in Repositories
    /\ outcome = [m \in Change |-> Pending]
    /\ file = None
    /\ at = "idle"
    /\ schema = NoFile
    /\ history = {}
    /\ branch = {}
    /\ loaded = {}
    /\ applied = {}
    /\ response = NoResponse

Next ==
    \/ \E m \in Change : Extract(m)
    \/ Killed \/ Retry \/ GiveUp \/ Render
    \/ Raise \/ CreateDatabase \/ LoadSchema \/ ReplayOne \/ Replayed \/ Migrate \/ DropDatabase

\* The run renders file after file, and a harness that does not move on is
\* killed.
Spec == Init /\ [][Next]_vars /\ WF_vars(Next)
-----------------------------------------------------------------------------
(* The repository has what the code counts on: git can show the base       *)
(* commit, every schema file of the branch exists at the base too, its     *)
(* files say what is merged there, and no merged migration is younger than *)
(* one of the change.                                                      *)
BaseKnown(r) ==
    /\ r.fetched
    /\ \A n \in {"structure", "schema"} :
          /\ r.base[n].is = "absent" => r.tree[n].is = "absent"
          /\ r.base[n].is = "full" => r.base[n].state = Merged

VersionsInOrder == \A h \in Merged, c \in Change : h < c

TypeOK ==
    /\ repo \in Repositories
    /\ outcome \in [Change -> [status : {"pending", "unsupported", "sql"}, saw : SUBSET Migrations]]
    /\ file \in Change \cup {None}
    /\ at \in Stages \cup {"idle", "drop", "answered"}
    /\ (at = "idle") = (file = None)
    /\ schema \in SchemaFiles
    /\ history \cup branch \subseteq {h \in Migrations : h < file}
    /\ loaded \in SUBSET Migrations
    /\ applied \in SUBSET Migrations
    /\ response \in Responses

\* extract.py, "the pre-state": when the migration under assessment runs, its
\* scratch database holds what is merged and the branch's earlier migrations,
\* and nothing else, by whichever of the three ways it was built.
PreStateExact == at = "migration" => applied = PreState(file)

\* No migration meets its own change in the scratch database, where a replay
\* of the history already brought the branch's earlier migrations.
AppliedOnce == at = "replay" => \A h \in Replays : Skips(h) \/ h \notin applied

\* DECISIONS.md, "The failure mode is a missing verdict, never a wrong one":
\* the SQL a file is judged by is what its migration will issue where it is
\* deployed.
MissingNeverWrong ==
    \A m \in Change : outcome[m].status = "sql" => outcome[m] = Sql(Seen(m, PreState(m)))

\* Every Rails file of the change comes to SQL or to a reason.
EveryFileAnswered == <>(\A m \in Change : outcome[m] # Pending)
=============================================================================
