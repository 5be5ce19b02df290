------------------------------ MODULE CiInputs ------------------------------
(***************************************************************************)
(* What a CI run reads before it assesses anything: the config file        *)
(* (ci/config.py), which changed paths are migrations (ci/detect.py), what *)
(* the options and the environment ask for and what is refused of it       *)
(* (ci/runner.py, rails/extract.py).                                       *)
(***************************************************************************)
EXTENDS Naturals, Sequences, FiniteSets, FiniteSetsExt

NoValue == "unset"

-----------------------------------------------------------------------------
(* The config file.  A document is the keys it has, each with what YAML    *)
(* read for it: a type and a value.                                        *)

FailOnNames == {"block", "requires_approval", "never"}
Sections ==
    [migrations |-> {"paths", "exclude"},
     database   |-> {"url_env", "label", "pg_version"},
     ci         |-> {"fail_on", "comment", "check_run"},
     rails      |-> {"extract", "scratch_url_env", "timeout", "ruby"}]
Keys == UNION {Sections[s] : s \in DOMAIN Sections}

\* What may be written for a key.  Where the name of a variable is wanted, a
\* connection string is not one.
Allowed(key, v) ==
    CASE key \in {"url_env", "scratch_url_env"} ->
            v.type = "text" /\ v.value \notin {"", "connection string"}
      [] key \in {"paths", "exclude"} -> v.type \in {"list", "null"}
      [] key \in {"extract", "comment", "check_run"} -> v.type \in {"flag", "null"}
      [] key = "fail_on" -> v.type = "text" /\ v.value \in FailOnNames
      [] key = "timeout" -> v.type = "number" /\ v.value > 0
      [] key = "pg_version" -> v.type \in {"number", "null"}
      [] key = "ruby" -> v.type = "null" \/ (v.type = "text" /\ v.value # "")
      [] key = "label" -> v.type \in {"text", "null"}

Defaults ==
    [paths |-> {}, exclude |-> {}, url_env |-> "BLASTOISE_DATABASE_URL", label |-> NoValue,
     pg_version |-> 0, fail_on |-> "block", comment |-> TRUE, check_run |-> TRUE,
     extract |-> FALSE, scratch_url_env |-> "BLASTOISE_SCRATCH_DATABASE_URL", timeout |-> 300,
     ruby |-> NoValue]

\* parse_config: a config that is wrong anywhere is refused as a whole.  Keys
\* that would put a credential into the file are unknown ones.
ConfigRefused(doc) ==
    \/ doc.yaml \in {"broken", "list"}
    \/ /\ doc.yaml = "mapping"
       /\ \/ doc.unknown # {}
          \/ doc.version # 1
          \/ \E key \in DOMAIN doc.keys : ~Allowed(key, doc.keys[key])

ConfigOf(doc) ==
    IF doc.yaml = "empty" THEN Defaults
    ELSE [key \in Keys |->
            IF key \in DOMAIN doc.keys /\ doc.keys[key].type # "null"
            THEN doc.keys[key].value ELSE Defaults[key]]

\* load_config: the file named, or one at the conventional place, or none.
LoadsDefaults(job) == ~job.configNamed /\ job.doc.yaml = "absent"
LoadFails(job) ==
    \/ job.configNamed /\ job.doc.yaml = "absent"
    \/ job.doc.yaml # "absent" /\ ConfigRefused(job.doc)
Loaded(job) == IF LoadsDefaults(job) THEN Defaults ELSE ConfigOf(job.doc)

-----------------------------------------------------------------------------
(* Which paths are migrations.  A path is a directory and a file name, and *)
(* a file also has the directory that git prints for it.                   *)

SqlNames == {"migration.sql", "V1__a.sql", "R__a.sql", "a.up.sql", "a.sql"}
PyNames == {"a.py", "__init__.py"}
MigrationsDirs == {"prisma/migrations/a", "migrations", "migrations/versions", "migrations/x"}

Rule(framework, kind, dirs, names) ==
    [framework |-> framework, kind |-> kind, dirs |-> dirs, names |-> names]
AnyDir == MigrationsDirs \cup {"db/migrate", "db/a/migrate", "versions", "lib"}

\* The most specific layout first; the first that matches wins.
Rules ==
    << Rule("prisma", "sql", {"prisma/migrations/a"}, {"migration.sql"}),
       Rule("rails", "dsl", {"db/migrate", "db/a/migrate"}, {"a.rb"}),
       Rule("alembic", "dsl", {"versions", "migrations/versions"}, PyNames \ {"__init__.py"}),
       Rule("django", "dsl", {"migrations"}, PyNames \ {"__init__.py"}),
       Rule("flyway", "sql", AnyDir, {"V1__a.sql"}),
       Rule("flyway", "sql", AnyDir, {"R__a.sql"}),
       Rule("golang_migrate", "sql", AnyDir, {"a.up.sql"}),
       Rule("generic", "sql", MigrationsDirs, SqlNames) >>

Matching(f) == {i \in DOMAIN Rules : f.dir \in Rules[i].dirs /\ f.name \in Rules[i].names}
Layout(framework, kind) == [framework |-> framework, kind |-> kind]

\* A configured path of no known layout: by its extension, and SQL if it has
\* none that says otherwise.
ConfiguredKind(f) == Layout("configured", IF f.name \in PyNames \cup {"a.rb"} THEN "dsl" ELSE "sql")

FrameworkOf(f) ==
    IF Matching(f) = {} THEN ConfiguredKind(f)
    ELSE LET rule == Rules[Min(Matching(f))] IN Layout(rule.framework, rule.kind)

\* detect_migrations.  A glob is the set of directories whose files it
\* matches; configured globs replace the layouts, exclusions come last.
IsMigration(f, config) ==
    /\ IF config.paths # {} THEN f.dir \in UNION config.paths ELSE Matching(f) # {}
    /\ f.dir \notin UNION config.exclude

\* git diff without -z puts a path with a quote, a backslash, a control or a
\* non-ASCII character in it in quotes, and escapes these; normalize_path
\* makes slashes of the escapes and keeps the quotes.  What is left lies in
\* another directory, and its name, which ends in a quote, is that of no layout.
Printed(f) ==
    IF f.printed = f.dir THEN f ELSE [f EXCEPT !.dir = f.printed, !.name = "quoted"]

Detected(changed, config) == {f \in changed : IsMigration(f, config)}

Extractable(f) == FrameworkOf(f) = Layout("rails", "dsl")

-----------------------------------------------------------------------------
(* The options and the environment.                                        *)

\* _resolve_database_url: the NAME of a variable, and never an action input.
UrlNameRefused(job, config) ==
    /\ ~job.offline
    /\ LET name == IF job.urlEnv # NoValue THEN job.urlEnv ELSE config.url_env
       IN  name = "connection string" \/ name = "INPUT_URL"
DatabaseUrl(job) == ~job.offline /\ job.url

\* rails_refusal, _resolve_scratch_url: rendering runs the migration, so it is
\* asked for, has a scratch server, which is not the one assessed, and is not
\* run where the secrets of a fork's base would be in reach.
RailsRefused(job, config) ==
    \/ ~config.extract
    \/ job.event = "pull_request_target"
    \/ ~job.scratch
    \/ job.sameServer /\ DatabaseUrl(job)

\* GitHubContext: what the workflow's event says, if it can be read.
PullEvents == {"pull_request", "pull_request_target"}
IsPullRequest(job) == job.event \in PullEvents /\ job.repository
HasClient(job) == job.token /\ job.repository
HasBase(job) == job.baseRef \/ job.event \in PullEvents

\* _resolve_changed: where the changed paths come from.
ChangedFrom(job) ==
    IF job.explicit THEN "explicit"
    ELSE IF job.source \in {"auto", "file"} /\ job.listed THEN "file"
    ELSE IF job.source = "file" THEN "refused"
    ELSE IF job.source \in {"auto", "github_api"} /\ HasClient(job) /\ IsPullRequest(job)
         THEN "github_api"
    ELSE IF job.source = "github_api" THEN "refused"
    ELSE "git"
=============================================================================
