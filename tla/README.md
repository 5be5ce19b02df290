# Verification of blastoise

Blastoise reads a Postgres migration file, works out which locks every
statement takes and for how long, asks the live database what it needs to
know, and gives each statement one of five tiers (SAFE, SAFE_IRREVERSIBLE,
NEEDS_TIMING, UNKNOWN, UNSAFE). In CI it does so for the migrations of a pull
request and reports in a comment, a check status and an exit code.

This directory models the parts of it in which an order of events decides the
answer: what the engine believes of a file while it walks through it, how the
parser groups statements into transactions, what a snapshot of the live
database says when that database changes under it, what its facts prove of an
ALTER TABLE, how a CI run gets from a config file to reports and an exit code,
how the verdicts of several pushes reach one comment, and how the SQL of Rails
migrations is obtained by running them. Source paths below are relative to
`src/blastoise/`, unless they start with `docs/`, `action/` or name a file of
the repository's root.

## The system

| Component | State it keeps | Operations | Hard parts | What makes it correct |
|---|---|---|---|---|
| Parser (`parser.py`, `classify.py`, `ir.py`, `volatility.py`) | none beyond the file | statements, transaction groups, baseline shape | nested BEGIN, AND CHAIN, ends without a begin | groups are the session's transaction blocks |
| Lock catalog (`catalog/`) | a YAML table of statement forms, loaded and validated once | `resolve` a statement to rows | data | every row names the locks Postgres takes |
| Live capture (`live/`) | the snapshot, built by some 30 kinds of query in one READ ONLY transaction at READ COMMITTED | relations, types, functions, locks and sessions, sizes, settings, calibration | each query sees another moment; relations vanish between queries; every query may fail on its own | "false" is never "unknown" |
| Engine (`verdict/engine.py`, `model.py`, `probes.py`) | `_FileState.created`, `group_locks`, the baseline flag, one snapshot | one statement at a time: rows, durations, narrowing, tier, bookkeeping | beliefs about the file that a later statement falsifies; rules that move tiers one after the other | the beliefs are true of the session; dangerous statements are not cleared |
| Durations (`verdict/duration.py`, `constants.py`) | none | bytes or rows to milliseconds, a strip around them, thresholds | integer arithmetic at thresholds | refused when both sides of a threshold are plausible |
| Narrowing, reversibility (`verdict/narrow.py`, `reversibility.py`, `live/typechange.py`) | none | what the snapshot proves of an ALTER TABLE action | facts taken before the file | a narrowing never clears what the file changed |
| Report (`report/`) | a bundle directory and `report.json` | file verdict, hashes, signature, rendering | the report must name the bundle beside it | a signature covers all the evidence |
| CI run (`ci/runner.py`, `detect.py`, `config.py`, `model.py`) | outcomes, one shared snapshot, reports on disk | changed files, parse, capture, assess, publish | fallbacks; a file that cannot be assessed | nothing unassessed is called safe |
| GitHub (`ci/github.py`, `action/action.yml`) | the comment and check statuses, on GitHub | list files, find, post, edit and delete the comment, create a status | separate calls, any of which fails or loses its answer; runs of two pushes | one comment, the newest verdict, red when it matters |
| Rails (`rails/`, `_render_rails`) | a scratch database per attempt | load schema, run the migration, retry as a replay | three ways to build one state; timeout kills the harness | the migration runs in the state it will find; otherwise UNSUPPORTED, never a wrong answer |
| CLI (`cli.py`) | none | `parse`, `check`, `ci`, `verify` and so on | none of its own | exit codes |

The parser's statements and groups, the catalog's rows and the snapshot are
the engine's inputs; durations and narrowing are called by the engine for one
row at a time; the CI run calls capture once, then parser, engine and report
per file, then GitHub. Nothing in the program is multi-threaded: its
concurrency is with the database being migrated, with the people and the
other CI runs on the pull request, and with failures.

## The modules

### Verdicts, Engine, MCEngine, Engine_proofs: the verdict engine

`Verdicts` holds the pure rules: the tiers and how they combine
(`CombineRank`, `WorseClassification`), the lock conflict matrix, bands,
thresholds and the boundary refusal in the code's integer arithmetic, and the
rules for contention and existence guards. `Engine` is `assess_script`.

| Engine | Code |
|---|---|
| `created` | `_FileState.created` |
| `baseline`, `ownNames` | `script.baseline_shaped`, the names `_baseline_shaped` collects |
| `explicit`, `held` | `explicit_group_of` of the statement, its bucket of `group_locks` |
| `snapshot` | the `LiveSnapshot`, or offline |
| `last` | the `StatementAssessment` appended, with what the session was like |
| `AssessStatement(s)` | one turn of `assess_script`'s loop: `_assess_row` per row (`Branch` is its chain of ifs, `BaseTier` the verdict of each), combining, then the bookkeeping of `observe` and `group_locks` |

Beside the engine the same action runs the statement in a Postgres session
(`db`, `saved`, `inTxn`, `pgLocks`, `alive`). The code never sees it. It is
there because the engine's verdicts are claims about that session, so the
properties relate the two: whether a statement the engine calls safe will,
when it runs, lock a relation that was there before the file. The session is
external: it is modelled from what the engine assumes of Postgres. It stops at
the first error, and a guarded DO block may run or not.

A statement is a record of what the code reads of it: its catalog rows, its
effect on the schema, whether it is in a DO block, guarded or opaque. A row
carries the answers `duration.py` and `narrow.py` would give for it. Evidence
texts, conditions and verdict methods are left out. Further abstractions:
rows are a set, so two equal rows are one; a DO block has at most one effect
on the schema; names have no dots; unqualified names resolve to
`DefaultSchema`; the snapshot's unavailable waiters are the same as none,
which they are for tiers; the length a baseline file must have is dropped,
so shorter files count too; SAVEPOINT and PREPARE TRANSACTION are statements
like any other.

The engine follows one schema by unqualified names and what `observe` is told.
`Plain(s)` says when a statement stays inside that view: one schema, no
CREATE IF NOT EXISTS, no creation in an existence guard, no ROLLBACK, no
removal `observe` does not follow (DROP MATERIALIZED VIEW, SET SCHEMA), no
blocking lock the catalog row leaves out. The run `engine` and the theorems
about the session are about plain statements. What the code does outside is
not assumed away: `engine_if_not_exists` shows the plainest case. The same
exemption is wrong, for the same reason, after a ROLLBACK of the CREATE, for a
table of the same name in another schema, after a guarded DO block that
created nothing, and after a removal `observe` does not follow.

### TxnGroups, TxnBlocks, TxnGroups_proofs: transaction grouping

`TxnBlocks` is the abstract specification: a session that executes a file of
BEGIN, COMMIT, ROLLBACK (AND CHAIN or not) and other statements, with the
block each statement runs in and what became of each block. `TxnGroups` is
`_group_transactions`: `current`, `openedBy`, `inExplicit` and `groups` are
its locals and `Flushed` its `flush`, one action per kind of statement it
tells apart, and `ReadEnds` for what it does after the loop. `Session` maps
the groups to the session's blocks: `Blocks` are the explicit groups with the
one being collected, each known by the statement that opened it, and the one
nothing has closed is the open one. `GroupsFollowSession` says every step of
the parser is a step of the session. A chained end outside a block is an error in Postgres and
changes nothing, like in the parser.

### CiRules, CiPublish, MCCiPublish, CiPublish_proofs: publication

`CiRules` holds the verdicts of a file and of a run and the exit code.
`CiPublish` models a pull request: `Push` starts a run of `blastoise ci`,
which goes through `Start`, `ListPage` (one page of `find_comment`),
`WriteComment` (the PATCH, POST or DELETE of `upsert_comment` and
`delete_comment`), `CreateCheckRun` and `Finish`. Each call is one action: it
succeeds, fails with a `GitHubError`, or fails with another exception
(`Abort`); a write that fails may have been carried out. People comment and
delete their comments, which moves the tool's comment between pages. The check
status is keyed by the head commit of its push and read by nobody, so only how
its call ends is modelled. A missing token, client or head commit, and a
person who quotes the marker, are not.

`Alone` says whether runs of one pull request may overlap. Nothing in the
action prevents it. The pass run assumes they do not and that nobody deletes a
comment in the middle of a run (`Alone = TRUE`); `ci_publish_overlap` drops
the assumption.

### RailsExtract, MCRailsExtract, RailsExtract_proofs: Rails migrations

A Rails migration is Ruby; its SQL is what it issues when it is run. For each
file of a change `extract_rails_sql` starts a harness (`rails/harness.rb`),
which makes a scratch database, brings it to the state the migration will
find, runs the migration and answers with the statements it recorded.

| RailsExtract | Code |
|---|---|
| `outcome` | the `FileOutcome` or the parsed SQL of each file, per `_render_rails` |
| `file`, `schema`, `history`, `branch` | the migration, and the request of `attempt`: the schema file, and the two parts of `replay` |
| `at`, `response` | the harness's `response['stage']` and what it writes at the end |
| `loaded` | `ActiveRecord::Migration.descendants` of its process |
| `applied` | what the scratch database holds; the program does not keep it |
| `Extract`, `Retry`, `GiveUp`, `Render`, `Killed` | the steps of `extract_rails_sql` and `_render_rails` |
| `CreateDatabase`, `LoadSchema`, `ReplayOne`, `Replayed`, `Migrate`, `Raise`, `DropDatabase` | the stages of the harness, its `rescue` and its `ensure` |

The state comes from the base commit's schema file (`SchemaFile`: the working
tree's when git cannot show it), else from a replay of the directory's earlier
migrations. Either way the branch's own earlier migrations (`Preceding`) are
applied on top. A replay covers those already: loading a file a second time
yields no new class and the harness passes it over (`Skips`). Any stage can
raise (`Raise`) and in any stage the process can be killed (`Killed`, which
stands for the timeout, a Ruby that cannot be started and an answer that
cannot be read).

A migration is its version, with what it `Needs`, what it `LooksAt` before it
decides what to do, and whether it is `Tolerant` of being applied already. The
SQL it issues is told by which of the migrations it looks at were applied.
`PreState` is the reference: the base commit's migrations are deployed, and
Rails runs the change's in version order. Versions are numbers: those of a
directory have equally many digits, as the code's comparison of strings
needs. A merged migration that the change edits and a class name used twice
are not modelled; `rails_refusal` is in `CiInputs`. A scratch database that a killed harness
leaves behind is not either: names are random and never met again.

`BaseKnown` and `VersionsInOrder` are what the extraction counts on and cannot
check. Where the first fails, `rails_shallow` shows what happens. Where the
second does (a branch whose migration is older than one merged meanwhile) a
replay leaves the younger merged migration out, although it is deployed.

### Snapshot, MCSnapshot, Snapshot_proofs: the live snapshot

`capture_snapshot` opens one READ ONLY transaction and asks its
questions in it. At READ COMMITTED each sees what is committed when it runs,
so the snapshot is of no single moment.

| Snapshot | Code |
|---|---|
| `at`, `on` | the next query, and the relation of the loops it is for |
| `relation`, `facts` | the `RelationFacts` of each relation, and the facts about the server, functions, types, locks, replication and calibration |
| `seen` | the rows `_gather_waiters` holds between its three queries |
| `result` | the `LiveSnapshot`, or the exception |
| `Connect` to `Settings` (`Gate`) | the connection, `_guard_role`, `_gather_server` |
| `Resolve` to `TypeChange` (`Statics`) | the queries that lock nothing, each relation in turn |
| `BlockedQuery` to `Connections` (`Concurrency`) | `_gather_concurrency` |
| `Sizes` to `Commit` (`Finish`) | the size functions, replication, calibration, the end of the transaction |
| `server`, `db`, `sessions` | the database; external |
| `Lock`, `Grant`, `Pause`, `Release`, `Change`, `LoseConnection` | the other sessions and the network; external |

`Ask` is `_query`: a savepoint, and an answer, a failure, or nothing at all once
the connection is lost. A fact is `Unavailable` or a value, as in
`live/model.py`. What a relation is like (columns, indexes, constraints, sizes)
is abstracted to its shape: as it was, altered, or another relation. A query by
oid for rows of a relation that is gone returns none, and for its size NULL:
the model keeps the difference, because the first reads as a fact and the
second does not. Indexes of a relation and overloads of a function are one
query each. A step of another session is an event, and so is a query that
fails of its own accord; what the others do while the gate or the replication
queries run is read by nobody and is left out (`Watched`).

### TypeChange, Volatility, Classify, Narrow, Reversibility, Assessment, MCAssessment, Assessment_proofs

The pure rules that turn facts into a claim about one ALTER TABLE subcommand,
a module for each file: `TypeChange` is `assess_type_change`
(`live/typechange.py`), `Volatility` the walk over a DEFAULT expression and the
answers of `pg_proc` (`volatility.py`, `live/resolve.py`), `Classify` the kinds
of added columns and constraints (`classify.py`), `Narrow` all of
`narrow_action` (`verdict/narrow.py`), `Reversibility` the two tables and the
worst-part rule (`verdict/reversibility.py`). `Assessment` puts them together
and beside Postgres:

| Assessment | Code |
|---|---|
| `captured`, `hidden` | the snapshot's facts of the table, and the group of them that is unavailable |
| `statement` | the rows of the statement being assessed, with what narrowing and the reversibility table say of each |
| `reported` | `_statement_reversibility` |
| `Capture`, `Offline` | `_capture_snapshot`, or none |
| `AssessAction`, `AssessInner`, `Close`, `NextStatement` | `_assess_row` of a subcommand, of another statement in a DO block, the end of a statement, the next one |
| `table`, `lost` | the table as the file leaves it, and what can no longer be brought back; external |

`Touches`, `Altered` and `Loses` are the reference: whether Postgres rewrites,
scans or indexes again, what the table is like afterwards and what is lost.
They are modelled from the values a type admits (`Values`), from the
constraints and the indexes themselves and from the comments with which
`narrow.py`, `typechange.py` and the catalog cite `tablecmds.c`, not from the
rules the code derived from them. A type is a name, a base, its numbers and
what a domain over it checks; how it is spelled is left out, except that a
spelling may not be understood. A CHECK is a tree of one level. The catalog's
part is the version a kind exists from, its duration model, and the version
from which that model asks for the snapshot.

The named assumptions of `Assessment` say what its constants are: a type that
is no domain is its own base; the constraints of a table have names of their
own, and one of kind NOT NULL marks its column; an added column has one of the
expressions for its default; `pg_proc` is asked about the functions no list
knows; and an expression is a tree, with more nodes than any of its parts
(`Size`), in which constants have no parts and only calls have functions.

### CiInputs, CiRun, MCCiRun, CiRun_proofs, Numbers: a CI run

`CiInputs` holds what is decided before anything is assessed: the config file
(`ci/config.py`), which paths are migrations (`ci/detect.py`), where the list
of changed files comes from and what is refused (`ci/runner.py`,
`rails/extract.py`). `CiRun` is `run_ci`:

| CiRun | Code |
|---|---|
| `job`, `config` | the options with the environment, `load_config` |
| `page`, `changed` | `pull_request_files`, `_resolve_changed` |
| `left`, `parsed`, `outcomes` | `detected` not yet parsed, `parsed`, `outcomes` of `_run` |
| `snapshot` | `_capture_snapshot`'s result, or its degraded reason |
| `writing` | the report and the evidence of one file, still to be written |
| `disk` | the report directories, which outlive the run |
| `exit`, `published` | the exit code, and the last run that got to publish |
| `ReadConfig` to `End` | the stages of `_run`, in their order |
| `Raise`, `Kill` | an exception out of any of them, and a job that is cancelled |

The verdict and the exit code come from `CiRules`, which `CiPublish` uses too;
a path is a directory and a file name, a glob the directories it matches, a
config document the keys it has with the type and value YAML reads. A file
has, beside its directory, the one that git prints for it (`printed`): `git
diff --name-only` puts a path with a non-ASCII character, a quote, a backslash
or a control character in quotes and escapes them, and `normalize_path` makes
slashes of the backslashes. `Printed` is what is left, the path `GitDiff` lists
in the file's place: in a directory that only a glob can reach, and with a name
that ends in a quote, as in no layout. It is the path of no file, so a run that
takes it for a migration cannot read it (`ParseNext`). The API's listing is JSON
and has the paths themselves. A
run is a number, and a file on disk holds the run that wrote it, or a part of
that (`Torn`). Parsing, rendering (`RailsExtract`), capturing (`Snapshot`) and
assessing (`Engine`) are one step each, which may fail, and the verdict of a
file is any that it may have. Publishing is one step: its failures are
`CiPublish`'s subject. The summary and the outputs of the job are left out.
`Numbers` holds what the proofs of several components need of the natural
numbers: a set of them has a least, and one with a bound has a greatest.

## The runs

| Run | Question | Bounds | Shows |
|---|---|---|---|
| `engine` | is what the engine believes, and clears, true of the session? | 3 statements, 2 tables and an index name, 6 snapshots, every set of existing relations, about 150 statements | holds: 10 invariants |
| `engine_if_not_exists` | the floor for ACCESS EXCLUSIVE, with CREATE TABLE IF NOT EXISTS | 3 statements | **violated** |
| `engine_quoted` | contention on a table whose name needs quotes | 3 statements | **violated** |
| `txn_groups` | do the groups follow the session? | all files of 6 statements | holds |
| `ci_publish` | one comment, newest verdict, red when it matters, runs end | 3 pushes, 2 comments of others, pages of 2, 2 pages | holds |
| `ci_publish_overlap` | the newest verdict when runs overlap | 2 pushes | **violated** |
| `ci_publish_fatal` | is publishing never fatal? | 2 pushes | **violated** |
| `rails` | is each migration run in the state it will find, and answered? | 2 merged migrations, 3 in the change, every schema file git can show, replays of up to 3 | holds |
| `rails_shallow` | the same SQL, when the base commit is not in the clone | the same migrations | **violated** |
| `snapshot` | what is a snapshot of a changing database worth? | 2 relations (the second partitioned), 2 sessions, 6 servers, 2 events | holds: 5 invariants, `CaptureEnds` |
| `ci_run` | is every migration accounted for, and every report backed? | 5 files, one of which git prints in quotes, 2 pages of 2, 15 jobs, 2 runs, 2 events | holds: 4 invariants, `RunEnds` |
| `assessment` | is what the facts are said to prove of an ALTER TABLE so? | 27 tables, 50 subcommands, 6 inner statements, versions 11 and 18, 2 rows | holds: 5 invariants |

Why the bounds suffice. `engine`: the engine's beliefs about a name need a
statement that makes them (create, rename), one that falsifies them (drop,
rename back, end of a transaction) and one that is judged by them; contention
needs two relations, one waited on and one not. The estimates lie below, on,
between and above every threshold, on both sides of the strip. The
proofs remove these bounds for the properties they cover. `txn_groups`: every
state of the parser's loop is reached within three statements; six give two
chained blocks with an empty one. `ci_publish`: a comment can be on the first
page, on the last, or pushed there; a write can be lost, and the next two runs
follow. `MaxOthers < PageSize * MaxPages` is the code's own limit: 20 pages of
100, so a pull request with 2000 comments before the tool's is outside. The
`NoMigrations` verdict is that of a push that touches no migration. `rails`:
the third migration of the change has two before it, so order among them
matters; with `ReplayLimit = 3` its replay of four is over the limit and the
others' are not; two migrations look at the one before and two need it.

`snapshot`: a relation is looked up, asked for by oid, locked
and sized; two relations are enough for one to be renamed to the other's name
and for waiters on each; two sessions for a holder and a waiter; the changes a
relation can suffer (altered, dropped, replaced, renamed) take a lock, so two
events let a session that holds one when the capture begins change the
relation and another query fail, or its lock be granted to a waiter, at any
two points of the capture. The servers are the expected one, one that hides
what a role without `pg_read_all_stats` cannot see, and one for each refusal
of the gate. `ci_run`: the fifth file is beyond the two pages that are
fetched, and its path is one that git prints in quotes: the jobs that ask git
find it under another path, which a glob of one config matches and the layouts
do not; among the others are one deleted, one Rails file and one that is no
migration; two runs in one checkout, of any two jobs, let the second find
reports of the first in its directories, and two events let it be killed or
fail in between. `assessment`: the tables cover every fact a narrowing asks
for, in every value it distinguishes; one statement on a table as captured is
what `FastPathProven` is about, a second row what the facts' age and the
worst-part rule need. `Bounded` allows files of two rows only when all facts
or none are known: a missing group changes one row at a time.

What the properties say, beside the type invariants:

- `FileFactsSound`: `created`, the transaction flag, `group_locks` and the
  baseline detector's names are true of the session while it runs.
- `LiveAelNeverSafe`, `LongRunUnderLocks`, `ForbiddenInTransaction`: three
  ways a statement is dangerous because of what came before it in the file;
  none is in a safe tier (the third is UNSAFE).
- `BaselineOwnsItsTargets`: a baseline file, assessed as if the database were
  empty, touches nothing from before it.
- `OfflineUnsafeIsProven`, `UndecidedNeverCleared`, `NoDoubleEscalation`,
  `ContentionSeen`: what the chain of rules that move a tier may and may not
  do, whatever their order and inputs.
- `EveryStatementOnce`, `WarningsAreReal`, `GroupsFollowSession`: the groups.
- `PreStateExact`, `AppliedOnce`, `MissingNeverWrong`, `EveryFileAnswered`: the
  state a migration is run in, by whichever way it was built, and what the
  file is judged by when anything on the way failed.
- `OneComment`, `NewestVerdictStands`, `RedWhenItMatters`, `RunsEnd`: what is
  left on the pull request and how the job ends.
- `StableFactsTrue`, `OneRelation`, `WaitersTrue`: what a snapshot that was
  pieced together from many moments may still be trusted for: everything it
  says of a relation nobody touched; that facts of two relations are never
  mixed under one name; and who waited for whom, with an idle blocker only
  where one was seen. `FailuresStayLocal`, `CaptureEnds`: what a failing query
  costs, and that no lock holds the capture up.
- `FastPathProven`: a subcommand that the facts call catalog-time work does
  none that grows with the table, compared with what Postgres does with it.
  `MissingFactNeverLightens`: taking one group of facts away never makes a
  subcommand look cheaper. `ProbesSuffice`: a default stays undecided only
  where no function's answer could decide it. `UndoLosesNothing`: a statement
  reported reversible destroys nothing.
- `EveryMigrationAccounted`, `EvidenceBehindReports`, `ToolErrorIsNoVerdict`,
  `RunEnds`: a run that concludes has looked at every migration that was named
  to it (for the two kinds that are not, see "Known limits"), a report on
  disk never stands before the evidence it names, whatever an earlier run left
  there, and a run that broke down is no verdict.

`CHECK_DEADLOCK FALSE` throughout: a file ends, a pull request may rest, and
an extraction ends with its last file.

Fairness is assumed in four places. The rendering of Rails files is weakly
fair as a whole (`WF_vars(Next)` in `RailsExtract`): it is one sequential
program, and `subprocess.run` kills a harness that has not ended by its timeout.
`EveryFileAnswered` rests on it. Each CI run is weakly fair in `CiPublish`:
a job GitHub started is run, and every call it makes returns or fails within
the transport's 30 second timeout. `RunsEnd` rests on it. Pushes and people
are not fair. The steps of a capture are (`WF_vars(Capture)` in `Snapshot`):
it is one sequential program, the timeouts it sets on its session
(`live/introspect.py:198`) end a query that waits, and the size functions, the
only ones that queue behind locks, are enabled in a queue only by those
(`TimesOut`); the other sessions are not fair and may hold a lock for ever.
`CaptureEnds` rests on it. So are the steps of a CI run (`WF_vars(Step)` in
`CiRun`), for the same reason as in `CiPublish`: `RunEnds` rests on it.

## What the violated runs show

1. `engine_if_not_exists`. `observe` (`verdict/engine.py:174`) records the
   target of CREATE TABLE IF NOT EXISTS as created by the file, and
   `_live_ael_relations` exempts it. On a database that has the table, ALTER
   TABLE on it is then SAFE although it takes ACCESS EXCLUSIVE, against
   `verdict/model.py:80-84`.
2. `engine_quoted`. `_relation_assessments` (`verdict/engine.py:315`) looks up
   the name as `str()` writes it in a map keyed by what `probe_name` wrote
   (`probes.py:42-44` says the spelling is the same). Waiters on a mixed-case
   table are not seen.
3. `ci_publish_overlap`. `upsert_comment` (`ci/github.py:266`) finds and
   writes in two calls and nothing keeps two runs apart; the older push may
   have the last word, against `github.py:256-257`.
4. `ci_publish_fatal`. A read timeout or a body that is not JSON
   (`ci/github.py:90`) is no `GitHubError`; the run exits 3 after it reached
   its verdict, against `ci/runner.py:800` ("never fatal").
5. `rails_shallow`. In a clone of depth 1 git cannot show the base commit, and
   `_resolve_schema` (`rails/extract.py:211`) reads the schema file of the
   branch, which its author regenerated. Most migrations then raise and are
   reported as unassessed. One that looks before it acts issues less than it
   will where it is deployed, and is judged by that, against
   `rails/extract.py:25` and `DECISIONS.md:2420` ("a missing verdict, never a
   wrong one").

## The proofs

TLC checks the properties on the instances above; the theorems here state them
for every value of the constants that satisfies the named assumptions of the
module, which TLC evaluates in the component's run. Every invariant of the
runs that hold is proved, and so is the refinement. The liveness properties
are not: see the end of this section.

### Engine_proofs

| Theorem | Of files |
|---|---|
| `TypeCorrect`: `Spec => []TypeOK` | any |
| `UndecidedStaysUndecided`: `Spec => []UndecidedNeverCleared` | any |
| `EscalatedOnce`: `Spec => []NoDoubleEscalation` | any |
| `OfflineNeverGuesses`: `Spec => []OfflineUnsafeIsProven` | any |
| `ContentionNeverMissed`: `Spec => []ContentionSeen` | in which no name needs quotes |
| `FileFactsHold`: `Spec => []FileFactsSound` | plain statements |
| `LiveAelFloorHolds`: `Spec => []LiveAelNeverSafe` | plain statements |
| `LongRunsTimed`: `Spec => []LongRunUnderLocks` | plain statements |
| `BaselineDetectorSound`: `Spec => []BaselineOwnsItsTargets` | plain statements |
| `ForbiddenFormsFound`: `Spec => []ForbiddenInTransaction` | plain statements |

The inductive invariant is `TypeOK /\ FileFactsSound`. `FileFactsSound` had to
be stated of the state and not of the last statement: that the next statement
is judged rightly follows from what the engine holds now, and not from the
statement before having been judged rightly. Its four parts have a lemma
each: `SessionStep` (the transaction flag and the locks), `CreatedStep` and
`OwnNamesStep` (the names, both over `DbStep`, which says how the relation of a
name may change in one step), and `TypeStep`. They need plainness where the
code does: one schema makes a name one relation, no ROLLBACK keeps `db` from
returning, no IF NOT EXISTS makes a created name a new relation.
`LiveAelNeverSafe` and the others are then consequences of one step from a
state that satisfies the invariant: `FloorLifts` says a row that locks a
relation the engine does not hold for its own leaves the safe tiers, and
`StatementAtLeastRow` that no later rule of the statement goes below its rows.
`ForbiddenFormsFound` needs the transaction flag to be the session's
(`ForbiddenStep`).

The properties of the chain of rules (`NoDoubleEscalation`,
`OfflineUnsafeIsProven`, `ContentionSeen`) need no history: `EscalationStep`,
`OfflineStep` and `ContentionStep` follow one row through `BaseTier`,
contention and the floor. `OfflineEstimates` says that without a snapshot a
size is unknown or that of an empty relation, which is below every threshold.
The hypothesis of `ContentionNeverMissed`, that no name needs quotes, is the
one the code needs: `engine_quoted` is what happens without it.

### TxnGroups_proofs

For files of every length:

| Theorem | Statement |
|---|---|
| `GroupsTyped` | `Spec => []TypeOK` |
| `StatementsGroupedOnce` | `Spec => []EveryStatementOnce` |
| `ParserFollowsSession` | `Spec => GroupsFollowSession` |
| `ParserWarnsTruly` | `Spec => []WarningsAreReal` |

With `TypeOK`, `EveryStatementOnce` is inductive as it stands: it speaks of
what is collected and not only of the groups that are complete. `FlushedIs`
says that a flush appends the group being collected or finds nothing in it, and
`ReadGrows` that a statement that is read is a new, last index.

The refinement and the warnings look a block up by its opener, by a member or
by its being open, and rest on `BlocksKnown`: blocks are apart (no two share an
opener or a member, or are both open), and only the one being collected is
open until the file ends. Each action of the parser is then one of four changes
to the blocks (`Ignored`, `Begun`, `Ended`, `Ran`; `BlocksNextAre` with a lemma
per action), and each of these is an action of `TxnBlocks` or a stutter, by
what the three look-ups return before and after (`IgnoredSession`,
`BegunSession`, `EndedSession`, `RanSession`). The same changes leave the
warnings of the earlier statements as they were (`WarningsKept`), because what
a step adds or closes carries the newest index.

### RailsExtract_proofs

For all migrations and whatever they need and look at; the last three under
`Orderly` (`BaseKnown` of every repository and `VersionsInOrder`):

| Theorem | Statement |
|---|---|
| `ExtractionTyped` | `Spec => []TypeOK` |
| `StateBuiltExactly` | `Spec => []PreStateExact` |
| `NothingAppliedTwice` | `Spec => []AppliedOnce` |
| `NeverAWrongVerdict` | `Spec => []MissingNeverWrong` |

The inductive invariant is `TypeOK /\ Building /\ Recorded /\
MissingNeverWrong`. None of the three is inductive alone: that the state is
right when the migration runs follows from what the harness held and still had
to apply in every stage before (`Building`: together they are `PreState`, and
what is applied and still listed has been loaded, so it will be skipped), and
that the answer is right from its having been recorded in that state
(`Recorded`), which it must stay true to while the database is dropped.
`AttemptStep` starts `Building`, from a schema file or from a replay, first
try or retry; `DecideStep` ends it; the other actions are the stages.

### CiRun_proofs

For any pull request, jobs and page cap, and any number of runs, failures and
kills:

| Theorem | Statement |
|---|---|
| `RunTyped` | `Spec => []TypeOK` |
| `ReportsBacked` | `Spec => []EvidenceBehindReports` |
| `BrokenRunsSilent` | `Spec => []ToolErrorIsNoVerdict` |
| `MigrationsAccounted` | `Spec => []EveryMigrationAccounted` |

The inductive invariant of the first three is `TypeOK /\ Underway /\ Writing /\
Grounded /\ Ledger` with the two properties. That a report which appears has
its evidence beside it follows from the writes before it (`Writing`: what is
not left to write is there, of this run). That the evidence of an earlier
report is not written over follows from the numbering of the directories, and
that is what `Ledger` is for: reports of this run are in directories numbered
up to the files it has assessed, and the next number is one more
(`OwnDirectory`, `AssessedGrows`). It needs every assessed file to be assessed
once, which is why `Writing` keeps the file that is written apart from those in
`Assessed`. What an earlier run left in a directory does not matter, because
its reports are of an earlier number (`StartBacked`). `Underway` says of each
stage whether the run has published, and `RunConcludes` that a verdict's exit
code is not that of an error.

`MigrationsAccounted` holds for every file that is named to the run: not for
those beyond the page cap, nor for those git prints as another path that is no
migration. `EveryMigrationAccounted` speaks of the end of a run only. `Accounts`
says where every migration is in each stage before: listed, as itself once its
page was read or as git prints it, then still to be parsed, parsed or refused,
and at last assessed or refused. That the listing stops too early for none is
`ShortPageIsLast`: the positions of N files are exactly 1 to N
(`PositionsAre`), so a page that is not full is the last.

### CiPublish_proofs

For any number of pushes and of comments of others, any pages, and whatever
calls fail, lose their answer or are aborted:

| Theorem | Statement | Runs |
|---|---|---|
| `PublishTyped` | `Spec => []TypeOK` | overlap or not |
| `RedEndsRed` | `Spec => []RedWhenItMatters` | overlap or not |
| `CommentIsOne` | `Spec => []OneComment` | `Alone` |
| `NewestStands` | `Spec => []NewestVerdictStands` | `Alone` |

`Ended` (a run that is over exits with its verdict's code or as a tool error)
gives the second. The last two are false where runs overlap, as
`ci_publish_overlap` shows, and `Alone` is a hypothesis of theirs. Their
invariant is `OneAtATime`: all runs before the one that is under way are done;
the tool's comment, if there is one, is on no page the run has passed
(`Searched`); when it comes to write, what it found is the comment there is,
or there is none; and after a write that went through the newest verdict stands
until a later run starts. That the search finds what is there needs
`MaxOthers < PageSize * MaxPages`: a comment of the tool's has fewer others
before it than the pages hold.

### Snapshot_proofs

For any relations, sessions, servers and number of events, however the other
sessions' steps fall between the queries:

| Theorem | Statement |
|---|---|
| `SnapshotTyped` | `Spec => []TypeOK` |
| `LeftAloneIsTrue` | `Spec => []StableFactsTrue` |
| `FactsOfOne` | `Spec => []OneRelation` |
| `FailingStaysLocal` | `Spec => []FailuresStayLocal` |
| `WaitersWereWaiting` | `Spec => []WaitersTrue` |

The thirty steps of the capture are described once, by five lemmas:
what may fail (`CaptureTries`), where it goes next (`CaptureGoes`), and what it
writes about the relations (`CaptureRecords`), the server (`CaptureLearns`) and
the waiters (`CaptureWaits`); `OthersMove` and `LosingMoves` do so for the
database. The invariants are proved from these. `Known` is for the first two
properties: oids are never used again (`Distinct`), a relation is asked for by
an oid it had when its name was resolved (`Single`), what was said of one that
nobody touched is what it is (`Stable`), and nothing is said before its turn
(`Ordered`). `Local` says that a fact whose query lies in the past is known or
that query has failed, `Heard` what `_gather_waiters` holds between its three
queries.

### Assessment_proofs

For any tables, types, constraints, indexes, subcommands, defaults and
functions, and files of any length:

| Theorem | Statement |
|---|---|
| `AssessmentTyped` | `Spec => []TypeOK` |
| `MissingOnlyAddsWeight` | `Spec => []MissingFactNeverLightens` |
| `UndoIsHonest` | `Spec => []UndoLosesNothing` |
| `FastPathIsFast` | `Spec => []FastPathProven` |
| `ProbesAreEnough` | `Spec => []ProbesSuffice` |

The state machine contributes little: a row and the snapshot it was judged
from never change, so the invariant `Judges` says of every row what judged it
(`ActionRow`, `InnerRow`), and `Admitted` and `Summed` what the losses and the
report of a statement mean. The substance is in the lemmas about the rules,
which hold for any arguments. `NarrowHeavier` compares each rule of `narrow.py`
with and without a group of facts. `FastTouchesNothing` has a lemma for each
way a row becomes fast and shows, from the values a type admits and the
constraints a table has, that Postgres has nothing to scan, rewrite or index:
`NoRewriteIsNone` and `GrowthFits` for type changes, `FastNotNull` for the
CHECK that implies NOT NULL, `FastDefault` for added columns. `RelabelProven`
and `ReversibleKeeps` say that what is called reversible keeps every value.

A default is a tree, and what `Volatility` says of it is a recursive function.
The library's induction theorems cannot be used, so the induction is carried
out with numbers: `WalkSolved` builds, for trees of up to n nodes, a function
that satisfies a walk's equation, shows that any two agree and glues them
together. `VolatilityWalk`, `UnknownsWalk`, `CallsWalk` and `OpenWalk` are the
equations this gives, and `SmallestTree` (a property that fails for a tree
fails for one all of whose parts have it) is the induction on them. On it rest
`VolatileCallsShow` (a default called constant calls nothing volatile) and
`UnknownIsUnanswerable`. What is assumed is only that expressions are trees
(`TreesAssumption`).

### Only model-checked

`RunsEnd`, `RunEnds`, `CaptureEnds` and `EveryFileAnswered`: liveness under
fairness is out of the prover's reach. That the expressions of a run are
trees, as the other assumptions on constants, is evaluated by TLC for the
constants of the runs; that Postgres' syntax trees are trees is not proved.

## Known limits

What the passing properties set apart, because the code does not do it:

- `FastPathProven`: `_narrow_set_not_null` takes a column's NOT NULL mark, or
  a validated NOT NULL constraint, for a proof. On Postgres 18 the mark is set
  while the constraint is still NOT VALID (`NotNullUnproven`), and
  `_narrow_add_pk_using_index` reads the same marks.
- `FastPathProven`, `UndoLosesNothing`: every statement of a file is judged by
  the snapshot taken before the file. The properties are about statements that
  find the table as it was captured (`fresh`); that a table was altered in
  between is not noticed by `narrow.py`.
- `EveryMigrationAccounted`: files beyond the last page that is fetched
  (`BeyondTheCap`) are not listed and nobody is told. The docstring of
  `pull_request_files` leaves that to its caller, which cannot know.
- `EveryMigrationAccounted`: a file whose path git prints in quotes and as no
  migration (`Unrecognized`). `_git_changed` (`ci/runner.py:179`) runs `git
  diff --name-only` without `-z` and without `core.quotePath=false`, so
  `migrations/` with a file `1_é.sql` in it is listed as
  `"migrations/1_\303\251.sql"`, quotes and all. No layout of `ci/detect.py`
  matches that, the migration is dropped without a word, and a run that has no
  other passes as `proceed`, which `ci/model.py:94-96` calls "exactly the case
  a green check would misreport". Without the exemption TLC finds such a run
  (the API fails, git answers). Where a configured glob does match the printed
  path (`**/migrations/**` of `"db/migrations/...`), the file cannot be read and
  the run is held back, which the property does ask for. Git is the source when
  it is asked for, when there is no token or no pull request to list, and when
  the API fails under `auto`.
- `WaitersTrue`: when a session moves between the three lock queries, only who
  waited for whom is right, and the state of the blockers is of a later moment.
- `ToolErrorIsNoVerdict`: what is raised while publishing is the subject of
  `ci_publish_fatal`, and is not raised in `CiRun`.

What the models leave out of the code they cover: a list of changed files, on
the command line or in a file, names them as they are (one written by `git
diff` has the quotes described above), and no name begins or ends in a blank or
holds a backslash; `--repo-root` is the top of the repository, to which git's
paths are relative; that a CHECK constraint on
a column is verified again after a type change without a rewrite; the passes
in which Postgres reorders the subcommands of one ALTER TABLE (they are run in
the order they are written); partitions, which are not locked one by one.

## Not modelled, and the plan

What is left, in this order:

1. `Duration`: from bytes and rows to milliseconds and the strip around them
   (`verdict/duration.py`), with the refusal at a threshold as a property:
   exactly when both sides of it are plausible.
2. The signature over report and bundle (`report/sign.py`) and the validation
   of the lock catalog's rows (`catalog/loader.py`).
3. Proofs: every invariant of the runs and the refinement have theirs; those
   of `Duration`, the signature and the catalog's rows come with their
   modules.

Left out for good: the translation of syntax trees into statement kinds
(`classify.py` beyond columns and constraints, `ir.py`) and the catalog's
other rows, which are tables without state or order; the rendering of comments
and reports and the redaction of secrets, which are text; the command line,
which keeps no state; the validation harness and the corpus scripts, which are
not part of the program.
