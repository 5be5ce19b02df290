------------------------------- MODULE CiRun --------------------------------
(***************************************************************************)
(* One blastoise ci after another (ci/runner.py, run_ci): read the config, *)
(* list the changed files, detect the migrations, parse them or have them  *)
(* rendered, take one snapshot, assess and write a report and its evidence *)
(* for each, publish, end with an exit code.  The reports stay where they  *)
(* were written, and a later job of the same checkout writes over them.    *)
(*                                                                         *)
(* A job may be killed at any step, a write may fail, the code may raise.  *)
(* CiPublish models the posting of the comment and of the check status;    *)
(* here it is one step.                                                    *)
(***************************************************************************)
EXTENDS CiInputs, CiRules

CONSTANTS
    Files,        \* the files the pull request touches
    Judged,       \* the verdicts the assessment of each may come to
    Jobs,         \* the options and the environment of a run
    PageSize,     \* files on a page of the API
    MaxPages,     \* pages that are fetched
    MaxRuns,      \* bound on the runs
    MaxEvents     \* bound on what goes wrong: failing calls and writes,
                  \* exceptions, kills

FileType == [path : Nat, dir : AnyDir, name : SqlNames \cup PyNames \cup {"a.rb", "a.txt"},
             removed : BOOLEAN, printed : STRING]
ASSUME FilesAssumption ==
    /\ Files \subseteq FileType /\ IsFiniteSet(Files)
    /\ \A f \in Files : f.printed = f.dir \/ f.printed \notin AnyDir
    /\ \A f, g \in Files : f.path = g.path => f = g
ASSUME JudgedAssumption == Judged \in [Files -> SUBSET FileVerdicts]
ASSUME BoundsAssumption ==
    PageSize \in Nat \ {0} /\ MaxPages \in Nat \ {0} /\ MaxRuns \in Nat /\ MaxEvents \in Nat

VARIABLES
    runs, events,
    at,           \* what the run does next; "idle" between two runs
    job, config,
    page,         \* pages of the API read so far
    changed,      \* the paths that are listed
    left,         \* migrations to parse or render
    parsed,       \* those that were
    outcomes,     \* what came of each migration
    snapshot,     \* the run it was taken in, or why there is none
    writing,      \* the file being assessed, and what is still to be written
    exit,         \* the exit code of the last run that ended
    published,    \* the last run that reached the pull request
    disk          \* the report directories

progress == <<job, config, page, changed, left, parsed, outcomes, snapshot, writing>>
vars == <<runs, events, at, progress, exit, published, disk>>

Running == -1      \* exit
Killed == -2
NotAsked == 0      \* snapshot
Degraded == -1
Nothing == 0       \* a file on disk, or the run whose bytes it holds, or
Torn == -1         \* a part of them

Stages ==
    {"idle", "config", "changed", "pages", "git", "detect", "parse", "capture", "assess", "write",
     "publish", "end"}
Directories == (1..Cardinality(Files)) \X {f.path : f \in Files}
NoDirectory == <<0, 0>>
Bytes == {Nothing, Torn} \cup 1..MaxRuns
EmptyDirectory ==
    [migration |-> Nothing, snapshot |-> Nothing, report |-> Nothing, online |-> FALSE]
NoFile == [path |-> 0, dir |-> "lib", name |-> "a.txt", removed |-> TRUE, printed |-> "lib"]
NotWriting == [file |-> NoFile, verdict |-> "proceed", names |-> <<>>]

OutcomeOf(f, status, verdict, directory) ==
    [file |-> f, status |-> status, verdict |-> verdict, directory |-> directory]

-----------------------------------------------------------------------------

\* Something goes wrong, or nothing does.
Well == UNCHANGED events
Wrong == events < MaxEvents /\ events' = events + 1

First(S) == CHOOSE f \in S : \A g \in S : f.path <= g.path
Position(f) == Cardinality({g \in Files : g.path <= f.path})
Kept(S) == {f \in S : ~f.removed}
Go(stage) == at' = stage /\ UNCHANGED <<runs, exit, published, disk>>

\* Slip: a run that broke down fails the job as a dangerous migration does.
BreakdownCodeBlock == VerdictRank("block")

BreakdownCode == ExitToolError

\* CiRunError, ConfigError and any exception: no verdict.
BreakDown ==
    /\ at' = "idle" /\ exit' = BreakdownCode
    /\ UNCHANGED <<runs, published, disk>>

Start ==
    /\ at = "idle" /\ runs < MaxRuns
    /\ runs' = runs + 1
    /\ at' = "config"
    /\ job' \in Jobs
    /\ exit' = Running
    /\ page' = 0 /\ changed' = {} /\ left' = {} /\ parsed' = {} /\ outcomes' = {}
    /\ snapshot' = NotAsked /\ writing' = NotWriting
    /\ UNCHANGED <<events, config, published, disk>>

ReadConfig ==
    /\ at = "config" /\ Well
    /\ \/ /\ LoadFails(job)
          /\ BreakDown /\ UNCHANGED progress
       \/ /\ ~LoadFails(job)
          /\ config' = Loaded(job)
          /\ Go("changed")
          /\ UNCHANGED <<job, page, changed, left, parsed, outcomes, snapshot, writing>>

-----------------------------------------------------------------------------
(* The changed files.                                                      *)

UseGit == IF HasBase(job) THEN Go("git") ELSE BreakDown

\* _resolve_changed.  A list that is given names files that are there.
ResolveChanged ==
    /\ at = "changed" /\ Well
    /\ CASE ChangedFrom(job) = "explicit"   -> changed' = Kept(Files) /\ Go("detect")
         [] ChangedFrom(job) = "file"       ->
               IF job.readable THEN changed' = Kept(Files) /\ Go("detect")
               ELSE UNCHANGED changed /\ BreakDown
         [] ChangedFrom(job) = "github_api" -> UNCHANGED changed /\ Go("pages")
         [] ChangedFrom(job) = "git"        -> UNCHANGED changed /\ UseGit
         [] ChangedFrom(job) = "refused"    -> UNCHANGED changed /\ BreakDown
    /\ UNCHANGED <<job, config, page, left, parsed, outcomes, snapshot, writing>>

Page(n) == {f \in Files : Position(f) > (n - 1) * PageSize /\ Position(f) <= n * PageSize}

\* Slip: only a page that is not full is the last one.
IsLastPageUncapped(n) == Cardinality(Page(n)) < PageSize

\* The page that is not full, or the last that is fetched.
IsLastPage(n) == Cardinality(Page(n)) < PageSize \/ n = MaxPages

\* Slip: the same page again.
NextPageSame == page

NextPage == page + 1

\* pull_request_files: one call per page.  When one fails, git answers, unless
\* the API was asked for by name.
ReadPage ==
    /\ at = "pages"
    /\ \/ /\ Well
          /\ page' = NextPage
          /\ changed' = changed \cup Kept(Page(page + 1))
          /\ IF IsLastPage(page + 1) THEN Go("detect") ELSE Go("pages")
       \/ /\ Wrong
          /\ UNCHANGED page
          /\ changed' = {}
          /\ IF job.source = "github_api" THEN BreakDown ELSE UseGit
    /\ UNCHANGED <<job, config, left, parsed, outcomes, snapshot, writing>>

\* _git_changed: against the merge base, or tree against tree, or not at all.
GitDiff ==
    /\ at = "git"
    /\ \/ /\ Well \/ Wrong
          /\ changed' = {Printed(f) : f \in Kept(Files)}
          /\ Go("detect")
       \/ Wrong /\ BreakDown /\ UNCHANGED changed
    /\ UNCHANGED <<job, config, page, left, parsed, outcomes, snapshot, writing>>

DetectMigrations ==
    /\ at = "detect" /\ Well
    /\ \/ UrlNameRefused(job, config) /\ BreakDown /\ UNCHANGED left
       \/ ~UrlNameRefused(job, config) /\ Go("parse") /\ left' = Detected(changed, config)
    /\ UNCHANGED <<job, config, page, changed, parsed, outcomes, snapshot, writing>>

-----------------------------------------------------------------------------
(* The migrations: parsed or rendered, one snapshot for all, then assessed *)
(* one by one.                                                             *)

\* _render_rails runs a migration with the ones before it applied.
CanRender(f) == Extractable(f) /\ ~RailsRefused(job, config)

\* A path that git escaped is that of no file, and cannot be read.
ParseNext ==
    /\ at = "parse" /\ left # {}
    /\ LET f == First(left) IN
          /\ left' = left \ {f}
          /\ \/ /\ Well /\ f \in Files
                /\ FrameworkOf(f).kind = "sql" \/ CanRender(f)
                /\ parsed' = parsed \cup {f}
                /\ UNCHANGED outcomes
             \/ /\ IF f \in Files THEN Wrong ELSE Well
                /\ FrameworkOf(f).kind = "sql"
                /\ outcomes' = outcomes \cup {OutcomeOf(f, "error", "none", NoDirectory)}
                /\ UNCHANGED parsed
             \/ /\ \/ Wrong /\ CanRender(f)
                   \/ Well /\ FrameworkOf(f).kind = "dsl" /\ ~CanRender(f)
                /\ outcomes' = outcomes \cup {OutcomeOf(f, "unsupported", "none", NoDirectory)}
                /\ UNCHANGED parsed
    /\ Go("parse")
    /\ UNCHANGED <<job, config, page, changed, snapshot, writing>>

AllParsed ==
    /\ at = "parse" /\ left = {} /\ Well
    /\ Go(IF DatabaseUrl(job) /\ parsed # {} THEN "capture" ELSE "assess")
    /\ UNCHANGED progress

\* _capture_snapshot: whatever goes wrong, the run goes on offline and says so.
CaptureSnapshot ==
    /\ at = "capture"
    /\ \/ Well /\ snapshot' = runs
       \/ Wrong /\ snapshot' = Degraded
    /\ Go("assess")
    /\ UNCHANGED <<job, config, page, changed, left, parsed, outcomes, writing>>

Assessed == {o.file : o \in {q \in outcomes : q.status = "assessed"}}
Online == snapshot > 0

\* Slip: the report, then what it is about.
WriteOrderReportFirst ==
    IF Online THEN <<"report", "migration", "snapshot">> ELSE <<"report", "migration">>

WriteOrder ==
    IF Online THEN <<"migration", "snapshot", "report">> ELSE <<"migration", "report">>

AssessNext ==
    /\ at = "assess" /\ parsed # Assessed /\ Well
    /\ LET f == First(parsed \ Assessed) IN
       \E v \in Judged[f] : writing' = [file |-> f, verdict |-> v, names |-> WriteOrder]
    /\ Go("write")
    /\ UNCHANGED <<job, config, page, changed, left, parsed, outcomes, snapshot>>

\* Numbered in the order they are assessed.
Directory == <<Cardinality(Assessed) + 1, writing.file.path>>

Put(name, bytes) ==
    disk' = [disk EXCEPT ![Directory] =
        IF name = "report" THEN [@ EXCEPT !.report = bytes, !.online = Online]
                           ELSE [@ EXCEPT ![name] = bytes]]

Assess(directory) ==
    /\ outcomes' = outcomes \cup
          {OutcomeOf(writing.file, "assessed", writing.verdict, directory)}
    /\ writing' = NotWriting
    /\ at' = "assess"

\* write_bundle, then the report.  A write that fails ends the writing, not
\* the run: the verdict stands, without a report.
WriteNext ==
    /\ at = "write"
    /\ LET name == Head(writing.names) IN
       \/ /\ Well /\ Put(name, runs)
          /\ IF Len(writing.names) > 1
             THEN at' = "write" /\ writing' = [writing EXCEPT !.names = Tail(@)] /\ UNCHANGED outcomes
             ELSE Assess(Directory)
       \/ /\ Wrong
          /\ Put(name, Torn) \/ UNCHANGED disk
          /\ Assess(NoDirectory)
    /\ UNCHANGED <<runs, exit, published, job, config, page, changed, left, parsed, snapshot>>

AllAssessed ==
    /\ at = "assess" /\ parsed = Assessed /\ Well
    /\ Go("publish")
    /\ UNCHANGED progress

-----------------------------------------------------------------------------
(* The end.                                                                *)

\* Slip: a file that was not assessed has nothing against it.
EffectiveVerdictLenient(o) == IF o.status = "assessed" THEN o.verdict ELSE "proceed"

\* A migration nobody looked at needs someone's approval.
EffectiveVerdict(o) == IF o.status = "assessed" THEN o.verdict ELSE "requires_approval"

Verdict == RunVerdict({EffectiveVerdict(o) : o \in outcomes})
FailOn == IF job.failOn # NoValue THEN job.failOn ELSE config.fail_on

\* The comment, the check status, the summary, the outputs.  How these calls
\* fail is in CiPublish.
Publish ==
    /\ at = "publish" /\ Well
    /\ published' = runs
    /\ at' = "end"
    /\ UNCHANGED <<runs, exit, disk, progress>>

End ==
    /\ at = "end" /\ Well
    /\ exit' = ExitCode(Verdict, FailOn)
    /\ at' = "idle"
    /\ UNCHANGED <<runs, published, disk, progress>>

\* An exception none of the handlers names.
Raise ==
    /\ at \notin {"idle", "publish", "end"} /\ Wrong
    /\ BreakDown
    /\ UNCHANGED progress

\* The job is cancelled, or runs out of time: what is being written is torn.
Kill ==
    /\ at \notin {"idle", "end"} /\ Wrong
    /\ at' = "idle" /\ exit' = Killed
    /\ IF at = "write" THEN Put(Head(writing.names), Torn) ELSE UNCHANGED disk
    /\ UNCHANGED <<runs, published, progress>>

Init ==
    /\ runs = 0 /\ events = 0 /\ at = "idle"
    /\ job \in Jobs /\ config = Defaults
    /\ page = 0 /\ changed = {} /\ left = {} /\ parsed = {} /\ outcomes = {}
    /\ snapshot = NotAsked /\ writing = NotWriting
    /\ exit = Running /\ published = 0
    /\ disk = [d \in Directories |-> EmptyDirectory]

Step ==
    \/ ReadConfig \/ ResolveChanged \/ ReadPage \/ GitDiff \/ DetectMigrations \/ ParseNext
    \/ AllParsed \/ CaptureSnapshot \/ AssessNext \/ WriteNext \/ AllAssessed \/ Publish \/ End
Next == Start \/ Step \/ Raise \/ Kill

\* A run goes on until it ends: it waits for nobody, and its calls have
\* timeouts.
Spec == Init /\ [][Next]_vars /\ WF_vars(Step)

-----------------------------------------------------------------------------
(* Properties.                                                             *)

Paths == Files \cup {Printed(f) : f \in Files}

Outcomes ==
    [file : Files, status : {"assessed"}, verdict : FileVerdicts,
     directory : Directories \cup {NoDirectory}]
    \cup [file : Paths, status : {"unsupported", "error"}, verdict : {"none"},
          directory : {NoDirectory}]

\* Every variable has a value of its type.
TypeOK ==
    /\ runs \in 0..MaxRuns /\ events \in 0..MaxEvents /\ at \in Stages
    /\ job \in Jobs /\ page \in 0..MaxPages
    /\ changed \subseteq Paths /\ left \subseteq Paths /\ parsed \subseteq Files
    /\ outcomes \subseteq Outcomes
    /\ snapshot \in {NotAsked, Degraded} \cup 1..MaxRuns
    /\ writing.file \in Files \cup {NoFile} /\ writing.verdict \in FileVerdicts
    /\ exit \in ExitCodes \cup {Running, Killed} /\ published \in 0..MaxRuns
    /\ disk \in [Directories -> [migration : Bytes, snapshot : Bytes, report : Bytes, online : BOOLEAN]]

Concluded == exit \in ExitCodes \ {ExitToolError}

\* The API was asked, and the file is on a page that is not fetched: the
\* caller is told nothing of it (github.py:184).
BeyondTheCap(f) ==
    page = MaxPages /\ Position(f) > MaxPages * PageSize

\* Git was asked, and what it prints of the file's path is no migration.
Unrecognized(f) == Printed(f) \in changed /\ ~IsMigration(Printed(f), config)

\* A run that concludes has looked at every migration of the pull request that
\* was named to it, which one beyond the page cap is not, nor one that git
\* prints as another path: each was assessed, or the run does not pass as
\* proceed (runner.py:199, ci/model.py:95).
EveryMigrationAccounted ==
    Concluded => \A f \in Files :
        ~f.removed /\ IsMigration(f, config) /\ ~BeyondTheCap(f) /\ ~Unrecognized(f) =>
            \E o \in outcomes :
               /\ o.file \in {f, Printed(f)}
               /\ o.status = "assessed" \/ Verdict # "proceed"
               /\ o.status = "assessed" => VerdictRank(o.verdict) <= VerdictRank(Verdict)

\* check_evidence, of the report in a directory.
Verifies(d) ==
    /\ d.report \notin {Nothing, Torn}
    /\ d.migration = d.report
    /\ d.online => d.snapshot = d.report

\* A report is never there before its evidence is, whatever was there before
\* and wherever a run is killed; the directory an outcome names holds the
\* report of that run, and all reports of a run are online or none is
\* (runner.py:719).
EvidenceBehindReports ==
    /\ \A d \in Directories : disk[d].report = runs /\ runs > 0 =>
          Verifies(disk[d]) /\ disk[d].online = Online
    /\ \A o \in outcomes : o.directory # NoDirectory => disk[o.directory].report = runs

\* A run that could not be performed says so by its exit code, and by nothing
\* else: no verdict of it reaches the pull request; and the exit codes that
\* are verdicts are those of runs that reported theirs (runner.py:101).  What
\* breaks off while it publishes is CiPublish's PublishingNeverFatal.
ToolErrorIsNoVerdict ==
    at = "idle" /\ runs > 0 =>
        /\ exit = ExitToolError => published # runs
        /\ Concluded => published = runs

\* A run ends, however many pages there are and whatever fails.
RunEnds == at # "idle" ~> at = "idle"
=============================================================================
