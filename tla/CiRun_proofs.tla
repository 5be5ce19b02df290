----------------------------- MODULE CiRun_proofs -----------------------------
(***************************************************************************)
(* Proofs about CiRun, for every pull request, every set of jobs and       *)
(* whatever goes wrong in them.                                            *)
(***************************************************************************)
EXTENDS CiRun, Numbers, FiniteSetTheorems, TLAPS

(***************************************************************************)
(* How a path is printed leaves its place in the pull request alone.       *)
(***************************************************************************)
LEMMA PathsAre ==
    /\ Files \subseteq Paths
    /\ \A f \in Files : Printed(f) \in Paths
    /\ \A p \in Paths : p.path \in Nat
<1>1. Files \subseteq Paths /\ \A f \in Files : Printed(f) \in Paths  BY DEF Paths
<1>2. ASSUME NEW f \in Files PROVE f.path \in Nat /\ Printed(f).path \in Nat
    <2>1. f \in FileType  BY FilesAssumption
    <2> QED BY <2>1 DEF FileType, Printed
<1> QED BY <1>1, <1>2 DEF Paths

(***************************************************************************)
(* Among some paths there is a first, in the order of the pull request.    *)
(***************************************************************************)
LEMMA FirstIsOne ==
    ASSUME NEW S \in SUBSET Paths, S # {}
    PROVE  First(S) \in S
<1> DEFINE paths == {f.path : f \in S}
<1>1. paths \in SUBSET Nat /\ paths # {}  BY PathsAre
<1> HIDE DEF paths
<1>2. PICK n \in paths : \A m \in paths : n <= m  BY <1>1, LeastNumber
<1>3. \E f \in S : \A g \in S : f.path <= g.path  BY <1>2 DEF paths
<1> QED BY <1>3 DEF First

(***************************************************************************)
(* The verdict of a run is one, and its exit code is not that of an error. *)
(***************************************************************************)
LEMMA WorstVerdict ==
    ASSUME NEW V \in SUBSET FileVerdicts, V # {}
    PROVE  RunVerdict(V) \in V /\ \A u \in V : VerdictRank(u) <= VerdictRank(RunVerdict(V))
<1>1. \E v \in V : \A u \in V : VerdictRank(u) <= VerdictRank(v)
    <2>1. CASE "block" \in V  BY <2>1 DEF FileVerdicts, VerdictRank
    <2>2. CASE "block" \notin V /\ "requires_approval" \in V
        BY <2>2 DEF FileVerdicts, VerdictRank
    <2>3. CASE V = {"proceed"}  BY <2>3 DEF VerdictRank
    <2> QED BY <2>1, <2>2, <2>3 DEF FileVerdicts
<1> QED BY <1>1 DEF RunVerdict

LEMMA VerdictConcludes ==
    ASSUME NEW V \in SUBSET FileVerdicts, NEW failOn
    PROVE  ExitCode(RunVerdict(V), failOn) \in ExitCodes \ {ExitToolError}
<1>1. RunVerdict(V) \in FileVerdicts
    <2>1. CASE V = {}  BY <2>1 DEF RunVerdict, FileVerdicts
    <2>2. CASE V # {}  BY <2>2, WorstVerdict
    <2> QED BY <2>1, <2>2
<1>2. VerdictRank(RunVerdict(V)) \in 0..2  BY <1>1 DEF FileVerdicts, VerdictRank
<1> QED BY <1>2 DEF ExitCode, ExitCodes, ExitToolError

LEMMA SomeSource ==
    ChangedFrom(job) \in {"explicit", "file", "github_api", "git", "refused"}
BY DEF ChangedFrom

-----------------------------------------------------------------------------
(***************************************************************************)
(* Where a run is, beyond the types: it starts reading pages at the first, *)
(* is numbered from one, and publishes once, after all else.               *)
(***************************************************************************)
Underway ==
    /\ at \in {"config", "changed"} => page = 0
    /\ at = "pages" => page < MaxPages
    /\ at # "idle" => runs >= 1
    /\ published <= runs
    /\ at \notin {"idle", "end"} => published # runs
    /\ at = "end" => published = runs

(***************************************************************************)
(* What is written of a file, and what is still to be.                     *)
(***************************************************************************)
Writing ==
    at = "write" =>
        /\ writing.file \in parsed \ Assessed
        /\ writing = [file |-> writing.file, verdict |-> writing.verdict, names |-> writing.names]
        /\ \/ writing.names = WriteOrder
           \/ /\ Online /\ writing.names = <<"snapshot", "report">>
              /\ disk[Directory].migration = runs
           \/ /\ writing.names = <<"report">>
              /\ disk[Directory].migration = runs
              /\ Online => disk[Directory].snapshot = runs

(***************************************************************************)
(* What was assessed was parsed before, and has a verdict.                 *)
(***************************************************************************)
Grounded ==
    \A o \in outcomes : o.status = "assessed" => o.file \in parsed /\ o.verdict \in FileVerdicts

Stored == [migration : Bytes, snapshot : Bytes, report : Bytes, online : BOOLEAN]
Names == {"migration", "snapshot", "report"}

LEMMA RunConcludes ==
    ASSUME TypeOK, Grounded
    PROVE  ExitCode(Verdict, FailOn) \in ExitCodes \ {ExitToolError}
<1> DEFINE V == {EffectiveVerdict(o) : o \in outcomes}
<1>1. V \in SUBSET FileVerdicts
    <2> SUFFICES ASSUME NEW o \in outcomes PROVE EffectiveVerdict(o) \in FileVerdicts  OBVIOUS
    <2> QED BY DEF EffectiveVerdict, Grounded, FileVerdicts
<1> HIDE DEF V
<1>2. ExitCode(RunVerdict(V), FailOn) \in ExitCodes \ {ExitToolError}
    BY <1>1, VerdictConcludes
<1> QED BY <1>2 DEF Verdict, V

LEMMA AssessedIs ==
    ASSUME TypeOK
    PROVE  /\ Assessed \subseteq Files /\ IsFiniteSet(Assessed)
           /\ Cardinality(Assessed) \in Nat /\ Cardinality(Assessed) <= Cardinality(Files)
           /\ Cardinality(Files) \in Nat
           /\ Assessed # Files => Cardinality(Assessed) < Cardinality(Files)
<1>1. Assessed \subseteq Files  BY DEF TypeOK, Outcomes, Assessed
<1>2. Cardinality(Files) \in Nat  BY FilesAssumption, FS_CardinalityType
<1>3. /\ IsFiniteSet(Assessed) /\ Cardinality(Assessed) <= Cardinality(Files)
      /\ Cardinality(Assessed) = Cardinality(Files) => Assessed = Files
    <2>1. Assessed \in SUBSET Files  BY <1>1
    <2> QED BY <2>1, FilesAssumption, FS_Subset, Zenon
<1>4. Cardinality(Assessed) \in Nat  BY <1>3, FS_CardinalityType
<1> QED BY <1>1, <1>2, <1>3, <1>4

LEMMA DirectoryIs ==
    ASSUME TypeOK, writing.file \in Files \ Assessed
    PROVE  Directory \in Directories /\ Directory[1] = Cardinality(Assessed) + 1
<1>1. Cardinality(Assessed) + 1 \in 1..Cardinality(Files)  BY AssessedIs
<1> QED BY <1>1 DEF Directory, Directories

(***************************************************************************)
(* Put writes one file of the directory the run is at and leaves the rest. *)
(***************************************************************************)
LEMMA PutIs ==
    ASSUME TypeOK, writing.file \in Files \ Assessed,
           NEW name \in Names, NEW bytes \in Bytes, Put(name, bytes)
    PROVE  /\ disk' \in [Directories -> Stored]
           /\ \A d \in Directories : d # Directory => disk'[d] = disk[d]
           /\ name = "migration" =>
                 /\ disk'[Directory].migration = bytes
                 /\ disk'[Directory].report = disk[Directory].report
           /\ name = "snapshot" =>
                 /\ disk'[Directory].snapshot = bytes
                 /\ disk'[Directory].migration = disk[Directory].migration
                 /\ disk'[Directory].report = disk[Directory].report
           /\ name = "report" =>
                 /\ disk'[Directory].report = bytes /\ disk'[Directory].online = Online
                 /\ disk'[Directory].migration = disk[Directory].migration
                 /\ disk'[Directory].snapshot = disk[Directory].snapshot
<1>1. Directory \in Directories  BY DirectoryIs
<1>2. disk \in [Directories -> Stored]  BY DEF TypeOK, Stored
<1>3. disk[Directory] \in Stored  BY <1>1, <1>2
<1>4. Online \in BOOLEAN  BY DEF Online
<1> DEFINE new == IF name = "report"
                  THEN [disk[Directory] EXCEPT !.report = bytes, !.online = Online]
                  ELSE [disk[Directory] EXCEPT ![name] = bytes]
<1>5. disk' = [disk EXCEPT ![Directory] = new]  BY DEF Put
<1>6. /\ new \in Stored
      /\ name = "migration" => new.migration = bytes /\ new.report = disk[Directory].report
      /\ name = "snapshot" => /\ new.snapshot = bytes /\ new.report = disk[Directory].report
                              /\ new.migration = disk[Directory].migration
      /\ name = "report" => /\ new.report = bytes /\ new.online = Online
                            /\ new.migration = disk[Directory].migration
                            /\ new.snapshot = disk[Directory].snapshot
    BY <1>3, <1>4 DEF Stored, Names
<1> HIDE DEF new
<1> QED BY <1>1, <1>2, <1>5, <1>6

-----------------------------------------------------------------------------
(***************************************************************************)
(* Every step keeps the types and knows where the run is.                  *)
(***************************************************************************)
LEMMA AssessedTyped ==
    ASSUME TypeOK, NEW f \in Files, NEW verdict \in FileVerdicts,
           NEW directory \in Directories \cup {NoDirectory}
    PROVE  outcomes \cup {OutcomeOf(f, "assessed", verdict, directory)} \subseteq Outcomes
<1>1. OutcomeOf(f, "assessed", verdict, directory) \in Outcomes  BY DEF OutcomeOf, Outcomes
<1> QED BY <1>1 DEF TypeOK

LEMMA RefusedTyped ==
    ASSUME TypeOK, NEW p \in Paths, NEW status \in {"unsupported", "error"}
    PROVE  outcomes \cup {OutcomeOf(p, status, "none", NoDirectory)} \subseteq Outcomes
<1>1. OutcomeOf(p, status, "none", NoDirectory) \in Outcomes  BY DEF OutcomeOf, Outcomes
<1> QED BY <1>1 DEF TypeOK

LEMMA BreakDownTyped ==
    ASSUME TypeOK, Underway, at # "idle", at # "end", BreakDown
    PROVE  /\ at' = "idle" /\ runs' = runs /\ published' = published /\ disk' = disk
           /\ at' \in Stages /\ exit' \in ExitCodes \cup {Running, Killed}
           /\ Underway'
<1>1. /\ at' = "idle" /\ exit' = 3 /\ runs' = runs /\ published' = published /\ disk' = disk
    BY DEF BreakDown, BreakdownCode, ExitToolError
<1>2. Underway'  BY <1>1 DEF Underway
<1> QED BY <1>1, <1>2 DEF Stages, ExitCodes, ExitToolError

(* What Go leaves alone. *)
LEMMA GoTyped ==
    ASSUME TypeOK, NEW stage \in Stages, Go(stage)
    PROVE  /\ at' = stage /\ runs' = runs /\ exit' = exit /\ published' = published
           /\ disk' = disk
           /\ runs' \in 0..MaxRuns /\ at' \in Stages
           /\ exit' \in ExitCodes \cup {Running, Killed} /\ published' \in 0..MaxRuns
           /\ disk' \in [Directories -> Stored]
BY DEF Go, TypeOK, Stored

LEMMA EventsTyped ==
    ASSUME TypeOK, Well \/ Wrong
    PROVE  events' \in 0..MaxEvents
BY BoundsAssumption DEF TypeOK, Well, Wrong

LEMMA ListingStep ==
    ASSUME TypeOK, Underway,
           ReadConfig \/ ResolveChanged \/ ReadPage \/ GitDiff \/ DetectMigrations
    PROVE  TypeOK' /\ Underway'
<1>0. /\ Kept(Files) \subseteq Paths /\ Detected(changed, config) \subseteq changed
      /\ \A n : Kept(Page(n)) \subseteq Paths
      /\ {Printed(f) : f \in Kept(Files)} \subseteq Paths
    BY DEF Kept, Detected, Page, Paths
<1>1. CASE ReadConfig
    <2>1. BreakDown \/ Go("changed")  BY <1>1 DEF ReadConfig
    <2>2. at = "config" /\ page = 0  BY <1>1 DEF ReadConfig, Underway
    <2>3. UNCHANGED <<job, page, changed, left, parsed, outcomes, snapshot, writing>> /\ Well
        BY <1>1 DEF ReadConfig, progress
    <2>4. CASE BreakDown
        BY <2>2, <2>3, <2>4, BreakDownTyped, EventsTyped DEF TypeOK, Outcomes
    <2>5. CASE Go("changed")
        <3>1. Underway'  BY <2>2, <2>3, <2>5 DEF Underway, Go
        <3> QED BY <2>3, <2>5, <3>1, GoTyped, EventsTyped DEF TypeOK, Stages, Stored
    <2> QED BY <2>1, <2>4, <2>5
<1>2. CASE ResolveChanged
    <2>1. at = "changed" /\ page = 0 /\ Well  BY <1>2 DEF ResolveChanged, Underway
    <2>2. UNCHANGED <<job, config, page, left, parsed, outcomes, snapshot, writing>>
        BY <1>2 DEF ResolveChanged
    <2>3. changed' \subseteq Paths /\ (BreakDown \/ \E q \in {"detect", "pages", "git"} : Go(q))
        <3>1. changed \subseteq Paths  BY DEF TypeOK
        <3>2. CASE ChangedFrom(job) = "explicit"  BY <1>0, <1>2, <3>2 DEF ResolveChanged
        <3>3. CASE ChangedFrom(job) = "file"  BY <1>0, <1>2, <3>1, <3>3 DEF ResolveChanged
        <3>4. CASE ChangedFrom(job) = "github_api"  BY <1>2, <3>1, <3>4 DEF ResolveChanged
        <3>5. CASE ChangedFrom(job) = "git"  BY <1>2, <3>1, <3>5 DEF ResolveChanged, UseGit
        <3>6. CASE ChangedFrom(job) = "refused"  BY <1>2, <3>1, <3>6 DEF ResolveChanged
        <3> QED BY <3>2, <3>3, <3>4, <3>5, <3>6, SomeSource
    <2>4. CASE BreakDown
        BY <2>1, <2>2, <2>3, <2>4, BreakDownTyped, EventsTyped DEF TypeOK, Outcomes
    <2>5. ASSUME NEW q \in {"detect", "pages", "git"}, Go(q) PROVE TypeOK' /\ Underway'
        <3>1. Underway'  BY <2>1, <2>2, <2>5, BoundsAssumption DEF Underway, Go
        <3> QED BY <2>1, <2>2, <2>3, <2>5, <3>1, GoTyped, EventsTyped DEF TypeOK, Stages, Stored
    <2> QED BY <2>3, <2>4, <2>5
<1>3. CASE ReadPage
    <2>1. at = "pages" /\ page < MaxPages /\ page \in 0..MaxPages /\ MaxPages \in Nat
        BY <1>3, BoundsAssumption DEF ReadPage, Underway, TypeOK
    <2>2. UNCHANGED <<job, config, left, parsed, outcomes, snapshot, writing>> /\ (Well \/ Wrong)
        BY <1>3 DEF ReadPage
    <2>3. /\ changed' \subseteq Paths /\ page' \in 0..MaxPages
          /\ \/ BreakDown \/ Go("detect") \/ Go("git")
             \/ Go("pages") /\ page' < MaxPages
        <3>1. changed \subseteq Paths  BY DEF TypeOK
        <3>2. CASE page' = NextPage
            <4>1. page' = page + 1 /\ page' \in 0..MaxPages  BY <2>1, <3>2 DEF NextPage
            <4>2. CASE IsLastPage(page + 1)
                BY <1>0, <1>3, <2>1, <3>1, <4>1, <4>2 DEF ReadPage, UseGit
            <4>3. CASE ~IsLastPage(page + 1)
                <5>1. page + 1 < MaxPages  BY <2>1, <4>3 DEF IsLastPage
                <5> QED BY <1>0, <1>3, <2>1, <3>1, <4>1, <4>3, <5>1 DEF ReadPage, UseGit
            <4> QED BY <4>2, <4>3
        <3>3. CASE page' = page /\ changed' = {}  /\ (BreakDown \/ UseGit)
            BY <2>1, <3>3 DEF UseGit
        <3> QED BY <1>3, <3>2, <3>3 DEF ReadPage
    <2>4. CASE BreakDown
        BY <2>1, <2>2, <2>3, <2>4, BreakDownTyped, EventsTyped DEF TypeOK, Outcomes
    <2>5. ASSUME NEW q \in {"detect", "pages", "git"}, Go(q), q = "pages" => page' < MaxPages
          PROVE  TypeOK' /\ Underway'
        <3>1. Underway'  BY <2>1, <2>2, <2>5 DEF Underway, Go
        <3> QED BY <2>1, <2>2, <2>3, <2>5, <3>1, GoTyped, EventsTyped DEF TypeOK, Stages, Stored
    <2> QED BY <2>3, <2>4, <2>5
<1>4. CASE GitDiff
    <2>1. at = "git" /\ (Well \/ Wrong)  BY <1>4 DEF GitDiff
    <2>2. UNCHANGED <<job, config, page, left, parsed, outcomes, snapshot, writing>>
        BY <1>4 DEF GitDiff
    <2>3. changed' \subseteq Paths /\ (BreakDown \/ Go("detect"))
        BY <1>0, <1>4 DEF GitDiff, TypeOK
    <2>4. CASE BreakDown
        BY <2>1, <2>2, <2>3, <2>4, BreakDownTyped, EventsTyped DEF TypeOK, Outcomes
    <2>5. CASE Go("detect")
        <3>1. Underway'  BY <2>1, <2>2, <2>5 DEF Underway, Go
        <3> QED BY <2>1, <2>2, <2>3, <2>5, <3>1, GoTyped, EventsTyped DEF TypeOK, Stages, Stored
    <2> QED BY <2>3, <2>4, <2>5
<1>5. CASE DetectMigrations
    <2>1. at = "detect" /\ Well  BY <1>5 DEF DetectMigrations
    <2>2. UNCHANGED <<job, config, page, changed, parsed, outcomes, snapshot, writing>>
        BY <1>5 DEF DetectMigrations
    <2>3. left' \subseteq Paths /\ (BreakDown \/ Go("parse"))
        BY <1>0, <1>5 DEF DetectMigrations, TypeOK
    <2>4. CASE BreakDown
        BY <2>1, <2>2, <2>3, <2>4, BreakDownTyped, EventsTyped DEF TypeOK, Outcomes
    <2>5. CASE Go("parse")
        <3>1. Underway'  BY <2>1, <2>2, <2>5 DEF Underway, Go
        <3> QED BY <2>1, <2>2, <2>3, <2>5, <3>1, GoTyped, EventsTyped DEF TypeOK, Stages, Stored
    <2> QED BY <2>3, <2>4, <2>5
<1> QED BY <1>1, <1>2, <1>3, <1>4, <1>5

LEMMA JudgingStep ==
    ASSUME TypeOK, Underway, Writing, Grounded,
           \/ ParseNext \/ AllParsed \/ CaptureSnapshot \/ AssessNext \/ WriteNext \/ AllAssessed
    PROVE  TypeOK' /\ Underway'
<1>1. CASE ParseNext
    <2>1. at = "parse" /\ Go("parse") /\ left # {} /\ left \in SUBSET Paths
        BY <1>1 DEF ParseNext, TypeOK
    <2>2. UNCHANGED <<job, config, page, changed, snapshot, writing>>  BY <1>1 DEF ParseNext
    <2>3. First(left) \in Paths  BY <2>1, FirstIsOne
    <2>4. /\ left' \subseteq Paths /\ parsed' \subseteq Files /\ outcomes' \subseteq Outcomes
          /\ Well \/ Wrong
        <3> DEFINE f == First(left)
        <3>1. /\ outcomes \cup {OutcomeOf(f, "error", "none", NoDirectory)} \subseteq Outcomes
              /\ outcomes \cup {OutcomeOf(f, "unsupported", "none", NoDirectory)} \subseteq Outcomes
              /\ outcomes \subseteq Outcomes /\ parsed \subseteq Files
            BY <2>3, RefusedTyped DEF TypeOK
        <3>2. left' = left \ {f} /\ (Well \/ Wrong)  BY <1>1 DEF ParseNext
        <3>3. parsed' = parsed \/ (f \in Files /\ parsed' = parsed \cup {f})  BY <1>1 DEF ParseNext
        <3>4. \/ outcomes' = outcomes
              \/ outcomes' = outcomes \cup {OutcomeOf(f, "error", "none", NoDirectory)}
              \/ outcomes' = outcomes \cup {OutcomeOf(f, "unsupported", "none", NoDirectory)}
            BY <1>1 DEF ParseNext
        <3> HIDE DEF f
        <3> QED BY <2>1, <2>3, <3>1, <3>2, <3>3, <3>4 DEF f
    <2>5. Underway'  BY <2>1, <2>2 DEF Underway, Go
    <2> QED BY <2>1, <2>2, <2>4, <2>5, GoTyped, EventsTyped DEF TypeOK, Stages, Stored
<1>2. CASE AllParsed
    <2>1. at = "parse" /\ Well /\ UNCHANGED progress  BY <1>2 DEF AllParsed
    <2>2. PICK q \in {"capture", "assess"} : Go(q)  BY <1>2 DEF AllParsed
    <2>3. Underway'  BY <2>1, <2>2 DEF Underway, Go, progress
    <2> QED BY <2>1, <2>2, <2>3, GoTyped, EventsTyped DEF TypeOK, Stages, Stored, progress
<1>3. CASE CaptureSnapshot
    <2>1. /\ at = "capture" /\ Go("assess") /\ (Well \/ Wrong) /\ snapshot' \in {runs, Degraded}
          /\ UNCHANGED <<job, config, page, changed, left, parsed, outcomes, writing>>
        BY <1>3 DEF CaptureSnapshot
    <2>2. runs \in 1..MaxRuns  BY <2>1, BoundsAssumption DEF Underway, TypeOK
    <2>3. Underway'  BY <2>1 DEF Underway, Go
    <2> QED BY <2>1, <2>2, <2>3, GoTyped, EventsTyped DEF TypeOK, Stages, Stored
<1>4. CASE AssessNext
    <2> DEFINE f == First(parsed \ Assessed)
    <2>1. /\ at = "assess" /\ Go("write") /\ Well
          /\ UNCHANGED <<job, config, page, changed, left, parsed, outcomes, snapshot>>
        BY <1>4 DEF AssessNext
    <2>2. PICK v \in Judged[f] : writing' = [file |-> f, verdict |-> v, names |-> WriteOrder]
        BY <1>4 DEF AssessNext
    <2>3. f \in Files
        <3>1. parsed \ Assessed \in SUBSET Files  BY DEF TypeOK
        <3>2. parsed \ Assessed # {}  BY <1>4 DEF AssessNext, Grounded, Assessed
        <3> QED BY <3>1, <3>2, PathsAre, FirstIsOne
    <2>4. v \in FileVerdicts  BY <2>2, <2>3, JudgedAssumption
    <2>5. writing'.file \in Files /\ writing'.verdict \in FileVerdicts  BY <2>2, <2>3, <2>4
    <2>6. Underway'  BY <2>1 DEF Underway, Go
    <2> QED BY <2>1, <2>5, <2>6, GoTyped, EventsTyped DEF TypeOK, Stages, Stored
<1>5. CASE WriteNext
    <2>1. at = "write" /\ writing.file \in Files \ Assessed  BY <1>5 DEF WriteNext, Writing, TypeOK
    <2>2. Head(writing.names) \in Names
        BY <2>1 DEF Writing, WriteOrder, Names
    <2>3. UNCHANGED <<runs, exit, published, job, config, page, changed, left, parsed, snapshot>>
        BY <1>5 DEF WriteNext
    <2>4. disk' \in [Directories -> Stored]
        <3>1. runs \in Bytes /\ Torn \in Bytes
            BY <2>1, BoundsAssumption DEF Underway, TypeOK, Bytes
        <3>2. \/ Put(Head(writing.names), runs) \/ Put(Head(writing.names), Torn)
              \/ UNCHANGED disk
            BY <1>5 DEF WriteNext
        <3> QED BY <2>1, <2>2, <3>1, <3>2, PutIs DEF TypeOK, Stored
    <2>5. /\ at' \in {"write", "assess"} /\ outcomes' \subseteq Outcomes /\ (Well \/ Wrong)
          /\ writing'.file \in Files \cup {NoFile} /\ writing'.verdict \in FileVerdicts
        <3>1. writing.verdict \in FileVerdicts /\ outcomes \subseteq Outcomes  BY DEF TypeOK
        <3>2. Directory \in Directories  BY <2>1, DirectoryIs
        <3>3. \A d \in {Directory, NoDirectory} : Assess(d) =>
                  at' \in {"write", "assess"} /\ outcomes' \subseteq Outcomes /\ writing' = NotWriting
            BY <2>1, <3>1, <3>2, AssessedTyped DEF Assess
        <3>4. NotWriting.file = NoFile /\ NotWriting.verdict \in FileVerdicts
            BY DEF NotWriting, FileVerdicts
        <3>5. CASE Assess(Directory) \/ Assess(NoDirectory)
            BY <1>5, <3>3, <3>4, <3>5 DEF WriteNext
        <3>6. CASE /\ at' = "write" /\ writing' = [writing EXCEPT !.names = Tail(@)]
                   /\ UNCHANGED outcomes /\ Well
            BY <2>1, <3>1, <3>6
        <3> QED BY <1>5, <3>5, <3>6 DEF WriteNext
    <2>6. Underway'  BY <2>1, <2>3, <2>5 DEF Underway
    <2> QED BY <2>3, <2>4, <2>5, <2>6, EventsTyped DEF TypeOK, Stages, Stored
<1>6. CASE AllAssessed
    <2>1. at = "assess" /\ Well /\ UNCHANGED progress /\ Go("publish")  BY <1>6 DEF AllAssessed
    <2>2. Underway'  BY <2>1 DEF Underway, Go, progress
    <2> QED BY <2>1, <2>2, GoTyped, EventsTyped DEF TypeOK, Stages, Stored, progress
<1> QED BY <1>1, <1>2, <1>3, <1>4, <1>5, <1>6

LEMMA EndingStep ==
    ASSUME TypeOK, Underway, Writing, Grounded, Start \/ Publish \/ End \/ Raise \/ Kill
    PROVE  TypeOK' /\ Underway'
<1>1. CASE Start
    <2>1. /\ at' = "config" /\ runs' = runs + 1 /\ runs < MaxRuns /\ exit' = Running
          /\ job' \in Jobs /\ page' = 0 /\ changed' = {} /\ left' = {} /\ parsed' = {}
          /\ outcomes' = {} /\ snapshot' = NotAsked /\ writing' = NotWriting
          /\ UNCHANGED <<events, published, disk>> /\ at = "idle"
        BY <1>1 DEF Start
    <2>2. runs' \in 0..MaxRuns /\ page' \in 0..MaxPages /\ published <= runs /\ runs \in Nat
          /\ published \in Nat
        BY <2>1, BoundsAssumption DEF TypeOK, Underway
    <2>3. NotWriting.file = NoFile /\ NotWriting.verdict \in FileVerdicts
        BY DEF NotWriting, FileVerdicts
    <2>4. Underway'  BY <2>1, <2>2 DEF Underway
    <2> QED BY <2>1, <2>2, <2>3, <2>4 DEF TypeOK, Stages, Outcomes
<1>2. CASE Publish
    <2>1. /\ at = "publish" /\ at' = "end" /\ published' = runs /\ Well
          /\ UNCHANGED <<runs, exit, disk, progress>>
        BY <1>2 DEF Publish
    <2>2. Underway'  BY <2>1 DEF Underway, TypeOK, progress
    <2> QED BY <2>1, <2>2, EventsTyped DEF TypeOK, Stages, progress
<1>3. CASE End
    <2>1. /\ at = "end" /\ at' = "idle" /\ exit' = ExitCode(Verdict, FailOn) /\ Well
          /\ UNCHANGED <<runs, published, disk, progress>>
        BY <1>3 DEF End
    <2>2. exit' \in ExitCodes \ {ExitToolError}  BY <2>1, RunConcludes
    <2>3. Underway'  BY <2>1 DEF Underway, progress
    <2> QED BY <2>1, <2>2, <2>3, EventsTyped DEF TypeOK, Stages, progress
<1>4. CASE Raise
    <2>1. at # "idle" /\ at # "end" /\ BreakDown /\ Wrong /\ UNCHANGED progress
        BY <1>4 DEF Raise
    <2> QED BY <2>1, BreakDownTyped, EventsTyped DEF TypeOK, progress
<1>5. CASE Kill
    <2>1. /\ at \notin {"idle", "end"} /\ Wrong /\ at' = "idle" /\ exit' = Killed
          /\ UNCHANGED <<runs, published, progress>>
        BY <1>5 DEF Kill
    <2>2. disk' \in [Directories -> Stored]
        <3>1. CASE at = "write"
            <4>1. writing.file \in Files \ Assessed /\ Head(writing.names) \in Names
                BY <3>1 DEF Writing, TypeOK, WriteOrder, Names
            <4>2. Put(Head(writing.names), Torn) /\ Torn \in Bytes  BY <1>5, <3>1 DEF Kill, Bytes
            <4> QED BY <4>1, <4>2, PutIs
        <3>2. CASE at # "write"  BY <1>5, <3>2 DEF Kill, TypeOK, Stored
        <3> QED BY <3>1, <3>2
    <2>3. Underway'  BY <2>1 DEF Underway, progress
    <2> QED BY <2>1, <2>2, <2>3, EventsTyped DEF TypeOK, Stages, Stored, progress
<1> QED BY <1>1, <1>2, <1>3, <1>4, <1>5

LEMMA TypeStep ==
    ASSUME TypeOK, Underway, Writing, Grounded, [Next]_vars
    PROVE  TypeOK' /\ Underway'
<1>1. CASE UNCHANGED vars
    <2>1. Assessed' = Assessed  BY <1>1 DEF vars, progress, Assessed
    <2> QED BY <1>1, <2>1 DEF vars, progress, TypeOK, Underway
<1> QED BY <1>1, ListingStep, JudgingStep, EndingStep DEF Next, Step

-----------------------------------------------------------------------------
(***************************************************************************)
(* What the reports on disk have to do with the run.  Until it assesses    *)
(* there is none of it; while it does, its reports are in directories      *)
(* numbered up to the files it has assessed, so the next is another one.   *)
(***************************************************************************)
Before == {"config", "changed", "pages", "git", "detect", "parse", "capture"}
Ledger ==
    /\ \A d \in Directories : disk[d].report <= runs
    /\ at \in Before =>
          /\ \A o \in outcomes : o.status # "assessed"
          /\ \A d \in Directories : disk[d].report # runs
    /\ \A o \in outcomes : o.directory # NoDirectory => o.status = "assessed"
    /\ at \in {"assess", "write"} =>
          \A d \in Directories : disk[d].report = runs => d[1] <= Cardinality(Assessed)

Backed == Writing /\ Grounded /\ Ledger /\ EvidenceBehindReports

(* A step that writes nothing and assesses nothing. *)
LEMMA QuietStep ==
    ASSUME TypeOK, Backed,
           UNCHANGED <<runs, disk, outcomes, snapshot>>, parsed \subseteq parsed',
           at' # "write", at' \in Before => at \in Before,
           at' = "assess" => at \in Before \cup {"assess"}
    PROVE  Backed'
<1>1. Assessed' = Assessed /\ Online' = Online  BY DEF Assessed, Online
<1>2. Writing'  BY DEF Writing
<1>3. Grounded'  BY DEF Backed, Grounded
<1>4. Ledger'  BY <1>1 DEF Backed, Ledger
<1>5. EvidenceBehindReports'  BY <1>1 DEF Backed, EvidenceBehindReports
<1> QED BY <1>2, <1>3, <1>4, <1>5 DEF Backed

LEMMA ListingBacked ==
    ASSUME TypeOK, Backed,
           ReadConfig \/ ResolveChanged \/ ReadPage \/ GitDiff \/ DetectMigrations
    PROVE  Backed'
<1>1. /\ at \in Before /\ UNCHANGED <<runs, disk, outcomes, snapshot, parsed>>
      /\ at' \in Before \cup {"idle"}
    <2>1. CASE ReadConfig
        BY <2>1 DEF ReadConfig, Go, BreakDown, progress, Before
    <2>2. CASE ResolveChanged
        <3>1. BreakDown \/ Go("detect") \/ Go("pages") \/ Go("git")
            BY <2>2, SomeSource DEF ResolveChanged, UseGit
        <3>2. at = "changed" /\ UNCHANGED <<outcomes, snapshot, parsed>>  BY <2>2 DEF ResolveChanged
        <3> QED BY <3>1, <3>2 DEF Go, BreakDown, Before
    <2>3. CASE ReadPage
        <3>1. BreakDown \/ Go("detect") \/ Go("pages") \/ Go("git")
            BY <2>3 DEF ReadPage, UseGit
        <3>2. at = "pages" /\ UNCHANGED <<outcomes, snapshot, parsed>>  BY <2>3 DEF ReadPage
        <3> QED BY <3>1, <3>2 DEF Go, BreakDown, Before
    <2>4. CASE GitDiff
        BY <2>4 DEF GitDiff, Go, BreakDown, Before
    <2>5. CASE DetectMigrations
        BY <2>5 DEF DetectMigrations, Go, BreakDown, Before
    <2> QED BY <2>1, <2>2, <2>3, <2>4, <2>5
<1> QED BY <1>1, QuietStep DEF Before

LEMMA ParsingBacked ==
    ASSUME TypeOK, Backed, ParseNext
    PROVE  Backed'
<1>1. at = "parse" /\ at' = "parse" /\ UNCHANGED <<runs, disk, snapshot>>
    BY DEF ParseNext, Go
<1>2. parsed \subseteq parsed'  BY DEF ParseNext
<1>3. \A o \in outcomes' : o \in outcomes \/ (o.status # "assessed" /\ o.directory = NoDirectory)
    BY DEF ParseNext, OutcomeOf
<1>4. Online' = Online  BY <1>1 DEF Online
<1>5. Writing'  BY <1>1 DEF Writing
<1>6. Grounded'  BY <1>2, <1>3 DEF Backed, Grounded
<1>7. Ledger'  BY <1>1, <1>3 DEF Backed, Ledger, Before
<1>8. EvidenceBehindReports'  BY <1>1, <1>3, <1>4 DEF Backed, EvidenceBehindReports
<1> QED BY <1>5, <1>6, <1>7, <1>8 DEF Backed

(* The snapshot comes before every report of the run. *)
LEMMA CapturingBacked ==
    ASSUME TypeOK, Backed, CaptureSnapshot
    PROVE  Backed'
<1>1. at = "capture" /\ at' = "assess" /\ UNCHANGED <<runs, disk, outcomes, parsed>>
    BY DEF CaptureSnapshot, Go
<1>2. /\ \A o \in outcomes : o.status # "assessed" /\ o.directory = NoDirectory
      /\ \A d \in Directories : disk[d].report # runs
    BY <1>1 DEF Backed, Ledger, Before
<1>3. Writing' /\ Grounded'  BY <1>1 DEF Backed, Writing, Grounded
<1>4. Ledger'  BY <1>1, <1>2 DEF Backed, Ledger, Before
<1>5. EvidenceBehindReports'  BY <1>1, <1>2 DEF EvidenceBehindReports
<1> QED BY <1>3, <1>4, <1>5 DEF Backed

LEMMA AssessingBacked ==
    ASSUME TypeOK, Backed, AssessNext
    PROVE  Backed'
<1>1. at = "assess" /\ at' = "write" /\ UNCHANGED <<runs, disk, outcomes, snapshot, parsed>>
    BY DEF AssessNext, Go
<1>2. Assessed' = Assessed /\ Online' = Online  BY <1>1 DEF Assessed, Online
<1>3. writing'.file \in parsed' \ Assessed'
    <2>1. parsed \ Assessed \in SUBSET Files  BY DEF TypeOK
    <2>2. parsed \ Assessed # {}  BY DEF AssessNext, Backed, Grounded, Assessed
    <2>3. writing'.file = First(parsed \ Assessed)  BY DEF AssessNext
    <2> QED BY <1>1, <1>2, <2>1, <2>2, <2>3, PathsAre, FirstIsOne
<1>4. writing'.names = WriteOrder'
    <2>1. writing'.names = WriteOrder  BY DEF AssessNext
    <2> QED BY <1>2, <2>1 DEF WriteOrder
<1>5. Writing'
    <2>1. \E v : writing' = [file |-> writing'.file, verdict |-> v, names |-> writing'.names]
        BY DEF AssessNext
    <2>2. writing' = [file |-> writing'.file, verdict |-> writing'.verdict, names |-> writing'.names]
        BY <2>1
    <2> QED BY <1>3, <1>4, <2>2 DEF Writing
<1>6. Grounded'  BY <1>1 DEF Backed, Grounded
<1>7. Ledger'  BY <1>1, <1>2 DEF Backed, Ledger, Before
<1>8. EvidenceBehindReports'  BY <1>1, <1>2 DEF Backed, EvidenceBehindReports
<1> QED BY <1>5, <1>6, <1>7, <1>8 DEF Backed

(* The directory being written is nobody else's in this run. *)
LEMMA OwnDirectory ==
    ASSUME TypeOK, Underway, Backed, at = "write"
    PROVE  /\ writing.file \in Files \ Assessed
           /\ Directory \in Directories /\ Directory[1] = Cardinality(Assessed) + 1
           /\ disk[Directory].report # runs
           /\ runs \in 1..MaxRuns /\ runs \in Bytes /\ Torn \in Bytes /\ Torn # runs
           /\ Head(writing.names) \in Names
<1>1. writing.file \in Files \ Assessed  BY DEF Backed, Writing, TypeOK
<1>2. Directory \in Directories /\ Directory[1] = Cardinality(Assessed) + 1
    BY <1>1, DirectoryIs
<1>3. Cardinality(Assessed) \in Nat  BY AssessedIs
<1>4. disk[Directory].report # runs  BY <1>2, <1>3 DEF Backed, Ledger
<1>5. runs \in 1..MaxRuns  BY BoundsAssumption DEF Underway, TypeOK
<1>6. Head(writing.names) \in Names  BY DEF Backed, Writing, WriteOrder, Names
<1> QED BY <1>1, <1>2, <1>4, <1>5, <1>6 DEF Bytes, Torn

(* One more file is assessed. *)
LEMMA AssessedGrows ==
    ASSUME TypeOK, writing.file \in Files \ Assessed, NEW directory, Assess(directory)
    PROVE  /\ Assessed' = Assessed \cup {writing.file}
           /\ Cardinality(Assessed') = Cardinality(Assessed) + 1
<1> DEFINE new == OutcomeOf(writing.file, "assessed", writing.verdict, directory)
<1>1. outcomes' = outcomes \cup {new}  BY DEF Assess
<1>2. new.status = "assessed" /\ new.file = writing.file  BY DEF OutcomeOf
<1> HIDE DEF new
<1>3. Assessed' = Assessed \cup {writing.file}  BY <1>1, <1>2 DEF Assessed
<1>4. IsFiniteSet(Assessed)  BY AssessedIs
<1> QED BY <1>3, <1>4, FS_AddElement

(* What is left to write, and what of the evidence is there. *)
LEMMA NamesAre ==
    ASSUME Backed, at = "write", Len(writing.names) > 1
    PROVE  LET name == Head(writing.names)
               rest == Tail(writing.names)
           IN  /\ writing.file \in parsed \ Assessed
               /\ \/ name = "migration" /\ Online /\ rest = <<"snapshot", "report">>
                  \/ name = "migration" /\ ~Online /\ rest = <<"report">>
                  \/ /\ name = "snapshot" /\ Online /\ rest = <<"report">>
                     /\ disk[Directory].migration = runs
<1>1. CASE writing.names = WriteOrder /\ Online
    BY <1>1 DEF WriteOrder, Backed, Writing
<1>2. CASE writing.names = WriteOrder /\ ~Online
    BY <1>2 DEF WriteOrder, Backed, Writing
<1>3. CASE Online /\ writing.names = <<"snapshot", "report">> /\ disk[Directory].migration = runs
    BY <1>3 DEF Backed, Writing
<1>4. CASE writing.names = <<"report">>  BY <1>4
<1> QED BY <1>1, <1>2, <1>3, <1>4 DEF Backed, Writing

(* A file of the evidence is written, and there is more to write. *)
LEMMA EvidenceBacked ==
    ASSUME TypeOK, Underway, Backed, at = "write", at' = "write",
           Put(Head(writing.names), runs), Len(writing.names) > 1,
           writing' = [writing EXCEPT !.names = Tail(@)],
           UNCHANGED <<outcomes, runs, snapshot, parsed>>
    PROVE  Backed'
<1> DEFINE name == Head(writing.names)
<1>1. /\ writing.file \in parsed \ Assessed
      /\ \/ name = "migration" /\ Online /\ Tail(writing.names) = <<"snapshot", "report">>
         \/ name = "migration" /\ ~Online /\ Tail(writing.names) = <<"report">>
         \/ /\ name = "snapshot" /\ Online /\ Tail(writing.names) = <<"report">>
            /\ disk[Directory].migration = runs
    BY NamesAre
<1>2. Assessed' = Assessed /\ Online' = Online  BY DEF Assessed, Online
<1>3. writing'.file = writing.file /\ writing'.names = Tail(writing.names) /\ Directory' = Directory
    <2>1. writing'.file = writing.file /\ writing'.names = Tail(writing.names)
        BY DEF Backed, Writing
    <2> QED BY <1>2, <2>1 DEF Directory
<1>4. name \in Names /\ Put(name, runs)  BY <1>1 DEF Names
<1> HIDE DEF name
<1>5. /\ \A d \in Directories : d # Directory => disk'[d] = disk[d]
      /\ disk'[Directory].report = disk[Directory].report
      /\ name = "migration" => disk'[Directory].migration = runs
      /\ name = "snapshot" => /\ disk'[Directory].snapshot = runs
                              /\ disk'[Directory].migration = disk[Directory].migration
    BY <1>1, <1>4, OwnDirectory, PutIs
<1>6. Writing'
    <2>1. writing' = [file |-> writing'.file, verdict |-> writing'.verdict, names |-> writing'.names]
        BY DEF Backed, Writing
    <2> QED BY <1>1, <1>2, <1>3, <1>5, <2>1 DEF Writing
<1>7. Grounded'  BY DEF Backed, Grounded
<1>8. \A d \in Directories : disk'[d].report = disk[d].report  BY <1>5
<1>9. Ledger'  BY <1>2, <1>8 DEF Backed, Ledger, Before
<1>10. EvidenceBehindReports'
    <2>1. disk[Directory].report # runs  BY OwnDirectory
    <2>2. \A d \in Directories : disk'[d].report = runs => disk'[d] = disk[d]
        BY <1>5, <1>8, <2>1
    <2>3. \A o \in outcomes : o.directory # NoDirectory => o.directory \in Directories
        BY DEF TypeOK, Outcomes
    <2> QED BY <1>2, <1>8, <2>2, <2>3 DEF Backed, EvidenceBehindReports
<1> QED BY <1>6, <1>7, <1>9, <1>10 DEF Backed

(* The report is written, behind its evidence. *)
LEMMA ReportBacked ==
    ASSUME TypeOK, Underway, Backed, at = "write",
           Put(Head(writing.names), runs), Len(writing.names) <= 1, Assess(Directory),
           UNCHANGED <<runs, snapshot, parsed>>
    PROVE  Backed'
<1>1. /\ writing.file \in parsed \ Assessed /\ Head(writing.names) = "report"
      /\ disk[Directory].migration = runs
      /\ Online => disk[Directory].snapshot = runs
    BY DEF Backed, Writing, WriteOrder
<1>2. at' = "assess" /\ Online' = Online  BY DEF Online, Assess
<1>3. Put("report", runs) /\ "report" \in Names  BY <1>1 DEF Names
<1>4. /\ \A d \in Directories : d # Directory => disk'[d] = disk[d]
      /\ disk'[Directory].report = runs /\ disk'[Directory].online = Online
      /\ disk'[Directory].migration = runs
      /\ Online => disk'[Directory].snapshot = runs
    BY <1>1, <1>3, OwnDirectory, PutIs
<1>5. /\ Cardinality(Assessed') = Cardinality(Assessed) + 1 /\ Cardinality(Assessed) \in Nat
      /\ Directory \in Directories /\ Directory[1] = Cardinality(Assessed) + 1
      /\ runs \in 1..MaxRuns
    BY OwnDirectory, AssessedGrows, AssessedIs
<1>6. \A o \in outcomes' :
          \/ o \in outcomes
          \/ /\ o.file = writing.file /\ o.status = "assessed" /\ o.verdict = writing.verdict
             /\ o.directory = Directory
    BY DEF Assess, OutcomeOf
<1>7. Writing'  BY <1>2 DEF Writing
<1>8. Grounded'  BY <1>1, <1>6 DEF Backed, Grounded, TypeOK
<1>9. Ledger'
    <2>1. \A d \in Directories : disk'[d].report <= runs
        BY <1>4, <1>5 DEF Backed, Ledger
    <2>2. \A d \in Directories : disk'[d].report = runs => d[1] <= Cardinality(Assessed')
        <3> SUFFICES ASSUME NEW d \in Directories, disk'[d].report = runs
                     PROVE  d[1] <= Cardinality(Assessed) + 1
            BY <1>5
        <3>1. CASE d = Directory  BY <1>5, <3>1
        <3>2. CASE d # Directory
            <4>1. d[1] <= Cardinality(Assessed)  BY <1>4, <3>2 DEF Backed, Ledger
            <4>2. d[1] \in Int  BY FilesAssumption DEF Directories
            <4> QED BY <1>5, <4>1, <4>2
        <3> QED BY <3>1, <3>2
    <2> QED BY <1>2, <1>6, <2>1, <2>2 DEF Backed, Ledger, Before
<1>10. EvidenceBehindReports'
    <2>1. \A d \in Directories : disk'[d].report = runs =>
              Verifies(disk'[d]) /\ disk'[d].online = Online
        <3> SUFFICES ASSUME NEW d \in Directories, disk'[d].report = runs
                     PROVE  Verifies(disk'[d]) /\ disk'[d].online = Online
            OBVIOUS
        <3>1. CASE d = Directory  BY <1>4, <1>5, <3>1 DEF Verifies, Nothing, Torn
        <3>2. CASE d # Directory  BY <1>4, <1>5, <3>2 DEF Backed, EvidenceBehindReports
        <3> QED BY <3>1, <3>2
    <2>2. \A o \in outcomes : o.directory # NoDirectory =>
              /\ o.directory \in Directories /\ o.directory # Directory
              /\ disk[o.directory].report = runs
        BY OwnDirectory DEF Backed, EvidenceBehindReports, TypeOK, Outcomes
    <2>3. \A o \in outcomes' : o.directory # NoDirectory => disk'[o.directory].report = runs
        BY <1>4, <1>6, <2>2
    <2> QED BY <1>2, <2>1, <2>3 DEF EvidenceBehindReports
<1> QED BY <1>7, <1>8, <1>9, <1>10 DEF Backed

(* A write that fails, or is torn when the job is killed, leaves no report *)
(* of this run where it was, and touches no other. *)
LEMMA TornIs ==
    ASSUME TypeOK, Underway, Backed, at = "write",
           Put(Head(writing.names), Torn) \/ UNCHANGED disk
    PROVE  /\ \A d \in Directories : disk'[d].report <= runs
           /\ \A d \in Directories : disk'[d].report = runs => disk'[d] = disk[d]
           /\ \A o \in outcomes : o.directory # NoDirectory =>
                 o.directory \in Directories /\ disk'[o.directory] = disk[o.directory]
<1>1. \A d \in Directories : d # Directory => disk'[d] = disk[d]
    BY OwnDirectory, PutIs
<1>2. disk'[Directory].report \in {Torn, disk[Directory].report}
    BY OwnDirectory, PutIs DEF Names
<1>3. \A o \in outcomes : o.directory # NoDirectory =>
          o.directory \in Directories /\ o.directory # Directory
    BY OwnDirectory DEF Backed, EvidenceBehindReports, TypeOK, Outcomes
<1>4. Torn <= runs /\ Torn # runs  BY OwnDirectory DEF Torn
<1>5. \A d \in Directories : disk[d].report <= runs  BY DEF Backed, Ledger
<1>6. disk[Directory].report # runs  BY OwnDirectory
<1> QED BY <1>1, <1>2, <1>3, <1>4, <1>5, <1>6

(* A file is assessed, its report is not there. *)
LEMMA FailedWriteBacked ==
    ASSUME TypeOK, Underway, Backed, at = "write",
           Put(Head(writing.names), Torn) \/ UNCHANGED disk, Assess(NoDirectory),
           UNCHANGED <<runs, snapshot, parsed>>
    PROVE  Backed'
<1>1. at' = "assess" /\ Online' = Online  BY DEF Online, Assess
<1>2. /\ Cardinality(Assessed') = Cardinality(Assessed) + 1 /\ Cardinality(Assessed) \in Nat
    BY OwnDirectory, AssessedGrows, AssessedIs
<1>3. \A o \in outcomes' :
          \/ o \in outcomes
          \/ /\ o.file = writing.file /\ o.status = "assessed" /\ o.verdict = writing.verdict
             /\ o.directory = NoDirectory
    BY DEF Assess, OutcomeOf
<1>4. Writing'  BY <1>1 DEF Writing
<1>5. Grounded'  BY <1>3 DEF Backed, Writing, Grounded, TypeOK
<1>6. Ledger'
    <2>1. \A d \in Directories : disk'[d].report = runs => d[1] <= Cardinality(Assessed')
        <3> SUFFICES ASSUME NEW d \in Directories, disk'[d].report = runs
                     PROVE  d[1] <= Cardinality(Assessed) + 1
            BY <1>2
        <3>1. d[1] <= Cardinality(Assessed)  BY TornIs DEF Backed, Ledger
        <3>2. d[1] \in Int  BY FilesAssumption DEF Directories
        <3> QED BY <1>2, <3>1, <3>2
    <2> QED BY <1>1, <1>3, <2>1, TornIs DEF Backed, Ledger, Before
<1>7. EvidenceBehindReports'
    BY <1>1, <1>3, TornIs DEF Backed, EvidenceBehindReports
<1> QED BY <1>4, <1>5, <1>6, <1>7 DEF Backed

LEMMA WritingBacked ==
    ASSUME TypeOK, Underway, Backed, WriteNext
    PROVE  Backed'
<1> DEFINE name == Head(writing.names)
<1>1. at = "write" /\ UNCHANGED <<runs, snapshot, parsed>>  BY DEF WriteNext
<1>2. \/ /\ Put(name, runs)
         /\ \/ /\ Len(writing.names) > 1 /\ at' = "write"
               /\ writing' = [writing EXCEPT !.names = Tail(@)] /\ UNCHANGED outcomes
            \/ ~(Len(writing.names) > 1) /\ Assess(Directory)
      \/ (Put(name, Torn) \/ UNCHANGED disk) /\ Assess(NoDirectory)
    BY DEF WriteNext
<1>3. ~(Len(writing.names) > 1) => Len(writing.names) <= 1
    BY <1>1 DEF Backed, Writing, WriteOrder
<1> QED BY <1>1, <1>2, <1>3, EvidenceBacked, ReportBacked, FailedWriteBacked

(* A new run: none of the reports on disk is its own. *)
LEMMA StartBacked ==
    ASSUME TypeOK, Underway, Backed, Start
    PROVE  Backed'
<1>1. /\ at' = "config" /\ runs' = runs + 1 /\ outcomes' = {} /\ UNCHANGED disk
    BY DEF Start
<1>2. \A d \in Directories : disk[d].report <= runs /\ disk[d].report \in Int
    <2>1. \A d \in Directories : disk[d].report \in Bytes  BY DEF TypeOK
    <2>2. Bytes \subseteq Int  BY DEF Bytes, Nothing, Torn
    <2> QED BY <2>1, <2>2 DEF Backed, Ledger
<1>3. runs \in Nat  BY DEF TypeOK
<1>4. \A d \in Directories : disk'[d].report <= runs' /\ disk'[d].report # runs'
    BY <1>1, <1>2, <1>3
<1>5. Writing' /\ Grounded'  BY <1>1 DEF Writing, Grounded
<1>6. Ledger'  BY <1>1, <1>4 DEF Ledger, Before
<1>7. EvidenceBehindReports'  BY <1>1, <1>4 DEF EvidenceBehindReports
<1> QED BY <1>5, <1>6, <1>7 DEF Backed

LEMMA KillBacked ==
    ASSUME TypeOK, Underway, Backed, Kill
    PROVE  Backed'
<1>1. /\ at' = "idle" /\ UNCHANGED <<runs, published, progress>> /\ at # "idle"
    BY DEF Kill
<1>2. UNCHANGED <<outcomes, snapshot, parsed>>  BY <1>1 DEF progress
<1>3. CASE at # "write"
    <2>1. UNCHANGED disk  BY <1>3 DEF Kill
    <2> QED BY <1>1, <1>2, <2>1, QuietStep DEF Before
<1>4. CASE at = "write"
    <2>1. Put(Head(writing.names), Torn)  BY <1>4 DEF Kill
    <2>2. Writing'  BY <1>1 DEF Writing
    <2>3. Grounded'  BY <1>2 DEF Backed, Grounded
    <2>4. Ledger'  BY <1>1, <1>2, <1>4, <2>1, TornIs DEF Backed, Ledger, Before
    <2>5. Online' = Online  BY <1>2 DEF Online
    <2>6. EvidenceBehindReports'
        BY <1>1, <1>2, <1>4, <2>1, <2>5, TornIs DEF Backed, EvidenceBehindReports
    <2> QED BY <2>2, <2>3, <2>4, <2>6 DEF Backed
<1> QED BY <1>3, <1>4

LEMMA BackedStep ==
    ASSUME TypeOK, Underway, Backed, [Next]_vars
    PROVE  Backed'
<1>1. CASE UNCHANGED vars
    <2>1. Assessed' = Assessed /\ Online' = Online /\ WriteOrder' = WriteOrder
        BY <1>1 DEF vars, progress, Assessed, Online, WriteOrder
    <2>2. Directory' = Directory  BY <1>1, <2>1 DEF vars, progress, Directory
    <2>3. Writing'  BY <1>1, <2>1, <2>2 DEF vars, progress, Backed, Writing
    <2>4. Grounded'  BY <1>1 DEF vars, progress, Backed, Grounded
    <2>5. Ledger'  BY <1>1, <2>1 DEF vars, progress, Backed, Ledger
    <2>6. EvidenceBehindReports'  BY <1>1, <2>1 DEF vars, progress, Backed, EvidenceBehindReports
    <2> QED BY <2>3, <2>4, <2>5, <2>6 DEF Backed
<1>2. CASE AllParsed
    BY <1>2, QuietStep DEF AllParsed, Go, progress, Before
<1>3. CASE AllAssessed
    BY <1>3, QuietStep DEF AllAssessed, Go, progress, Before
<1>4. CASE Publish
    BY <1>4, QuietStep DEF Publish, progress, Before
<1>5. CASE End
    BY <1>5, QuietStep DEF End, progress, Before
<1>6. CASE Raise
    BY <1>6, QuietStep DEF Raise, BreakDown, progress, Before
<1>7. CASE Start \/ Kill  BY <1>7, StartBacked, KillBacked
<1>8. CASE \/ ReadConfig \/ ResolveChanged \/ ReadPage \/ GitDiff \/ DetectMigrations
    BY <1>8, ListingBacked
<1>9. CASE ParseNext \/ CaptureSnapshot \/ AssessNext \/ WriteNext
    BY <1>9, ParsingBacked, CapturingBacked, AssessingBacked, WritingBacked
<1> QED BY <1>1, <1>2, <1>3, <1>4, <1>5, <1>6, <1>7, <1>8, <1>9 DEF Next, Step

-----------------------------------------------------------------------------
(***************************************************************************)
(* The exit code and the pull request, of every step.                      *)
(***************************************************************************)
LEMMA SilentStep ==
    ASSUME TypeOK, Underway, Grounded, ToolErrorIsNoVerdict, [Next]_vars
    PROVE  ToolErrorIsNoVerdict'
<1>1. CASE UNCHANGED vars
    BY <1>1 DEF vars, ToolErrorIsNoVerdict, Concluded
<1>2. CASE BreakDown /\ at \notin {"idle", "end"}
    <2>1. exit' = ExitToolError /\ UNCHANGED <<runs, published>> /\ published # runs
        BY <1>2 DEF BreakDown, BreakdownCode, Underway
    <2> QED BY <2>1 DEF ToolErrorIsNoVerdict, Concluded
<1>3. CASE at' # "idle"
    BY <1>3 DEF ToolErrorIsNoVerdict
<1>4. CASE End
    <2>1. exit' = ExitCode(Verdict, FailOn) /\ UNCHANGED <<runs, published>> /\ published = runs
        BY <1>4 DEF End, Underway
    <2>2. exit' # ExitToolError  BY <2>1, RunConcludes
    <2> QED BY <2>1, <2>2 DEF ToolErrorIsNoVerdict
<1>5. CASE Kill
    <2>1. exit' = Killed  BY <1>5 DEF Kill
    <2> QED BY <2>1 DEF ToolErrorIsNoVerdict, Concluded, ExitCodes, ExitToolError, Killed
<1>6. Next => \/ BreakDown /\ at \notin {"idle", "end"}
              \/ at' # "idle" \/ End \/ Kill
    <2>1. Start => at' # "idle"  BY DEF Start
    <2>2. ReadConfig => at = "config" /\ (BreakDown \/ at' # "idle")  BY DEF ReadConfig, Go
    <2>3. ResolveChanged => at = "changed" /\ (BreakDown \/ at' # "idle")
        BY SomeSource DEF ResolveChanged, UseGit, Go
    <2>4. ReadPage => at = "pages" /\ (BreakDown \/ at' # "idle")  BY DEF ReadPage, UseGit, Go
    <2>5. GitDiff => at = "git" /\ (BreakDown \/ at' # "idle")  BY DEF GitDiff, Go
    <2>6. DetectMigrations => at = "detect" /\ (BreakDown \/ at' # "idle")
        BY DEF DetectMigrations, Go
    <2>7. ParseNext \/ AllParsed \/ CaptureSnapshot \/ AssessNext \/ AllAssessed => at' # "idle"
        BY DEF ParseNext, AllParsed, CaptureSnapshot, AssessNext, AllAssessed, Go
    <2>8. WriteNext => at' # "idle"  BY DEF WriteNext, Assess
    <2>9. Publish => at' # "idle"  BY DEF Publish
    <2>10. Raise => BreakDown /\ at \notin {"idle", "end"}  BY DEF Raise
    <2> QED BY <2>1, <2>2, <2>3, <2>4, <2>5, <2>6, <2>7, <2>8, <2>9, <2>10 DEF Next, Step
<1> QED BY <1>1, <1>2, <1>3, <1>4, <1>5, <1>6

-----------------------------------------------------------------------------
(***************************************************************************)
(* The inductive invariant, and what it gives.                             *)
(***************************************************************************)
Inv == TypeOK /\ Underway /\ Backed /\ ToolErrorIsNoVerdict

LEMMA InitInv == Init => Inv
<1> SUFFICES ASSUME Init PROVE Inv  OBVIOUS
<1>1. /\ runs = 0 /\ events = 0 /\ at = "idle" /\ job \in Jobs /\ page = 0 /\ changed = {}
      /\ left = {} /\ parsed = {} /\ outcomes = {} /\ snapshot = NotAsked
      /\ writing = NotWriting /\ exit = Running /\ published = 0
      /\ disk = [d \in Directories |-> EmptyDirectory]
    BY DEF Init
<1>2. TypeOK
    <2>1. EmptyDirectory \in Stored  BY DEF EmptyDirectory, Stored, Bytes
    <2>2. disk \in [Directories -> Stored]  BY <1>1, <2>1
    <2>3. NotWriting.file = NoFile /\ NotWriting.verdict \in FileVerdicts
        BY DEF NotWriting, FileVerdicts
    <2> QED BY <1>1, <2>2, <2>3, BoundsAssumption DEF TypeOK, Stages, Stored
<1>3. Underway  BY <1>1 DEF Underway
<1>4. \A d \in Directories : disk[d].report = 0
    BY <1>1 DEF EmptyDirectory, Nothing
<1>5. Backed
    BY <1>1, <1>4 DEF Backed, Writing, Grounded, Ledger, Before, EvidenceBehindReports
<1>6. ToolErrorIsNoVerdict  BY <1>1 DEF ToolErrorIsNoVerdict
<1> QED BY <1>2, <1>3, <1>5, <1>6 DEF Inv

LEMMA InvStep == Inv /\ [Next]_vars => Inv'
<1> SUFFICES ASSUME Inv, [Next]_vars PROVE Inv'  OBVIOUS
<1>1. TypeOK /\ Underway /\ Backed /\ ToolErrorIsNoVerdict  BY DEF Inv
<1>2. Writing /\ Grounded  BY <1>1 DEF Backed
<1>3. TypeOK' /\ Underway'  BY <1>1, <1>2, TypeStep
<1>4. Backed'  BY <1>1, BackedStep
<1>5. ToolErrorIsNoVerdict'  BY <1>1, <1>2, SilentStep
<1> QED BY <1>3, <1>4, <1>5 DEF Inv

LEMMA InvHolds == Spec => []Inv
BY InitInv, InvStep, PTL DEF Spec

(***************************************************************************)
(* Every variable of a run keeps its type, whatever the pull request, the  *)
(* jobs and the failures (ci/runner.py, run_ci).                           *)
(***************************************************************************)
THEOREM RunTyped == Spec => []TypeOK
<1>1. Inv => TypeOK  BY DEF Inv
<1> QED BY <1>1, InvHolds, PTL

(***************************************************************************)
(* A report on disk has its evidence beside it, of the same run, wherever  *)
(* a job is killed, whichever write fails and whatever earlier jobs left   *)
(* there (write_bundle and the report after it, ci/runner.py).             *)
(***************************************************************************)
THEOREM ReportsBacked == Spec => []EvidenceBehindReports
<1>1. Inv => EvidenceBehindReports  BY DEF Inv, Backed
<1> QED BY <1>1, InvHolds, PTL

(***************************************************************************)
(* A run that breaks down publishes no verdict, and an exit code that is a *)
(* verdict is one of a run that published its own (ci/runner.py, run_ci).  *)
(***************************************************************************)
THEOREM BrokenRunsSilent == Spec => []ToolErrorIsNoVerdict
<1>1. Inv => ToolErrorIsNoVerdict  BY DEF Inv
<1> QED BY <1>1, InvHolds, PTL

-----------------------------------------------------------------------------
(***************************************************************************)
(* The files of a pull request have the positions 1, 2, 3 and so on.       *)
(***************************************************************************)
UpTo(f) == {g \in Files : g.path <= f.path}

LEMMA UpToIs ==
    ASSUME NEW f \in Files
    PROVE  /\ f \in UpTo(f) /\ IsFiniteSet(UpTo(f)) /\ Position(f) = Cardinality(UpTo(f))
           /\ Position(f) \in 1..Cardinality(Files)
<1>1. f \in UpTo(f) /\ UpTo(f) \in SUBSET Files  BY FilesAssumption DEF UpTo, FileType
<1>2. IsFiniteSet(UpTo(f)) /\ Cardinality(UpTo(f)) <= Cardinality(Files)
    BY <1>1, FilesAssumption, FS_Subset
<1>3. Cardinality(UpTo(f)) \in Nat /\ Cardinality(Files) \in Nat
    BY <1>2, FilesAssumption, FS_CardinalityType
<1>4. Cardinality(UpTo(f)) # 0  BY <1>1, <1>2, FS_EmptySet
<1>5. Position(f) = Cardinality(UpTo(f))  BY DEF Position, UpTo
<1> QED BY <1>1, <1>2, <1>3, <1>4, <1>5

LEMMA LaterPosition ==
    ASSUME NEW f \in Files, NEW g \in Files, f.path < g.path
    PROVE  Position(f) # Position(g)
<1>1. f.path \in Nat /\ g.path \in Nat  BY FilesAssumption DEF FileType
<1>2. UpTo(f) \in SUBSET UpTo(g) /\ g \notin UpTo(f)
    <2>1. \A h \in Files : h.path \in Nat  BY FilesAssumption DEF FileType
    <2> QED BY <1>1, <2>1 DEF UpTo
<1>3. UpTo(f) # UpTo(g)  BY <1>2, UpToIs
<1>4. Cardinality(UpTo(f)) # Cardinality(UpTo(g))  BY <1>2, <1>3, UpToIs, FS_Subset
<1> QED BY <1>4, UpToIs

LEMMA PositionsAre ==
    /\ \A f \in Files : Position(f) \in 1..Cardinality(Files)
    /\ \A n \in 1..Cardinality(Files) : \E f \in Files : Position(f) = n
<1> DEFINE N == Cardinality(Files)
           P == [f \in Files |-> Position(f)]
<1>1. \A f \in Files : Position(f) \in 1..N  BY UpToIs
<1>2. \A f, g \in Files : Position(f) = Position(g) => f = g
    <2> SUFFICES ASSUME NEW f \in Files, NEW g \in Files, f # g PROVE Position(f) # Position(g)
        OBVIOUS
    <2>1. f.path \in Nat /\ g.path \in Nat /\ f.path # g.path  BY FilesAssumption DEF FileType
    <2>2. f.path < g.path \/ g.path < f.path  BY <2>1
    <2> QED BY <2>2, LaterPosition
<1>3. N \in Nat  BY FilesAssumption, FS_CardinalityType
<1> HIDE DEF N
<1>4. P \in Injection(Files, 1..N)
    <2>1. P \in [Files -> 1..N]  BY <1>1
    <2>2. \A f, g \in Files : P[f] = P[g] => f = g  BY <1>2
    <2> HIDE DEF P
    <2> QED BY <2>1, <2>2 DEF Injection, IsInjective
<1>5. IsFiniteSet(1..N) /\ Cardinality(1..N) = N
    <2>1. 1 \in Int /\ N \in Int  BY <1>3
    <2>2. IsFiniteSet(1..N) /\ Cardinality(1..N) = IF 1 > N THEN 0 ELSE N - 1 + 1
        BY <2>1, FS_Interval
    <2> QED BY <1>3, <2>2
<1>6. Cardinality(Files) = Cardinality(1..N)  BY <1>5 DEF N
<1>7. P \in Surjection(Files, 1..N)  BY <1>4, <1>5, <1>6, FS_Injection
<1>8. \A n \in 1..N : \E f \in Files : P[f] = n  BY <1>7 DEF Surjection
<1> QED BY <1>1, <1>8 DEF N

(***************************************************************************)
(* A page that is not full is the last there is.                           *)
(***************************************************************************)
LEMMA ShortPageIsLast ==
    ASSUME NEW n \in Nat \ {0}, Cardinality(Page(n)) < PageSize, NEW f \in Files
    PROVE  Position(f) <= n * PageSize
<1> DEFINE a == (n - 1) * PageSize
           b == n * PageSize
           N == Cardinality(Files)
           Q == [g \in Page(n) |-> Position(g)]
<1>1. a \in Nat /\ b \in Nat /\ b = a + PageSize /\ PageSize \in Nat \ {0}  BY BoundsAssumption
<1>2. N \in Nat /\ \A g \in Files : Position(g) \in 1..N
    BY FilesAssumption, FS_CardinalityType, PositionsAre
<1>3. Page(n) = {g \in Files : Position(g) > a /\ Position(g) <= b}  BY DEF Page
<1> HIDE DEF a, b, N
<1> SUFFICES ASSUME Position(f) > b PROVE FALSE
    BY <1>1, <1>2 DEF b
<1>4. Q \in Surjection(Page(n), (a + 1)..b)
    <2>1. Q \in [Page(n) -> (a + 1)..b]  BY <1>1, <1>2, <1>3
    <2>2. \A m \in (a + 1)..b : \E g \in Page(n) : Q[g] = m
        <3> SUFFICES ASSUME NEW m \in (a + 1)..b PROVE \E g \in Page(n) : Q[g] = m
            OBVIOUS
        <3>1. m \in 1..N  BY <1>1, <1>2
        <3>2. PICK g \in Files : Position(g) = m  BY <3>1, PositionsAre DEF N
        <3>3. g \in Page(n)  BY <1>1, <1>3, <3>2
        <3> QED BY <3>2, <3>3
    <2> HIDE DEF Q
    <2> QED BY <2>1, <2>2 DEF Surjection
<1>5. IsFiniteSet(Page(n))
    <2>1. Page(n) \in SUBSET Files  BY <1>3
    <2> QED BY <2>1, FilesAssumption, FS_Subset
<1>6. Cardinality((a + 1)..b) = PageSize
    <2>1. a + 1 \in Int /\ b \in Int  BY <1>1
    <2>2. Cardinality((a + 1)..b) = IF a + 1 > b THEN 0 ELSE b - (a + 1) + 1
        BY <2>1, FS_Interval
    <2> QED BY <1>1, <2>2
<1>7. Cardinality((a + 1)..b) <= Cardinality(Page(n))
    <2> HIDE DEF Q
    <2> QED BY <1>4, <1>5, FS_Surjection
<1>8. Cardinality(Page(n)) \in Nat  BY <1>5, FS_CardinalityType
<1> QED BY <1>1, <1>6, <1>7, <1>8

-----------------------------------------------------------------------------
(***************************************************************************)
(* Where every migration of the pull request is, from the listing on.      *)
(***************************************************************************)
Listed == {"detect", "parse", "capture", "assess", "write", "publish", "end"}
Refused == {o.file : o \in {q \in outcomes : q.status # "assessed"}}

Accounts ==
    /\ at # "idle" => exit = Running
    /\ at = "pages" => \A f \in Files : ~f.removed /\ Position(f) <= page * PageSize => f \in changed
    /\ at \in Listed => \A f \in Files :
          ~f.removed /\ ~BeyondTheCap(f) => f \in changed \/ Printed(f) \in changed
    /\ at \in Listed \ {"detect"} =>
          \A f \in changed : IsMigration(f, config) => f \in left \cup parsed \cup Refused
    /\ at \in Listed \ {"detect", "parse"} => left = {}
    /\ at \in {"publish", "end"} => parsed = Assessed

(* What a run that ends says of each.  Where a path was printed as it is,  *)
(* the two cases of the listing are one.                                   *)
LEMMA EndAccounts ==
    ASSUME TypeOK, Grounded, Accounts, End
    PROVE  EveryMigrationAccounted'
<1> DEFINE V == {EffectiveVerdict(o) : o \in outcomes}
<1>1. at = "end" /\ UNCHANGED <<config, page, outcomes>>  BY DEF End, progress
<1>2. ASSUME NEW f \in Files, ~f.removed, IsMigration(f, config), ~BeyondTheCap(f), ~Unrecognized(f)
      PROVE  \E o \in outcomes : o.file \in {f, Printed(f)}
    <2>1. PICK p \in {f, Printed(f)} : p \in changed /\ IsMigration(p, config)
        BY <1>1, <1>2 DEF Accounts, Listed, Unrecognized
    <2>2. p \in Assessed \cup Refused  BY <1>1, <2>1 DEF Accounts, Listed
    <2>3. \E o \in outcomes : o.file = p  BY <2>2 DEF Refused, Assessed
    <2> QED BY <2>1, <2>3
<1>3. ASSUME NEW o \in outcomes
      PROVE  /\ o.status = "assessed" \/ Verdict # "proceed"
             /\ o.status = "assessed" => VerdictRank(o.verdict) <= VerdictRank(Verdict)
    <2>1. V \in SUBSET FileVerdicts
        <3> SUFFICES ASSUME NEW q \in outcomes PROVE EffectiveVerdict(q) \in FileVerdicts  OBVIOUS
        <3> QED BY DEF EffectiveVerdict, Grounded, FileVerdicts
    <2>2. EffectiveVerdict(o) \in V  OBVIOUS
    <2>3. Verdict = RunVerdict(V)  BY DEF Verdict
    <2> HIDE DEF V
    <2>4. VerdictRank(EffectiveVerdict(o)) <= VerdictRank(Verdict)
        BY <2>1, <2>2, <2>3, WorstVerdict
    <2>5. VerdictRank("requires_approval") = 1 /\ VerdictRank("proceed") = 0  BY DEF VerdictRank
    <2> QED BY <2>4, <2>5 DEF EffectiveVerdict
<1>4. Verdict' = Verdict  BY <1>1 DEF Verdict, EffectiveVerdict
<1>5. \A f : BeyondTheCap(f)' = BeyondTheCap(f) /\ Unrecognized(f)' = Unrecognized(f)
    BY <1>1 DEF BeyondTheCap, Unrecognized, End, progress
<1> QED BY <1>1, <1>2, <1>3, <1>4, <1>5 DEF EveryMigrationAccounted

(* A step that ends no run, or ends one without a verdict.                 *)
LEMMA NotConcluded ==
    ASSUME exit' \in {Running, Killed, ExitToolError}
    PROVE  EveryMigrationAccounted'
BY DEF EveryMigrationAccounted, Concluded, Running, Killed, ExitCodes, ExitToolError

LEMMA BrokenOff ==
    ASSUME at' = "idle"
    PROVE  Accounts'
BY DEF Accounts, Listed

(* Reading a page: what comes before its end has been listed.              *)
LEMMA PageAccounts ==
    ASSUME TypeOK, Underway, Accounts, ReadPage
    PROVE  Accounts'
<1>1. /\ at = "pages" /\ exit = Running /\ page \in Nat /\ page < MaxPages
      /\ PageSize \in Nat \ {0} /\ MaxPages \in Nat
    BY BoundsAssumption DEF ReadPage, Accounts, TypeOK, Underway
<1>2. CASE BreakDown  BY <1>2, BrokenOff DEF BreakDown
<1>3. CASE Go("git")  BY <1>1, <1>3 DEF Go, Accounts, Listed
<1>4. CASE /\ page' = page + 1 /\ changed' = changed \cup Kept(Page(page + 1))
           /\ Go("detect") \/ Go("pages")
           /\ at' = "detect" => IsLastPage(page + 1)
    <2>1. page * PageSize \in Nat /\ (page + 1) * PageSize \in Nat /\ (page + 1) - 1 = page
        BY <1>1
    <2>2. ASSUME NEW f \in Files, ~f.removed, Position(f) <= (page + 1) * PageSize
          PROVE  f \in changed'
        <3>1. Position(f) \in Int  BY PositionsAre
        <3>2. CASE Position(f) <= page * PageSize  BY <1>1, <1>4, <2>2, <3>2 DEF Accounts
        <3>3. CASE Position(f) > page * PageSize
            <4>1. f \in Kept(Page(page + 1))  BY <2>1, <2>2, <3>3 DEF Kept, Page
            <4> QED BY <1>4, <4>1
        <3> QED BY <2>1, <3>1, <3>2, <3>3
    <2>3. CASE at' = "pages"
        BY <1>1, <1>4, <2>2, <2>3 DEF Go, Accounts, Listed
    <2>4. CASE at' = "detect"
        <3>1. ASSUME NEW f \in Files, ~BeyondTheCap(f)' PROVE Position(f) <= (page + 1) * PageSize
            <4>1. CASE Cardinality(Page(page + 1)) < PageSize
                BY <1>1, <4>1, ShortPageIsLast
            <4>2. CASE page + 1 = MaxPages
                <5>1. Position(f) \in Int /\ MaxPages * PageSize \in Nat  BY <1>1, PositionsAre
                <5> QED BY <1>4, <3>1, <4>2, <5>1 DEF BeyondTheCap
            <4> QED BY <1>4, <2>4, <4>1, <4>2 DEF IsLastPage
        <3>2. \A f \in Files : ~f.removed /\ ~BeyondTheCap(f)' => f \in changed'
            BY <2>2, <3>1
        <3> QED BY <1>1, <1>4, <2>4, <3>2 DEF Go, Accounts, Listed
    <2> QED BY <1>4, <2>3, <2>4 DEF Go
<1> QED BY <1>2, <1>3, <1>4 DEF ReadPage, UseGit, NextPage, Go

LEMMA ListingAccounts ==
    ASSUME TypeOK, Underway, Accounts, ReadConfig \/ ResolveChanged \/ GitDiff \/ DetectMigrations
    PROVE  Accounts'
<1>1. exit = Running  BY DEF Accounts, ReadConfig, ResolveChanged, GitDiff, DetectMigrations
<1>2. CASE BreakDown  BY <1>2, BrokenOff DEF BreakDown
<1>3. CASE Go("changed") \/ Go("git")  BY <1>1, <1>3 DEF Go, Accounts, Listed
<1>4. CASE Go("pages") /\ page' = page /\ page = 0
    <2>1. 0 * PageSize = 0  BY BoundsAssumption
    <2>2. \A f \in Files : ~ (Position(f) <= page' * PageSize)  BY <1>4, <2>1, PositionsAre
    <2> QED BY <1>1, <1>4, <2>2 DEF Go, Accounts, Listed
<1>5. CASE Go("detect") /\ changed' \in {Kept(Files), {Printed(f) : f \in Kept(Files)}}
    <2>1. \A f \in Files : ~f.removed => f \in changed' \/ Printed(f) \in changed'
        BY <1>5 DEF Kept
    <2> QED BY <1>1, <1>5, <2>1 DEF Go, Accounts, Listed
<1>6. CASE DetectMigrations /\ Go("parse")
    <2>1. at = "detect" /\ UNCHANGED <<page, config, changed>> /\ left' = Detected(changed, config)
        BY <1>6 DEF DetectMigrations, BreakDown, Go
    <2>2. \A f : BeyondTheCap(f)' = BeyondTheCap(f)  BY <2>1 DEF BeyondTheCap
    <2>3. \A f \in changed : IsMigration(f, config) => f \in left'  BY <2>1 DEF Detected
    <2> QED BY <1>1, <1>6, <2>1, <2>2, <2>3 DEF Go, Accounts, Listed
<1>7. CASE ReadConfig  BY <1>2, <1>3, <1>7 DEF ReadConfig
<1>8. CASE ResolveChanged
    <2>1. page' = page /\ page = 0  BY <1>8 DEF ResolveChanged, Underway
    <2>2. \/ BreakDown \/ Go("git") \/ Go("pages")
          \/ Go("detect") /\ changed' = Kept(Files)
        BY <1>8, SomeSource DEF ResolveChanged, UseGit
    <2> QED BY <1>2, <1>3, <1>4, <1>5, <2>1, <2>2
<1>9. CASE GitDiff  BY <1>2, <1>5, <1>9 DEF GitDiff
<1>10. CASE DetectMigrations  BY <1>2, <1>6, <1>10 DEF DetectMigrations
<1> QED BY <1>7, <1>8, <1>9, <1>10

(* From the parsing on a migration is left, parsed or refused.             *)
LEMMA JudgingAccounts ==
    ASSUME TypeOK, Underway, Backed, Accounts,
           ParseNext \/ AllParsed \/ CaptureSnapshot \/ AssessNext \/ WriteNext \/ AllAssessed \/ Publish
    PROVE  Accounts'
<1>1. /\ at \in Listed \ {"detect"} /\ exit = Running /\ exit' = exit
      /\ UNCHANGED <<page, config, changed>>
    BY DEF Accounts, Listed, ParseNext, AllParsed, CaptureSnapshot, AssessNext, WriteNext,
           AllAssessed, Publish, Go, progress
<1>2. \A f : BeyondTheCap(f)' = BeyondTheCap(f)  BY <1>1 DEF BeyondTheCap
<1>3. \A f \in Files : ~f.removed /\ ~BeyondTheCap(f)' => f \in changed' \/ Printed(f) \in changed'
    BY <1>1, <1>2 DEF Accounts
<1>4. \A f \in changed : IsMigration(f, config) => f \in left \cup parsed \cup Refused
    BY <1>1 DEF Accounts
<1>5. ASSUME outcomes \subseteq outcomes', left \cup parsed \subseteq left' \cup parsed' \cup Refused'
      PROVE  \A f \in changed' : IsMigration(f, config') => f \in left' \cup parsed' \cup Refused'
    <2>1. Refused \subseteq Refused'  BY <1>5 DEF Refused
    <2> QED BY <1>1, <1>4, <1>5, <2>1
<1>6. CASE ParseNext
    <2>1. PICK f \in left :
              /\ left' = left \ {f}
              /\ \/ parsed' = parsed \cup {f} /\ outcomes' = outcomes
                 \/ /\ parsed' = parsed
                    /\ \E status \in {"error", "unsupported"} :
                          outcomes' = outcomes \cup {OutcomeOf(f, status, "none", NoDirectory)}
        <3>1. left # {} /\ left \in SUBSET Paths  BY <1>6 DEF ParseNext, TypeOK
        <3>2. First(left) \in left  BY <3>1, FirstIsOne
        <3> QED BY <1>6, <3>2 DEF ParseNext
    <2>2. at' = "parse"  BY <1>6 DEF ParseNext, Go
    <2>3. CASE parsed' = parsed \cup {f} /\ outcomes' = outcomes
        BY <1>1, <1>3, <1>5, <2>1, <2>2, <2>3 DEF Accounts, Listed
    <2>4. ASSUME NEW status \in {"error", "unsupported"}, parsed' = parsed,
                 outcomes' = outcomes \cup {OutcomeOf(f, status, "none", NoDirectory)}
          PROVE  Accounts'
        <3> DEFINE q == OutcomeOf(f, status, "none", NoDirectory)
        <3>0. q.status = status /\ q.file = f /\ q \in outcomes' /\ status # "assessed"
            <4>1. q.status = status /\ q.file = f  BY DEF OutcomeOf
            <4> QED BY <2>4, <4>1
        <3> HIDE DEF q
        <3>1. f \in Refused'  BY <2>4, <3>0 DEF Refused
        <3>2. left \cup parsed \subseteq left' \cup parsed' \cup Refused'  BY <2>1, <2>4, <3>1
        <3>3. outcomes \subseteq outcomes'  BY <2>4
        <3> QED BY <1>1, <1>3, <1>5, <2>2, <3>2, <3>3 DEF Accounts, Listed
    <2> QED BY <2>1, <2>3, <2>4
<1>7. CASE ~ParseNext
    <2>1. left' = left /\ parsed' = parsed /\ outcomes \subseteq outcomes'
        BY <1>7 DEF AllParsed, CaptureSnapshot, AssessNext, WriteNext, AllAssessed, Publish,
                    Go, progress, Assess
    <2>2. \A f \in changed' : IsMigration(f, config') => f \in left' \cup parsed' \cup Refused'
        BY <1>5, <2>1
    <2>3. left' = {} /\ at' \in Listed \ {"detect", "parse"}
        <3>1. CASE AllParsed  BY <3>1 DEF AllParsed, Go, Listed, progress
        <3>2. CASE ~AllParsed
            BY <1>7, <2>1, <3>2 DEF Accounts, CaptureSnapshot, AssessNext, WriteNext, AllAssessed,
                                    Publish, Go, Listed, Assess
        <3> QED BY <3>1, <3>2
    <2>4. at' \in {"publish", "end"} => parsed' = Assessed'
        <3>1. CASE AllAssessed
            BY <3>1 DEF AllAssessed, progress, Assessed
        <3>2. CASE Publish
            BY <3>2 DEF Publish, Accounts, progress, Assessed
        <3>3. CASE ~AllAssessed /\ ~Publish
            BY <1>7, <3>3 DEF AllParsed, CaptureSnapshot, AssessNext, WriteNext, Go, Assess
        <3> QED BY <3>1, <3>2, <3>3
    <2> QED BY <1>1, <1>3, <2>2, <2>3, <2>4 DEF Accounts, Listed
<1> QED BY <1>6, <1>7

LEMMA AccountsStep ==
    ASSUME TypeOK, Underway, Backed, Accounts, EveryMigrationAccounted, [Next]_vars
    PROVE  Accounts' /\ EveryMigrationAccounted'
<1>1. CASE UNCHANGED vars
    <2>1. /\ UNCHANGED <<at, exit, page, changed, config, left, parsed, outcomes>>
          /\ Verdict' = Verdict /\ Assessed' = Assessed /\ Refused' = Refused
          /\ \A f : BeyondTheCap(f)' = BeyondTheCap(f) /\ Unrecognized(f)' = Unrecognized(f)
        BY <1>1 DEF vars, progress, Verdict, EffectiveVerdict, Assessed, Refused, BeyondTheCap,
                    Unrecognized
    <2>2. Accounts'  BY <2>1 DEF Accounts
    <2>3. EveryMigrationAccounted'  BY <2>1 DEF EveryMigrationAccounted, Concluded
    <2> QED BY <2>2, <2>3
<1>2. CASE End
    <2>1. Accounts'  BY <1>2, BrokenOff DEF End
    <2> QED BY <1>2, <2>1, EndAccounts DEF Backed
<1>3. CASE Start
    <2>1. at' = "config" /\ exit' = Running  BY <1>3 DEF Start
    <2>2. Accounts'  BY <2>1 DEF Accounts, Listed
    <2> QED BY <2>1, <2>2, NotConcluded
<1>4. CASE Kill \/ Raise
    <2>1. at' = "idle" /\ exit' \in {Killed, ExitToolError}
        BY <1>4 DEF Kill, Raise, BreakDown, BreakdownCode
    <2> QED BY <2>1, BrokenOff, NotConcluded
<1>5. CASE Step /\ ~End
    <2>1. Accounts'
        BY <1>5, PageAccounts, ListingAccounts, JudgingAccounts DEF Step
    <2>2. at' # "idle" => exit' = Running  BY <2>1 DEF Accounts
    <2>3. at' = "idle" => exit' = ExitToolError
        <3>1. ASSUME BreakDown PROVE exit' = ExitToolError  BY <3>1 DEF BreakDown, BreakdownCode
        <3>2. ResolveChanged => BreakDown \/ at' # "idle"
            BY SomeSource DEF ResolveChanged, UseGit, Go
        <3>3. ReadConfig \/ ReadPage \/ GitDiff \/ DetectMigrations => BreakDown \/ at' # "idle"
            BY DEF ReadConfig, ReadPage, UseGit, GitDiff, DetectMigrations, Go
        <3>4. ParseNext \/ AllParsed \/ CaptureSnapshot \/ AssessNext \/ WriteNext \/ AllAssessed
                  \/ Publish => at' # "idle"
            BY DEF ParseNext, AllParsed, CaptureSnapshot, AssessNext, WriteNext, AllAssessed,
                   Publish, Go, Assess
        <3> QED BY <1>5, <3>1, <3>2, <3>3, <3>4 DEF Step
    <2> QED BY <2>1, <2>2, <2>3, NotConcluded
<1> QED BY <1>1, <1>2, <1>3, <1>4, <1>5 DEF Next

(***************************************************************************)
(* A run that concludes accounts for every migration of the pull request   *)
(* that was named to it: one within the page cap, and whose path git, when *)
(* it was asked, printed as one that is a migration.  It was assessed and  *)
(* its verdict counts, or the run does not pass as proceed (run_ci;        *)
(* github.py, pull_request_files): for every pull request, page size and   *)
(* cap, whatever calls fail.                                               *)
(***************************************************************************)
THEOREM MigrationsAccounted == Spec => []EveryMigrationAccounted
<1>1. Init => Accounts /\ EveryMigrationAccounted
    <2>1. Init => at = "idle" /\ exit = Running  BY DEF Init
    <2> QED BY <2>1 DEF Accounts, Listed, EveryMigrationAccounted, Concluded, Running, ExitCodes
<1>2. Inv /\ Accounts /\ EveryMigrationAccounted /\ [Next]_vars
          => Accounts' /\ EveryMigrationAccounted'
    BY AccountsStep DEF Inv
<1> QED BY <1>1, <1>2, InvHolds, PTL DEF Spec

=============================================================================
