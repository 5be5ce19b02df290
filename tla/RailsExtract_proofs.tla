------------------------- MODULE RailsExtract_proofs -------------------------
(***************************************************************************)
(* Theorems about RailsExtract, for every set of migrations, whatever they *)
(* need and look at, and every replay limit.                               *)
(***************************************************************************)
EXTENDS RailsExtract, TLAPS

\* What the theorems assume of the repository.
Orderly == VersionsInOrder /\ \A r \in Repositories : BaseKnown(r)

LEMMA NoneIsNoMigration == None \notin Migrations
BY MigrationsAssumption DEF None

LEMMA PreStateIs ==
    ASSUME NEW m \in Change
    PROVE  /\ PreState(m) \subseteq Migrations
           /\ Preceding(m) \subseteq {h \in Migrations : h < m}
           /\ ReplaySet(m) \subseteq {h \in Migrations : h < m}
           /\ Merged \cup Preceding(m) = PreState(m)
           /\ VersionsInOrder => ReplaySet(m) \cup Preceding(m) = PreState(m)
BY MigrationsAssumption DEF PreState, Preceding, ReplaySet, Migrations, VersionsInOrder

(***************************************************************************)
(* Under Orderly a schema file comes from the base commit, and says what   *)
(* is merged.                                                              *)
(***************************************************************************)
LEMMA SchemaFileType ==
    ASSUME TypeOK
    PROVE  /\ SchemaFile("structure") \in SchemaFiles /\ SchemaFile("schema") \in SchemaFiles
           /\ NoFile \in SchemaFiles /\ ResolvedSchema \in SchemaFiles
           /\ NoFile.is = "absent" /\ NoFile.state = {}
<1>1. repo \in Repository  BY RepositoriesAssumption DEF TypeOK
<1>2. SchemaFile("structure") \in SchemaFiles /\ SchemaFile("schema") \in SchemaFiles
    BY <1>1 DEF SchemaFile, Repository
<1>3. NoFile \in SchemaFiles /\ NoFile.is = "absent" /\ NoFile.state = {}
    BY DEF NoFile, SchemaFiles
<1> QED BY <1>2, <1>3 DEF ResolvedSchema

(***************************************************************************)
(* Types, step by step, in whatever order migrations come.                 *)
(***************************************************************************)
LEMMA AttemptTyped ==
    ASSUME TypeOK, NEW m \in Change, NEW f \in SchemaFiles, NEW h \in SUBSET {x \in Migrations : x < m},
           Attempt(m, f, h), file' = m, UNCHANGED <<repo, outcome>>
    PROVE  TypeOK'
<1>1. h \cup Preceding(m) \subseteq {x \in Migrations : x < m}  BY PreStateIs
<1>2. NoResponse \in Responses  BY DEF NoResponse, Responses, Stages
<1>3. m # None  BY NoneIsNoMigration DEF Migrations
<1> QED BY <1>1, <1>2, <1>3, SMTT(30) DEF TypeOK, Attempt, Stages

LEMMA DecideTyped ==
    ASSUME TypeOK, NEW m \in Change, NEW saw \in SUBSET Migrations, NEW result \in {Unsupported, Sql(saw)},
           Decide(m, result)
    PROVE  TypeOK'
<1>1. result \in [status : {"pending", "unsupported", "sql"}, saw : SUBSET Migrations]
    BY DEF Unsupported, Sql
<1>2. NoFile \in SchemaFiles  BY DEF NoFile, SchemaFiles
<1>3. NoResponse \in Responses  BY DEF NoResponse, Responses, Stages
<1>4. outcome' \in [Change -> [status : {"pending", "unsupported", "sql"}, saw : SUBSET Migrations]]
    BY <1>1 DEF Decide, TypeOK
<1> QED BY <1>2, <1>3, <1>4 DEF Decide, TypeOK

LEMMA TypeInit == Init => TypeOK
<1> SUFFICES ASSUME Init PROVE TypeOK  OBVIOUS
<1>1. NoFile \in SchemaFiles  BY DEF NoFile, SchemaFiles
<1>2. NoResponse \in Responses  BY DEF NoResponse, Responses, Stages
<1>3. outcome \in [Change -> [status : {"pending", "unsupported", "sql"}, saw : SUBSET Migrations]]
    BY DEF Init, Pending
<1> QED BY <1>1, <1>2, <1>3 DEF Init, TypeOK

LEMMA TypeStep == TypeOK /\ [Next]_vars => TypeOK'
<1> SUFFICES ASSUME TypeOK, [Next]_vars PROVE TypeOK'  OBVIOUS
<1>a. at # "idle" => file \in Change  BY DEF TypeOK
<1>b. ResolvedSchema \in SchemaFiles /\ NoFile \in SchemaFiles  BY SchemaFileType
<1>c. \A m : ReplaySet(m) \in SUBSET {x \in Migrations : x < m}  BY DEF ReplaySet
<1>d. {} \in SUBSET Migrations  OBVIOUS
<1>1. ASSUME NEW m \in Change, Extract(m) PROVE TypeOK'
    <2>1. CASE /\ Attempt(m, ResolvedSchema, {}) /\ file' = m /\ UNCHANGED <<repo, outcome>>
        BY <2>1, <1>b, AttemptTyped
    <2>2. CASE /\ Attempt(m, NoFile, ReplaySet(m)) /\ file' = m /\ UNCHANGED <<repo, outcome>>
        BY <2>2, <1>b, <1>c, AttemptTyped
    <2>3. CASE Decide(m, Unsupported)  BY <2>3, <1>d, DecideTyped
    <2> QED BY <1>1, <2>1, <2>2, <2>3 DEF Extract
<1>2. CASE Killed \/ GiveUp
    <2>1. file \in Change /\ Decide(file, Unsupported)  BY <1>2 DEF Killed, GiveUp, TypeOK
    <2> QED BY <2>1, <1>d, DecideTyped
<1>3. CASE Retry
    BY <1>3, <1>a, <1>b, <1>c, AttemptTyped DEF Retry
<1>4. CASE Render
    <2>1. response.saw \in SUBSET Migrations  BY DEF TypeOK, Responses
    <2>2. file \in Change /\ (Decide(file, Sql(response.saw)) \/ Decide(file, Unsupported))
        BY <1>4, <1>a DEF Render
    <2> QED BY <2>1, <2>2, DecideTyped
<1>5. CASE Raise
    <2>1. response' \in Responses  BY <1>5 DEF Raise, NoResponse, Responses, Stages
    <2> QED BY <1>5, <2>1 DEF Raise, TypeOK, Stages
<1>6. CASE CreateDatabase  BY <1>6 DEF CreateDatabase, TypeOK, Stages
<1>7. CASE LoadSchema
    <2>1. schema.state \subseteq Migrations  BY DEF TypeOK, SchemaFiles
    <2> QED BY <1>7, <2>1 DEF LoadSchema, TypeOK, Stages
<1>8. CASE ReplayOne
    <2>1. PICK h \in Replays :
             /\ (Skips(h) /\ UNCHANGED applied) \/ applied' = applied \cup {h}
             /\ loaded' = loaded \cup {h} /\ history' = history \ {h}
             /\ branch' = IF history # {} THEN branch ELSE branch \ {h}
        BY <1>8 DEF ReplayOne
    <2>2. at' = at /\ UNCHANGED <<repo, outcome, file, schema, response>>  BY <1>8 DEF ReplayOne
    <2>3. h \in Migrations  BY <2>1 DEF Replays, TypeOK
    <2> QED BY <2>1, <2>2, <2>3 DEF TypeOK
<1>9. CASE Replayed  BY <1>9 DEF Replayed, TypeOK, Stages
<1>10. CASE Migrate
    <2>1. Seen(file, applied) \subseteq Migrations  BY DEF Seen, TypeOK
    <2>2. PICK issued \in BOOLEAN :
             response' = [ok |-> TRUE, stage |-> "migration", issued |-> issued,
                          saw |-> Seen(file, applied)]
        BY <1>10 DEF Migrate
    <2>3. response' \in Responses  BY <2>1, <2>2 DEF Responses, Stages
    <2>4. file \in Change  BY <1>10, <1>a DEF Migrate
    <2> QED BY <1>10, <2>3, <2>4 DEF Migrate, TypeOK, Stages, Migrations
<1>11. CASE DropDatabase  BY <1>11 DEF DropDatabase, TypeOK, Stages
<1>12. CASE UNCHANGED vars  BY <1>12 DEF vars, TypeOK
<1> QED BY <1>1, <1>2, <1>3, <1>4, <1>5, <1>6, <1>7, <1>8, <1>9, <1>10, <1>11, <1>12 DEF Next

(***************************************************************************)
(* Whatever the repository holds, in whatever order its migrations were    *)
(* written, the extraction and its harness keep their types (and replay    *)
(* only migrations older than the one they render: rails/extract.py).      *)
(***************************************************************************)
THEOREM ExtractionTyped == Spec => []TypeOK
BY TypeInit, TypeStep, PTL DEF Spec

LEMMA SchemaFromBase ==
    ASSUME TypeOK, Orderly, ResolvedSchema # NoFile
    PROVE  ResolvedSchema.state = Merged
<1>1. repo \in Repository /\ BaseKnown(repo)  BY RepositoriesAssumption DEF TypeOK, Orderly
<1>2. ASSUME NEW n \in {"structure", "schema"}, SchemaFile(n).is = "full"
      PROVE  SchemaFile(n).state = Merged
    BY <1>1, <1>2 DEF SchemaFile, BaseKnown
<1>3. PICK n \in {"structure", "schema"} : ResolvedSchema = SchemaFile(n) /\ SchemaFile(n).is = "full"
    BY DEF ResolvedSchema
<1> QED BY <1>2, <1>3

-----------------------------------------------------------------------------
(***************************************************************************)
(* The inductive invariant: what the harness still has to bring about,     *)
(* with what is there, is the state the migration will find.               *)
(***************************************************************************)
Building ==
    /\ at \in {"connect", "schema"} =>
          /\ schema.state \cup history \cup branch = PreState(file)
          /\ schema.state \cap (history \cup branch) = {}
          /\ loaded = {}
    /\ at = "replay" =>
          /\ applied \cup history \cup branch = PreState(file)
          /\ applied \cap (history \cup branch) \subseteq loaded
          /\ loaded \subseteq applied
    /\ at = "migration" => applied = PreState(file)

Recorded ==
    at \in {"drop", "answered"} /\ response.ok => response.saw = Seen(file, PreState(file))

IInv == TypeOK /\ Building /\ Recorded /\ MissingNeverWrong

LEMMA InitIInv == Init => IInv
<1> SUFFICES ASSUME Init PROVE IInv  OBVIOUS
<1>1. TypeOK  BY TypeInit
<1>2. MissingNeverWrong  BY DEF Init, MissingNeverWrong, Pending
<1> QED BY <1>1, <1>2 DEF Init, IInv, Building, Recorded

(***************************************************************************)
(* A harness that starts has everything to build the state.                *)
(***************************************************************************)
LEMMA AttemptStep ==
    ASSUME IInv, Orderly, NEW m \in Change, NEW f, NEW h, Attempt(m, f, h),
           file' = m, UNCHANGED <<repo, outcome>>,
           \/ f = ResolvedSchema /\ f # NoFile /\ h = {}
           \/ f = NoFile /\ h = ReplaySet(m)
    PROVE  IInv'
<1>1. f \in SchemaFiles /\ NoFile.state = {}  BY SchemaFileType DEF IInv
<1>2. h \cup Preceding(m) \subseteq {x \in Migrations : x < m}  BY PreStateIs
<1>3. f.state \cup h \cup Preceding(m) = PreState(m)
    <2>1. CASE f = ResolvedSchema /\ f # NoFile /\ h = {}
        BY <2>1, SchemaFromBase, PreStateIs DEF IInv
    <2>2. CASE f = NoFile /\ h = ReplaySet(m)
        BY <2>2, <1>1, PreStateIs DEF Orderly
    <2> QED BY <2>1, <2>2
<1>4. f.state \cap (h \cup Preceding(m)) = {}
    <2>1. CASE f = ResolvedSchema /\ f # NoFile /\ h = {}
        BY <2>1, SchemaFromBase, MigrationsAssumption DEF IInv, Preceding
    <2>2. CASE f = NoFile /\ h = ReplaySet(m)
        BY <2>2, <1>1
    <2> QED BY <2>1, <2>2
<1>5. TypeOK'
    <2>1. h \in SUBSET {x \in Migrations : x < m}  BY <1>2
    <2> QED BY <1>1, <2>1, AttemptTyped DEF IInv
<1>6. Building'  BY <1>3, <1>4 DEF Attempt, Building, PreState
<1>7. Recorded' /\ MissingNeverWrong'
    BY DEF Attempt, Recorded, IInv, MissingNeverWrong, Seen, PreState, Sql
<1> QED BY <1>5, <1>6, <1>7 DEF IInv

(***************************************************************************)
(* A file is decided with a reason, or with what its harness recorded.     *)
(***************************************************************************)
LEMMA DecideStep ==
    ASSUME IInv, NEW m \in Change, NEW result, Decide(m, result),
           \/ result = Unsupported
           \/ result = Sql(Seen(m, PreState(m)))
    PROVE  IInv'
<1>1. Seen(m, PreState(m)) \subseteq Migrations  BY PreStateIs DEF Seen
<1>2. TypeOK'  BY <1>1, DecideTyped DEF IInv
<1>3. MissingNeverWrong'
    <2> SUFFICES ASSUME NEW c \in Change, outcome'[c].status = "sql"
                 PROVE  outcome'[c] = Sql(Seen(c, PreState(c)))
        BY DEF MissingNeverWrong, Seen, PreState, Sql
    <2>1. outcome \in [Change -> [status : {"pending", "unsupported", "sql"}, saw : SUBSET Migrations]]
        BY DEF IInv, TypeOK
    <2>2. CASE c = m  BY <2>1, <2>2 DEF Decide, Unsupported
    <2>3. CASE c # m  BY <2>1, <2>3 DEF Decide, IInv, MissingNeverWrong
    <2> QED BY <2>2, <2>3
<1>4. Building' /\ Recorded'  BY DEF Decide, Building, Recorded
<1> QED BY <1>2, <1>3, <1>4 DEF IInv

-----------------------------------------------------------------------------
LEMMA Step == IInv /\ Orderly /\ [Next]_vars => IInv'
<1> SUFFICES ASSUME IInv, Orderly, [Next]_vars PROVE IInv'  OBVIOUS
<1>a. TypeOK  BY DEF IInv
<1>b. at # "idle" => file \in Change  BY <1>a DEF TypeOK
<1>c. TypeOK'  BY <1>a, TypeStep
<1>1. ASSUME NEW m \in Change, Extract(m) PROVE IInv'
    <2>1. CASE /\ ResolvedSchema # NoFile /\ Attempt(m, ResolvedSchema, {})
               /\ file' = m /\ UNCHANGED <<repo, outcome>>
        BY <2>1, AttemptStep
    <2>2. CASE /\ Attempt(m, NoFile, ReplaySet(m)) /\ file' = m /\ UNCHANGED <<repo, outcome>>
        BY <2>2, AttemptStep
    <2>3. CASE Decide(m, Unsupported)  BY <2>3, DecideStep
    <2> QED BY <1>1, <2>1, <2>2, <2>3 DEF Extract
<1>2. CASE Killed
    BY <1>2, <1>a, DecideStep DEF Killed, TypeOK
<1>3. CASE Retry
    BY <1>3, <1>b, AttemptStep DEF Retry
<1>4. CASE GiveUp
    BY <1>4, <1>b, DecideStep DEF GiveUp
<1>5. CASE Render
    BY <1>5, <1>b, DecideStep DEF Render, IInv, Recorded
<1>6. CASE Raise
    <2>1. ~response'.ok  BY <1>6 DEF Raise, NoResponse
    <2>2. Building' /\ Recorded'  BY <1>6, <2>1 DEF Raise, Building, Recorded
    <2>3. MissingNeverWrong'  BY <1>6 DEF Raise, IInv, MissingNeverWrong, Seen, PreState, Sql
    <2> QED BY <1>c, <2>2, <2>3 DEF IInv
<1>7. CASE CreateDatabase
    <2>1. Building' /\ Recorded'
        BY <1>7 DEF CreateDatabase, IInv, Building, Recorded, PreState
    <2>2. MissingNeverWrong'  BY <1>7 DEF CreateDatabase, IInv, MissingNeverWrong, Seen, PreState, Sql
    <2> QED BY <1>c, <2>1, <2>2 DEF IInv
<1>8. CASE LoadSchema
    <2>1. Building' /\ Recorded'
        BY <1>8 DEF LoadSchema, IInv, Building, Recorded, PreState
    <2>2. MissingNeverWrong'  BY <1>8 DEF LoadSchema, IInv, MissingNeverWrong, Seen, PreState, Sql
    <2> QED BY <1>c, <2>1, <2>2 DEF IInv
<1>9. CASE ReplayOne
    <2>1. PICK h \in Replays :
             /\ (Skips(h) /\ UNCHANGED applied) \/ applied' = applied \cup {h}
             /\ loaded' = loaded \cup {h} /\ history' = history \ {h}
             /\ branch' = IF history # {} THEN branch ELSE branch \ {h}
        BY <1>9 DEF ReplayOne
    <2>2. at = "replay" /\ at' = "replay" /\ UNCHANGED <<repo, outcome, file, schema, response>>
        BY <1>9 DEF ReplayOne
    <2>3. h \in history \cup branch /\ h \in Migrations
        BY <2>1, <1>a DEF Replays, TypeOK
    <2>4. Building /\ applied \cup history \cup branch = PreState(file)
          /\ applied \cap (history \cup branch) \subseteq loaded /\ loaded \subseteq applied
        BY <2>2 DEF IInv, Building
    <2>5. h \in applied'  BY <2>1, <2>4 DEF Skips
    <2>6. applied' \subseteq applied \cup {h} /\ applied \subseteq applied'  BY <2>1
    <2>7. /\ history' \cup branch' \subseteq history \cup branch
          /\ history \cup branch \subseteq history' \cup branch' \cup {h}
        BY <2>1
    <2>8. applied' \cup history' \cup branch' = PreState(file)
        BY <2>3, <2>4, <2>5, <2>6, <2>7
    <2>9. applied' \cap (history' \cup branch') \subseteq loaded'
        BY <2>1, <2>4, <2>6, <2>7
    <2>10. loaded' \subseteq applied'  BY <2>1, <2>4, <2>5, <2>6
    <2>11. Building'  BY <2>2, <2>8, <2>9, <2>10 DEF Building, PreState
    <2>12. Recorded' /\ MissingNeverWrong'
        BY <2>2 DEF IInv, Recorded, MissingNeverWrong, Seen, PreState, Sql
    <2> QED BY <1>c, <2>11, <2>12 DEF IInv
<1>10. CASE Replayed
    <2>1. history = {} /\ branch = {}  BY <1>10 DEF Replayed, Replays
    <2>2. Building' /\ Recorded'
        BY <1>10, <2>1 DEF Replayed, IInv, Building, Recorded, PreState
    <2>3. MissingNeverWrong'  BY <1>10 DEF Replayed, IInv, MissingNeverWrong, Seen, PreState, Sql
    <2> QED BY <1>c, <2>2, <2>3 DEF IInv
<1>11. CASE Migrate
    <2>1. applied = PreState(file) /\ file \in Change
        BY <1>11, <1>b DEF Migrate, IInv, Building
    <2>2. response'.saw = Seen(file, applied)
        <3>1. PICK issued \in BOOLEAN :
                 response' = [ok |-> TRUE, stage |-> "migration", issued |-> issued,
                              saw |-> Seen(file, applied)]
            BY <1>11 DEF Migrate
        <3> QED BY <3>1
    <2>3. Building'  BY <1>11 DEF Migrate, Building
    <2>4. Recorded'  BY <1>11, <2>1, <2>2 DEF Migrate, Recorded, Seen, PreState
    <2>5. MissingNeverWrong'  BY <1>11 DEF Migrate, IInv, MissingNeverWrong, Seen, PreState, Sql
    <2> QED BY <1>c, <2>3, <2>4, <2>5 DEF IInv
<1>12. CASE DropDatabase
    <2>1. Building' /\ Recorded'
        BY <1>12 DEF DropDatabase, IInv, Building, Recorded, Seen, PreState
    <2>2. MissingNeverWrong'  BY <1>12 DEF DropDatabase, IInv, MissingNeverWrong, Seen, PreState, Sql
    <2> QED BY <1>c, <2>1, <2>2 DEF IInv
<1>13. CASE UNCHANGED vars
    BY <1>13 DEF vars, IInv, TypeOK, Building, Recorded, MissingNeverWrong, Seen, PreState, Sql
<1> QED BY <1>1, <1>2, <1>3, <1>4, <1>5, <1>6, <1>7, <1>8, <1>9, <1>10, <1>11, <1>12, <1>13 DEF Next

(***************************************************************************)
(* When git can show the base commit, and no merged migration is younger   *)
(* than one of the change, every migration runs in exactly the state it    *)
(* will find, whichever way that was built (extract_rails_sql).            *)
(***************************************************************************)
THEOREM StateBuiltExactly == ASSUME Orderly PROVE Spec => []PreStateExact
<1>1. Init => IInv  BY InitIInv
<1>2. IInv /\ [Next]_vars => IInv'  BY Step
<1>3. IInv => PreStateExact  BY DEF IInv, Building, PreStateExact
<1> QED BY <1>1, <1>2, <1>3, PTL DEF Spec

(***************************************************************************)
(* Then no migration is applied twice to a scratch database.               *)
(***************************************************************************)
THEOREM NothingAppliedTwice == ASSUME Orderly PROVE Spec => []AppliedOnce
<1>1. Init => IInv  BY InitIInv
<1>2. IInv /\ [Next]_vars => IInv'  BY Step
<1>3. IInv => AppliedOnce  BY DEF IInv, Building, AppliedOnce, Replays, Skips
<1> QED BY <1>1, <1>2, <1>3, PTL DEF Spec

(***************************************************************************)
(* And no file is ever judged by other SQL than its migration will issue:  *)
(* what extraction cannot get right it does not answer.                    *)
(***************************************************************************)
THEOREM NeverAWrongVerdict == ASSUME Orderly PROVE Spec => []MissingNeverWrong
<1>1. Init => IInv  BY InitIInv
<1>2. IInv /\ [Next]_vars => IInv'  BY Step
<1>3. IInv => MissingNeverWrong  BY DEF IInv
<1> QED BY <1>1, <1>2, <1>3, PTL DEF Spec
=============================================================================
