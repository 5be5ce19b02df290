------------------------------- MODULE Engine -------------------------------
(***************************************************************************)
(* assess_script (verdict/engine.py) reads a migration file statement by   *)
(* statement and gives each a tier.  It carries what it believes of the    *)
(* file: the relations the file created (_FileState) and the locks the     *)
(* open transaction group has taken (group_locks).                         *)
(*                                                                         *)
(* Beside it runs the Postgres session that would execute the same file    *)
(* (db, saved, inTxn, pgLocks, alive): which relations exist and where     *)
(* each came from, and what the session holds.  The code never sees it; it *)
(* is what the verdicts are about.                                         *)
(*                                                                         *)
(* A statement is one of Statements: its catalog rows as resolve() returns *)
(* them, each with the answers the duration and narrowing modules would    *)
(* give for it against the snapshot, and its effect on the schema.         *)
(***************************************************************************)
EXTENDS Verdicts, FiniteSets, Functions

CONSTANTS
    Names,          \* relation names
    Schemas,        \* schemas a name may be qualified with
    DefaultSchema,  \* where an unqualified name resolves
    Quoted,         \* names probe_name has to quote (mixed case)
    Statements,     \* the statements a file may hold
    Snapshots,      \* what capture may have returned before the file runs
    MaxStatements,  \* bound: the length of a file
    Nothing         \* no statement assessed yet

Unqualified == ""
Relations == [schema : Schemas \cup {Unqualified}, name : Names]
Unnamed == [schema |-> Unqualified, name |-> ""]
RealNames == [schema : Schemas, name : Names]

Locks == [rel : Relations \cup {Unnamed}, mode : 0..9, certain : BOOLEAN]
Estimates == [point : Nat, high : Nat, spread : Nat \ {0}]

NarrowOutcomes == {"none", "unresolved", "constant", "proportional", "keep_model"}

\* What narrow_action answers: its outcome, the lock on the referenced table
\* it adds, whether it attached conditions, proved a pure relabel, or found
\* only dependent indexes to rebuild.
NarrowResults == [outcome : NarrowOutcomes, extra : SUBSET Locks,
                  conditions : BOOLEAN, relabel : BOOLEAN, rebuild : BOOLEAN]

Shapes == {"plain", "read", "loading_create", "insert_select", "matched_dml", "all_rows_dml"}
DurationModels == {"constant", "rows", "index_size", "rows_matched"}

\* A catalog row resolved for the statement.  hidden: locks Postgres takes
\* for it that the row does not name.
Rows == [avail : BOOLEAN, known : BOOLEAN, forbidden : BOOLEAN, shape : Shapes,
         live : BOOLEAN, model : DurationModels, locks : SUBSET Locks,
         sized : Relations \cup {Unnamed}, estimate : Estimates \cup {CannotEstimate},
         narrow : NarrowResults, irreversible : BOOLEAN, hidden : SUBSET Locks]

\* create_other: a view, a sequence, a foreign table.
TxnControl == {"begin", "commit", "rollback"}
Creates == {"create", "create_as", "create_other"}
Ops == TxnControl \cup Creates \cup
       {"drop", "rename", "create_index", "fill", "vanish", "other"}

\* vanish: a relation removed or moved by a statement observe() does not
\* follow (DROP MATERIALIZED VIEW, SET SCHEMA).  lenient: IF [NOT] EXISTS.
\* listed: the list of _baseline_shaped the statement's kind is in.
StatementType ==
    [op : Ops, target : Relations \cup {Unnamed}, targets : SUBSET Relations, parents : SUBSET Relations,
     newName : Names \cup {""}, lenient : BOOLEAN, chain : BOOLEAN, rows : SUBSET Rows,
     inDo : BOOLEAN, guarded : BOOLEAN, opaque : BOOLEAN,
     listed : {"creates", "references", "drops", "no"}]

Waiters == [rel : RealNames, modes : SUBSET TableModes, idle : BOOLEAN]
SnapshotType == [online : BOOLEAN, captured : SUBSET RealNames, waiters : SUBSET Waiters]

ASSUME NamesAssumption == "" \notin Names
ASSUME SchemasAssumption == DefaultSchema \in Schemas /\ Unqualified \notin Schemas
ASSUME StatementsAssumption ==
    \A s \in Statements :
        /\ s \in StatementType
        /\ s.op \in Creates \cup {"rename", "create_index", "fill"} => s.target \in s.targets
        /\ s.op \in {"rename", "create_index"} => s.newName \in Names
        /\ s.listed = "creates" => s.op \in Creates /\ s.targets = {s.target}
        /\ s.listed = "references" /\ s.newName # "" => s.op \in {"rename", "create_index"}
        /\ s.listed # "no" => ~s.inDo /\ ~s.guarded
        /\ s.op \in TxnControl => ~s.guarded /\ \A r \in s.rows : r.locks = {} /\ r.hidden = {}
ASSUME SnapshotsAssumption ==
    \A s \in Snapshots : s \in SnapshotType /\ \A w \in s.waiters : w.rel \in s.captured
ASSUME MaxStatementsAssumption == MaxStatements \in Nat

VARIABLES
    baseline,   \* script.baseline_shaped
    snapshot,   \* the LiveSnapshot, or offline
    created,    \* _FileState.created
    ownNames,   \* the names _baseline_shaped has seen created
    explicit,   \* the statement is inside an explicit transaction group
    held,       \* group_locks of that group
    db,         \* Postgres: relation |-> "pre" (there before the file) or "file"
    saved,      \* Postgres: db when the transaction began
    inTxn,      \* Postgres: a transaction block is open
    pgLocks,    \* Postgres: blocking locks the open transaction holds
    alive,      \* no statement has failed so far
    last,       \* the last statement assessed, with its tier and what it met
    count       \* statements assessed

inputVars == <<baseline, snapshot>>
engineVars == <<created, ownNames, explicit, held>>
pgVars == <<db, saved, inTxn, pgLocks, alive>>
vars == <<baseline, snapshot, created, ownNames, explicit, held,
          db, saved, inTxn, pgLocks, alive, last, count>>

\* The relation Postgres finds under a name.
Real(rel) ==
    [schema |-> IF rel.schema = Unqualified THEN DefaultSchema ELSE rel.schema,
     name |-> rel.name]

-----------------------------------------------------------------------------
(* What the engine knows of a relation.                                    *)

\* _FileState.state_of and state_of_label: by unqualified name.
StateOf(rel) ==
    IF baseline THEN "clean"
    ELSE IF rel.name \in DOMAIN created THEN created[rel.name]
    ELSE "none"

NamedLocks(locks) == {l \in locks : l.rel # Unnamed /\ l.mode \in TableModes}

\* Slip: contention looked up under the name the migration wrote.
SnapshotNameAsWritten(rel) == rel

\* The name contention is looked up under: the snapshot knows a relation by
\* probe_name(name), the lookup asks for str(name).
SnapshotName(rel) ==
    IF /\ rel.schema = Unqualified
       /\ rel.name \notin Quoted
       /\ Real(rel) \in snapshot.captured
    THEN Real(rel)
    ELSE rel

\* Waiters whose traffic conflicts with a lock.
Contenders(l) ==
    {w \in snapshot.waiters : /\ w.rel = SnapshotName(l.rel)
                              /\ w.modes \cap ConflictsWith(l.mode) # {}}

ContentionObserved(locks) ==
    snapshot.online /\ \E l \in NamedLocks(locks) : Contenders(l) # {}

\* Slip: an idle holder counts like an active one.
ContentionActiveOrIdle(locks) == ContentionObserved(locks)

ContentionActive(locks) ==
    snapshot.online /\ \E l \in NamedLocks(locks) : \E w \in Contenders(l) : ~w.idle

LiveAelRelations(locks) ==
    IF baseline THEN {}
    ELSE {l.rel : l \in {k \in locks : /\ k.certain
                                       /\ k.mode = AccessExclusive
                                       /\ StateOf(k.rel) = "none"}}

FloorForAccessExclusive(tier, locks) ==
    IF tier \in SafeTiers /\ LiveAelRelations(locks) # {} THEN "NEEDS_TIMING" ELSE tier

FileLocal(r) ==
    \/ baseline
    \/ /\ \E l \in r.locks : l.certain /\ l.mode \in TableModes
       /\ \A l \in r.locks : l.certain /\ l.mode \in TableModes => l.rel # Unnamed
       /\ \A l \in r.locks : l.certain /\ l.rel # Unnamed => StateOf(l.rel) # "none"

-----------------------------------------------------------------------------
(* Durations.                                                              *)

\* Slip: sizes believed without a snapshot.
CapturedAlways(rel) == rel # Unnamed

Captured(rel) == snapshot.online /\ rel # Unnamed /\ Real(rel) \in snapshot.captured

RowsEstimate(r) ==
    IF r.sized # Unnamed /\ StateOf(r.sized) = "clean" THEN ConstantOp
    ELSE IF r.sized # Unnamed /\ StateOf(r.sized) = "none" /\ Captured(r.sized) THEN r.estimate
    ELSE CannotEstimate

BytesEstimate(r) == IF Captured(r.sized) THEN r.estimate ELSE CannotEstimate

\* Rebuilding dependent indexes is not refused for a bulk-loaded relation.
RebuildEstimate(r) ==
    IF r.sized # Unnamed /\ StateOf(r.sized) = "clean" THEN ConstantOp ELSE BytesEstimate(r)

NarrowedEstimate(r) == IF r.narrow.rebuild THEN RebuildEstimate(r) ELSE RowsEstimate(r)

ModelEstimate(r) ==
    CASE r.model = "constant"     -> ConstantOp
      [] r.model = "rows"         -> RowsEstimate(r)
      [] r.model = "index_size"   -> BytesEstimate(r)
      [] r.model = "rows_matched" -> CannotEstimate

FileLocalDuration(r) ==
    IF r.model # "constant" /\ r.sized # Unnamed /\ StateOf(r.sized) = "loaded"
    THEN CannotEstimate
    ELSE ConstantOp

-----------------------------------------------------------------------------
(* _assess_row.                                                            *)

\* The branch a row takes: the first condition of the chain that holds.
Branch(s, r) ==
    IF ~r.avail THEN "unavailable"
    ELSE IF ~r.known THEN "unmodelled"
    ELSE IF r.forbidden /\ (explicit \/ s.inDo) THEN "forbidden"
    ELSE IF FileLocal(r) THEN "file_local"
    ELSE IF r.shape # "plain" THEN r.shape
    ELSE IF ~r.live THEN "generic"
    ELSE IF ~snapshot.online \/ r.narrow.outcome \in {"none", "unresolved"} THEN "no_context"
    ELSE IF r.narrow.outcome = "keep_model" THEN "generic"
    ELSE r.narrow.outcome

\* narrow_action was asked and its answer applied.
Narrowed(s, r) ==
    /\ snapshot.online /\ r.live /\ r.narrow.outcome # "none"
    /\ Branch(s, r) \in {"no_context", "generic", "constant", "proportional"}

LocksOf(s, r) == IF Narrowed(s, r) THEN r.locks \cup r.narrow.extra ELSE r.locks

DurationOf(s, r) ==
    LET b == Branch(s, r)
    IN  CASE b = "file_local"   -> FileLocalDuration(r)
          [] b = "generic"      -> ModelEstimate(r)
          [] b = "constant"     -> ConstantOp
          [] b = "proportional" -> NarrowedEstimate(r)
          [] b = "all_rows_dml" -> RowsEstimate(r)
          [] b \in {"unavailable", "unmodelled", "forbidden", "read", "loading_create",
                    "insert_select", "matched_dml", "no_context"} -> CannotEstimate

GenericVerdict(r, locks) ==
    CASE r.model = "constant"     -> ConstantVerdict(locks)
      [] r.model = "rows_matched" -> "UNKNOWN"
      [] r.model \in {"rows", "index_size"} ->
            ProportionalVerdict(locks, ModelEstimate(r), LiveAelRelations(locks) # {})

\* The tier before conditions, contention, the floor and the guard.
BaseTier(s, r) ==
    LET b == Branch(s, r)
        locks == LocksOf(s, r)
    IN  CASE b \in {"unavailable", "forbidden"}        -> "UNSAFE"
          [] b \in {"unmodelled", "no_context"}        -> "UNKNOWN"
          [] b \in {"file_local", "read"}              -> "SAFE"
          [] b \in {"loading_create", "insert_select"} -> "NEEDS_TIMING"
          [] b = "matched_dml"  -> MatchedDmlVerdict(RowsEstimate(r))
          [] b = "all_rows_dml" -> AllRowsDmlVerdict(RowsEstimate(r))
          [] b = "constant"     -> ConstantVerdict(locks)
          [] b = "proportional" ->
                ProportionalVerdict(locks, NarrowedEstimate(r), LiveAelRelations(locks) # {})
          [] b = "generic"      -> GenericVerdict(r, locks)

\* Conditions the narrowing attached soften a worse outcome to NEEDS_TIMING.
SoftenForConditions(s, r, tier) ==
    IF Narrowed(s, r) /\ r.narrow.conditions /\ tier \in {"NEEDS_TIMING", "UNSAFE"}
    THEN "NEEDS_TIMING"
    ELSE tier

AssessRow(s, r) ==
    LET locks == LocksOf(s, r)
        base == SoftenForConditions(s, r, BaseTier(s, r))
        escalated == EscalateForContention(base, ContentionObserved(locks), ContentionActive(locks))
        floored == FloorForAccessExclusive(escalated, locks)
    IN  [row |-> r, locks |-> locks, base |-> base,
         tier |-> IF s.guarded THEN CapForGuard(floored) ELSE floored,
         constantOp |-> DurationOf(s, r) = ConstantOp,
         undoable |-> ~r.irreversible \/ (Narrowed(s, r) /\ r.narrow.relabel)]

-----------------------------------------------------------------------------
(* One statement of assess_script's loop.                                  *)

CombineRows(results) ==
    IF results = {} THEN "UNKNOWN" ELSE WorseClassification({x.tier : x \in results})

\* Dynamic SQL or an unparsed body: the whole effect is unknown.
CombineOpaque(s, tier) == IF s.opaque /\ tier # "UNSAFE" THEN "UNKNOWN" ELSE tier

CombineIrreversible(results, tier) ==
    IF tier = "SAFE" /\ \E x \in results : ~x.undoable THEN "SAFE_IRREVERSIBLE" ELSE tier

\* Slip: SHARE itself not counted as blocking.
BlockingHeldAboveShare == {h \in held : h.mode > Share}

BlockingHeld == {h \in held : h.mode >= Share}

\* Running long while the group holds blocking locks is not safe.
CombineHeld(results, tier) ==
    IF BlockingHeld # {} /\ tier \in SafeTiers /\ \E x \in results : ~x.constantOp
    THEN "NEEDS_TIMING"
    ELSE tier

StatementTier(s, results) ==
    CombineHeld(results,
        CombineIrreversible(results, CombineOpaque(s, CombineRows(results))))

\* Slip: every lock recorded, whatever its mode.
HeldAfterAnyMode(s) ==
    IF explicit
    THEN held \cup {[rel |-> l.rel, mode |-> l.mode] : l \in UNION {r.locks : r \in s.rows}}
    ELSE held

\* group_locks after the statement (a new group starts with none).
HeldAfter(s) ==
    IF s.op \in TxnControl THEN (IF s.op = "begin" /\ explicit THEN held ELSE {})
    ELSE IF explicit
         THEN held \cup {[rel |-> l.rel, mode |-> l.mode] :
                            l \in {k \in UNION {r.locks : r \in s.rows} :
                                      k.certain /\ k.mode \in RowExclusive..AccessExclusive}}
         ELSE held

\* Slip: AND CHAIN not seen.
ExplicitAfterNoChain(s) ==
    CASE s.op = "begin" -> TRUE
      [] s.op \in {"commit", "rollback"} -> FALSE
      [] OTHER -> explicit

\* _group_transactions, one statement at a time.
ExplicitAfter(s) ==
    CASE s.op = "begin" -> TRUE
      [] s.op \in {"commit", "rollback"} -> explicit /\ s.chain
      [] OTHER -> explicit

Without(f, S) == Restrict(f, DOMAIN f \ S)
With(f, x, v) == [y \in DOMAIN f \cup {x} |-> IF y = x THEN v ELSE f[y]]

\* Slip: a dropped relation stays the file's own.
CreatedAfterKeepsDropped(s) ==
    CASE s.op = "create"    -> With(created, s.target.name, "clean")
      [] s.op = "create_as" -> With(created, s.target.name, "loaded")
      [] OTHER -> created

\* Slip: any renamed relation becomes the file's own.
CreatedAfterAdoptsRenamed(s) ==
    CASE s.op = "create" -> With(created, s.target.name, "clean")
      [] s.op = "drop"   -> Without(created, {x.name : x \in s.targets})
      [] s.op = "rename" -> With(Without(created, {s.target.name}), s.newName, "clean")
      [] OTHER -> created

\* _FileState.observe.
CreatedAfter(s) ==
    LET t == s.target.name
    IN  CASE s.op = "create"    -> With(created, t, "clean")
          [] s.op = "create_as" -> With(created, t, "loaded")
          [] s.op = "drop"      -> Without(created, {x.name : x \in s.targets})
          [] s.op = "rename" /\ t \in DOMAIN created ->
                With(Without(created, {t}), s.newName, created[t])
          [] s.op = "fill" /\ t \in DOMAIN created -> With(created, t, "loaded")
          [] OTHER -> created

\* _baseline_shaped: the names a statement adds, and what a statement of a
\* baseline file may refer to.
OwnNamesAfter(s) ==
    CASE s.listed = "creates" -> ownNames \cup {x.name : x \in s.targets}
      [] s.listed = "references" /\ s.newName # "" -> ownNames \cup {s.newName}
      [] OTHER -> ownNames

\* Slip: a plain DROP let through like DROP IF EXISTS.
BaselineAcceptsDrops(s) ==
    s.listed = "references" => \A x \in s.targets : x.name \in ownNames

BaselineAccepts(s) ==
    /\ s.listed = "creates" => \A x \in s.parents : x.name \in OwnNamesAfter(s)
    /\ s.listed = "references" => \A x \in s.targets : x.name \in ownNames
    /\ s.listed = "drops" /\ ~s.lenient => \A x \in s.targets : x.name \in ownNames

-----------------------------------------------------------------------------
(* The Postgres session the file is for.                                   *)

RealLocks(s) ==
    UNION {{l \in r.locks : l.certain /\ l.rel # Unnamed} \cup r.hidden : r \in s.rows}

RealTargets(s) == {Real(x) : x \in s.targets}
NewReal(s) == [schema |-> Real(s.target).schema, name |-> s.newName]

\* The statement errors: a form that cannot run there, a missing or an
\* already existing relation, a chained COMMIT with nothing to commit.
PgRejects(s) ==
    \/ \E r \in s.rows : ~r.avail \/ (r.forbidden /\ (inTxn \/ s.inDo))
    \/ ~s.lenient /\ \E l \in RealLocks(s) : l.mode \in TableModes /\ Real(l.rel) \notin DOMAIN db
    \/ ~s.lenient /\ s.op \in {"drop", "rename", "vanish", "create_index"}
                  /\ ~(RealTargets(s) \subseteq DOMAIN db)
    \/ ~s.lenient /\ s.op \in Creates /\ Real(s.target) \in DOMAIN db
    \/ ~s.lenient /\ s.op = "create_index" /\ NewReal(s) \in DOMAIN db
    \/ s.op = "rename" /\ Real(s.target) \in DOMAIN db /\ NewReal(s) \in DOMAIN db
    \/ s.op \in {"commit", "rollback"} /\ s.chain /\ ~inTxn

DbAfter(s) ==
    CASE s.op \in Creates /\ Real(s.target) \notin DOMAIN db ->
            With(db, Real(s.target), "file")
      [] s.op = "create_index" /\ NewReal(s) \notin DOMAIN db -> With(db, NewReal(s), "file")
      [] s.op \in {"drop", "vanish"} -> Without(db, RealTargets(s))
      [] s.op = "rename" /\ Real(s.target) \in DOMAIN db ->
            With(Without(db, {Real(s.target)}), NewReal(s), db[Real(s.target)])
      [] s.op = "rollback" /\ inTxn -> saved
      [] OTHER -> db

\* The script stops at the first error.
PgStops(s) ==
    /\ ~alive \/ PgRejects(s)
    /\ alive' = FALSE
    /\ UNCHANGED <<db, saved, inTxn, pgLocks>>

\* A guarded block whose existence check says there is nothing to do.
PgSkips(s) ==
    /\ alive /\ s.guarded
    /\ UNCHANGED pgVars

PgExecutes(s) ==
    /\ alive /\ ~PgRejects(s)
    /\ db' = DbAfter(s)
    /\ inTxn' = CASE s.op = "begin" -> TRUE
                  [] s.op \in {"commit", "rollback"} -> s.chain
                  [] OTHER -> inTxn
    /\ saved' = IF inTxn /\ ~(s.op \in {"commit", "rollback"}) THEN saved ELSE DbAfter(s)
    /\ pgLocks' = IF ~inTxn \/ s.op \in {"commit", "rollback"} THEN {}
                  ELSE pgLocks \cup {l.mode : l \in {k \in RealLocks(s) : k.mode \in Share..AccessExclusive}}
    /\ UNCHANGED alive

-----------------------------------------------------------------------------
Init ==
    /\ baseline \in BOOLEAN
    /\ snapshot \in Snapshots
    /\ created = [x \in {} |-> "clean"]
    /\ ownNames = {}
    /\ explicit = FALSE
    /\ held = {}
    /\ \E pre \in SUBSET RealNames :
          /\ snapshot.online => pre = snapshot.captured
          /\ db = [x \in pre |-> "pre"]
    /\ saved = db
    /\ inTxn = FALSE
    /\ pgLocks = {}
    /\ alive = TRUE
    /\ last = Nothing
    /\ count = 0

\* What is remembered of an assessment: the statement, its rows' results, its
\* tier, and what the session was like when the statement came up.
Report(s, results) ==
    [stmt |-> s, results |-> results, tier |-> StatementTier(s, results),
     ran |-> alive /\ ~PgRejects(s), fails |-> alive /\ PgRejects(s),
     inTxn |-> inTxn, holding |-> pgLocks # {},
     liveRels |-> {x \in DOMAIN db : db[x] = "pre"}]

AssessStatement(s) ==
    /\ count < MaxStatements
    /\ baseline => BaselineAccepts(s)
    /\ last' = Report(s, {AssessRow(s, r) : r \in s.rows})
    /\ created' = CreatedAfter(s)
    /\ ownNames' = OwnNamesAfter(s)
    /\ explicit' = ExplicitAfter(s)
    /\ held' = HeldAfter(s)
    /\ PgStops(s) \/ PgSkips(s) \/ PgExecutes(s)
    /\ count' = count + 1
    /\ UNCHANGED inputVars

Next == \E s \in Statements : AssessStatement(s)

Spec == Init /\ [][Next]_vars
-----------------------------------------------------------------------------
(* The engine follows one schema and what observe() is told.  A statement  *)
(* is plain when nothing in it is outside that view: its names mean one    *)
(* schema; it creates outright, never IF NOT EXISTS, and creates or        *)
(* renames outside existence guards; it rolls nothing back                 *)
(* and removes nothing observe() does not follow; and it takes no blocking *)
(* lock its catalog row does not name.                                     *)
Plain(s) ==
    /\ \A x \in s.targets : x.schema \in {Unqualified, DefaultSchema}
    /\ \A l \in RealLocks(s) : l.rel.schema \in {Unqualified, DefaultSchema}
    /\ s.op \in Creates \cup {"create_index"} => ~s.lenient
    /\ s.op \in Creates \cup {"create_index", "rename"} => ~s.guarded
    /\ s.op = "rename" => s.listed = "references" /\ ~s.lenient
    /\ s.op \notin {"rollback", "vanish"}
    /\ \A r \in s.rows : \A l \in r.hidden : l.mode < Share

TypeOK ==
    /\ baseline \in BOOLEAN
    /\ snapshot \in Snapshots
    /\ created \in UNION {[S -> {"clean", "loaded"}] : S \in SUBSET Names}
    /\ ownNames \subseteq Names
    /\ explicit \in BOOLEAN
    /\ held \subseteq [rel : Relations \cup {Unnamed}, mode : RowExclusive..AccessExclusive]
    /\ db \in UNION {[S -> {"pre", "file"}] : S \in SUBSET RealNames}
    /\ saved \in UNION {[S -> {"pre", "file"}] : S \in SUBSET RealNames}
    /\ inTxn \in BOOLEAN
    /\ pgLocks \subseteq Share..AccessExclusive
    /\ alive \in BOOLEAN
    /\ count \in 0..MaxStatements
    /\ last # Nothing => last.tier \in Tiers

DefaultRel(n) == [schema |-> DefaultSchema, name |-> n]

\* What the engine carries from statement to statement is true of the
\* session, as long as the file runs: it knows whether a transaction block is
\* open, every blocking lock the session holds is in the group's list, a name
\* it takes for file-created is a relation the file created, and in a
\* baseline file so is every name the detector counts as the file's own.
FileFactsSound ==
    alive =>
        /\ inTxn = explicit
        /\ \A m \in pgLocks : \E h \in held : h.mode = m
        /\ \A n \in DOMAIN created : DefaultRel(n) \in DOMAIN db /\ db[DefaultRel(n)] = "file"
        /\ baseline => \A n \in ownNames : DefaultRel(n) \in DOMAIN db => db[DefaultRel(n)] = "file"

\* Locks the statement takes on relations that were there before the file.
LiveLocks(rep) == {l \in RealLocks(rep.stmt) : Real(l.rel) \in rep.liveRels}

\* "Any ACCESS EXCLUSIVE acquisition on a relation that existed before the
\* file" needs timing (verdict/model.py, Classification): no statement of an
\* ordinary file that will run, and will lock such a relation ACCESS
\* EXCLUSIVE, is in a safe tier, whatever the file created, dropped, renamed
\* or loaded before it.
LiveAelNeverSafe ==
    (/\ last # Nothing
     /\ ~baseline
     /\ last.ran
     /\ \E l \in LiveLocks(last) : l.mode = AccessExclusive)
    => last.tier \notin SafeTiers

\* A baseline-shaped file is assessed as if it ran against an empty database.
\* What makes that true is the detector (parser.py, _baseline_shaped): no
\* relation a listed statement alters, indexes, fills or drops outright was
\* there before the file.
BaselineOwnsItsTargets ==
    (/\ last # Nothing
     /\ baseline
     /\ last.ran
     /\ \/ last.stmt.listed = "references"
        \/ last.stmt.listed = "drops" /\ ~last.stmt.lenient)
    => RealTargets(last.stmt) \cap last.liveRels = {}

\* assess_script: offline, every size- or state-dependent judgment degrades
\* to UNKNOWN, never to UNSAFE.  Only what the catalog and the grammar prove
\* is UNSAFE offline: a form the version lacks, or one its surroundings forbid.
OfflineUnsafeIsProven ==
    (last # Nothing /\ ~snapshot.online /\ last.tier = "UNSAFE")
    => \E r \in last.stmt.rows : ~r.avail \/ r.forbidden

\* worse_classification: a statement is never called safe, or a matter of
\* timing, while a piece of it is undecided; and no piece is worse than it.
UndecidedNeverCleared ==
    last # Nothing =>
        /\ (last.stmt.opaque \/ \E x \in last.results : x.tier = "UNKNOWN")
             => last.tier \in {"UNKNOWN", "UNSAFE"}
        /\ \A x \in last.results : CombineRank(x.tier) <= CombineRank(last.tier)

\* Contention moves a row one tier at most, and the floor moves none into
\* UNSAFE: a row that is UNSAFE was so on its own, or needed timing on its
\* own and meets traffic that is not idle.
NoDoubleEscalation ==
    last # Nothing =>
        \A x \in last.results :
            (x.tier = "UNSAFE" /\ x.base # "UNSAFE")
            => /\ x.base = "NEEDS_TIMING"
               /\ \E l \in x.locks, w \in snapshot.waiters :
                     ~w.idle /\ w.rel = Real(l.rel) /\ w.modes \cap ConflictsWith(l.mode) # {}

\* Conflicting traffic the snapshot saw on a relation the statement names is
\* never missed: the statement is not in a safe tier.
ContentionSeen ==
    (/\ last # Nothing
     /\ snapshot.online
     /\ \E x \in last.results : \E l \in NamedLocks(x.row.locks) :
           \E w \in snapshot.waiters :
              w.rel = Real(l.rel) /\ w.modes \cap ConflictsWith(l.mode) # {})
    => last.tier \notin SafeTiers

\* A statement that cannot run in a transaction block is UNSAFE whenever the
\* session is in one by the time it comes up, whatever BEGIN, COMMIT and
\* chained ends came before it.
ForbiddenInTransaction ==
    (/\ last # Nothing
     /\ last.fails /\ last.inTxn /\ ~last.stmt.guarded
     /\ \E r \in last.stmt.rows : r.avail /\ r.known /\ r.forbidden)
    => last.tier = "UNSAFE"

\* A statement that may run long while its transaction really holds locks
\* that block writes is never in a safe tier: its runtime extends theirs.
LongRunUnderLocks ==
    (/\ last # Nothing
     /\ last.ran /\ last.holding
     /\ \E x \in last.results : ~x.constantOp)
    => last.tier \notin SafeTiers

=============================================================================
