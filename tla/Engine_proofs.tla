---------------------------- MODULE Engine_proofs ----------------------------
(***************************************************************************)
(* Proofs about Engine, for every set of statements, names and snapshots.  *)
(***************************************************************************)
EXTENDS Engine, TLAPS

(***************************************************************************)
(* The tiers form a chain, so the worst of several parts is one of them    *)
(* and none is worse (verdict/model.py, worse_classification).             *)
(***************************************************************************)
LEMMA WorstOfSeveral ==
    ASSUME NEW T \in SUBSET Tiers, T # {}
    PROVE  /\ WorseClassification(T) \in T
           /\ \A u \in T : CombineRank(u) <= CombineRank(WorseClassification(T))
<1>1. \E t \in T : \A u \in T : CombineRank(u) <= CombineRank(t)
    <2>1. CASE "UNSAFE" \in T
        BY <2>1 DEF Tiers, CombineRank
    <2>2. CASE "UNSAFE" \notin T /\ "UNKNOWN" \in T
        BY <2>2 DEF Tiers, CombineRank
    <2>3. CASE "UNSAFE" \notin T /\ "UNKNOWN" \notin T /\ "NEEDS_TIMING" \in T
        BY <2>3 DEF Tiers, CombineRank
    <2>4. CASE T \subseteq SafeTiers /\ "SAFE_IRREVERSIBLE" \in T
        BY <2>4 DEF SafeTiers, CombineRank
    <2>5. CASE T = {"SAFE"}
        BY <2>5 DEF CombineRank
    <2> QED BY <2>1, <2>2, <2>3, <2>4, <2>5 DEF Tiers, SafeTiers
<1> QED BY <1>1 DEF WorseClassification

(***************************************************************************)
(* Every rule for a row answers with a tier.                               *)
(***************************************************************************)
LEMMA BandIsTier == \A high, block : Band(high, block) \in Tiers
BY DEF Band, Tiers

LEMMA ProportionalIsTier ==
    \A locks, d, live : ProportionalVerdict(locks, d, live) \in Tiers
BY BandIsTier, Zenon DEF ProportionalVerdict, Tiers

LEMMA BranchRange ==
    ASSUME NEW s, NEW r \in Rows
    PROVE  Branch(s, r) \in {"unavailable", "unmodelled", "forbidden", "file_local", "read",
                             "loading_create", "insert_select", "matched_dml", "all_rows_dml",
                             "generic", "no_context", "constant", "proportional"}
BY DEF Branch, Rows, Shapes, NarrowResults, NarrowOutcomes

LEMMA BaseIsTier ==
    ASSUME NEW s, NEW r \in Rows
    PROVE  BaseTier(s, r) \in Tiers
<1> DEFINE locks == LocksOf(s, r)
<1>1. GenericVerdict(r, locks) \in Tiers
    <2>1. r.model \in DurationModels  BY DEF Rows
    <2> QED BY <2>1, ProportionalIsTier DEF GenericVerdict, DurationModels, ConstantVerdict, Tiers
<1>2. ConstantVerdict(locks) \in Tiers  BY DEF ConstantVerdict, Tiers
<1>3. MatchedDmlVerdict(RowsEstimate(r)) \in Tiers  BY DEF MatchedDmlVerdict, Tiers
<1>4. AllRowsDmlVerdict(RowsEstimate(r)) \in Tiers  BY BandIsTier, Zenon DEF AllRowsDmlVerdict, Tiers
<1>5. ProportionalVerdict(locks, NarrowedEstimate(r), LiveAelRelations(locks) # {}) \in Tiers
    BY ProportionalIsTier
<1> HIDE DEF locks
<1>6. {"UNSAFE", "UNKNOWN", "SAFE", "NEEDS_TIMING"} \subseteq Tiers  BY DEF Tiers
<1> QED BY <1>1, <1>2, <1>3, <1>4, <1>5, <1>6, BranchRange DEF BaseTier, locks

LEMMA AssessRowIsTier ==
    ASSUME NEW s, NEW r \in Rows
    PROVE  AssessRow(s, r).tier \in Tiers
<1>1. BaseTier(s, r) \in Tiers  BY BaseIsTier
<1>2. SoftenForConditions(s, r, BaseTier(s, r)) \in Tiers  BY <1>1 DEF SoftenForConditions, Tiers
<1>3. \A t \in Tiers : \A o, a : EscalateForContention(t, o, a) \in Tiers
    BY DEF EscalateForContention, Tiers
<1>4. \A t \in Tiers : \A l : FloorForAccessExclusive(t, l) \in Tiers
    BY DEF FloorForAccessExclusive, Tiers
<1>5. \A t \in Tiers : CapForGuard(t) \in Tiers  BY DEF CapForGuard, Tiers
<1> QED BY <1>2, <1>3, <1>4, <1>5 DEF AssessRow

LEMMA StatementTierIsTier ==
    ASSUME NEW s \in Statements
    PROVE  StatementTier(s, {AssessRow(s, r) : r \in s.rows}) \in Tiers
<1> DEFINE results == {AssessRow(s, r) : r \in s.rows}
<1>1. s.rows \subseteq Rows  BY StatementsAssumption DEF StatementType
<1>2. \A x \in results : x.tier \in Tiers  BY <1>1, AssessRowIsTier
<1> HIDE DEF results
<1>3. CombineRows(results) \in Tiers
    <2>1. CASE results = {}  BY <2>1 DEF CombineRows, Tiers
    <2>2. CASE results # {}
        <3>1. {x.tier : x \in results} \in SUBSET Tiers /\ {x.tier : x \in results} # {}
            BY <1>2, <2>2
        <3> QED BY <3>1, <2>2, WorstOfSeveral DEF CombineRows
    <2> QED BY <2>1, <2>2
<1>4. \A t \in Tiers : CombineOpaque(s, t) \in Tiers  BY DEF CombineOpaque, Tiers
<1>5. \A t \in Tiers : CombineIrreversible(results, t) \in Tiers  BY DEF CombineIrreversible, Tiers
<1>6. \A t \in Tiers : CombineHeld(results, t) \in Tiers  BY DEF CombineHeld, Tiers
<1>7. StatementTier(s, results) \in Tiers  BY <1>3, <1>4, <1>5, <1>6 DEF StatementTier
<1> QED BY <1>7 DEF results

-----------------------------------------------------------------------------
(***************************************************************************)
(* Facts about the two function updates.                                   *)
(***************************************************************************)
Partial(D, R) == UNION {[S -> R] : S \in SUBSET D}

LEMMA PartialIs ==
    ASSUME NEW D, NEW R, NEW f
    PROVE  f \in Partial(D, R) <=>
              f = [x \in DOMAIN f |-> f[x]] /\ DOMAIN f \subseteq D /\ \A x \in DOMAIN f : f[x] \in R
<1>1. ASSUME f \in Partial(D, R)
      PROVE  f = [x \in DOMAIN f |-> f[x]] /\ DOMAIN f \subseteq D /\ \A x \in DOMAIN f : f[x] \in R
    <2>1. PICK S \in SUBSET D : f \in [S -> R]  BY <1>1 DEF Partial
    <2> QED BY <2>1
<1>2. ASSUME f = [x \in DOMAIN f |-> f[x]], DOMAIN f \subseteq D, \A x \in DOMAIN f : f[x] \in R
      PROVE  f \in Partial(D, R)
    <2>1. f \in [DOMAIN f -> R]  BY <1>2
    <2> QED BY <2>1, <1>2 DEF Partial
<1> QED BY <1>1, <1>2

LEMMA WithoutIs ==
    ASSUME NEW f, NEW S
    PROVE  /\ DOMAIN Without(f, S) = DOMAIN f \ S
           /\ \A y \in DOMAIN f \ S : Without(f, S)[y] = f[y]
BY DEF Without, Restrict

LEMMA WithPartial ==
    ASSUME NEW D, NEW R, NEW f \in Partial(D, R), NEW x \in D, NEW v \in R
    PROVE  /\ With(f, x, v) \in Partial(D, R)
           /\ DOMAIN With(f, x, v) = DOMAIN f \cup {x}
           /\ With(f, x, v)[x] = v
           /\ \A y \in DOMAIN f : y # x => With(f, x, v)[y] = f[y]
<1> DEFINE g == With(f, x, v)
<1>1. /\ DOMAIN f \subseteq D
      /\ \A y \in DOMAIN f : f[y] \in R
    BY PartialIs
<1>2. g = [y \in DOMAIN f \cup {x} |-> IF y = x THEN v ELSE f[y]]  BY DEF With
<1>3. DOMAIN g = DOMAIN f \cup {x}  BY <1>2
<1>4. g[x] = v /\ \A y \in DOMAIN f : y # x => g[y] = f[y]  BY <1>2
<1>5. g = [y \in DOMAIN g |-> g[y]] /\ DOMAIN g \subseteq D /\ \A y \in DOMAIN g : g[y] \in R
    BY <1>1, <1>2, <1>3, <1>4
<1> HIDE DEF g
<1>6. g \in Partial(D, R)  BY <1>5, PartialIs
<1> QED BY <1>3, <1>4, <1>6 DEF g

LEMMA WithoutPartial ==
    ASSUME NEW D, NEW R, NEW f \in Partial(D, R), NEW S
    PROVE  /\ Without(f, S) \in Partial(D, R)
           /\ DOMAIN Without(f, S) = DOMAIN f \ S
           /\ \A y \in DOMAIN f \ S : Without(f, S)[y] = f[y]
<1> DEFINE g == Without(f, S)
<1>1. /\ DOMAIN f \subseteq D
      /\ \A y \in DOMAIN f : f[y] \in R
    BY PartialIs
<1>2. g = [y \in DOMAIN f \ S |-> f[y]]  BY DEF Without, Restrict
<1>3. DOMAIN g = DOMAIN f \ S /\ \A y \in DOMAIN f \ S : g[y] = f[y]  BY <1>2
<1>4. g = [y \in DOMAIN g |-> g[y]] /\ DOMAIN g \subseteq D /\ \A y \in DOMAIN g : g[y] \in R
    BY <1>1, <1>2, <1>3
<1> HIDE DEF g
<1>5. g \in Partial(D, R)  BY <1>4, PartialIs
<1> QED BY <1>3, <1>5 DEF g

-----------------------------------------------------------------------------
(***************************************************************************)
(* Type correctness.                                                       *)
(***************************************************************************)
LEMMA StatementFacts ==
    ASSUME NEW s \in Statements
    PROVE  /\ s.op \in Ops /\ s.rows \subseteq Rows /\ s.targets \subseteq Relations
           /\ s.newName \in Names \cup {""} /\ s.chain \in BOOLEAN
           /\ s.op \in Creates \cup {"rename", "create_index", "fill"} => s.target \in s.targets
           /\ s.op \in {"rename", "create_index"} => s.newName \in Names
BY StatementsAssumption DEF StatementType

LEMMA RealIsReal ==
    /\ \A x \in Relations : Real(x) \in RealNames /\ Real(x).name = x.name
    /\ \A x \in Relations, n \in Names : [schema |-> Real(x).schema, name |-> n] \in RealNames
BY SchemasAssumption DEF Relations, Real, RealNames

LEMMA CreatedType ==
    ASSUME NEW s \in Statements, created \in Partial(Names, {"clean", "loaded"})
    PROVE  CreatedAfter(s) \in Partial(Names, {"clean", "loaded"})
<1> DEFINE t == s.target.name
           R == {"clean", "loaded"}
<1>1. CASE s.op \in {"create", "create_as", "fill"}
    <2>1. t \in Names  BY <1>1, StatementFacts DEF Creates, Relations
    <2>2. With(created, t, "clean") \in Partial(Names, R) /\ With(created, t, "loaded") \in Partial(Names, R)
        <3>1. created \in Partial(Names, R)  OBVIOUS
        <3>2. "clean" \in R /\ "loaded" \in R  OBVIOUS
        <3> HIDE DEF R, t
        <3> QED BY <2>1, <3>1, <3>2, WithPartial
    <2> QED BY <1>1, <2>2 DEF CreatedAfter
<1>2. CASE s.op = "drop"
    BY <1>2, WithoutPartial DEF CreatedAfter
<1>3. CASE s.op = "rename"
    <2>1. CASE t \in DOMAIN created
        <3>1. Without(created, {t}) \in Partial(Names, R)  BY WithoutPartial
        <3>2. created[t] \in R  BY <2>1, PartialIs
        <3>3. s.newName \in Names  BY <1>3, StatementFacts
        <3>4. With(Without(created, {t}), s.newName, created[t]) \in Partial(Names, R)
            <4> DEFINE f == Without(created, {t})
                       v == created[t]
            <4>1. f \in Partial(Names, R) /\ v \in R  BY <3>1, <3>2
            <4> HIDE DEF f, v, R
            <4>2. With(f, s.newName, v) \in Partial(Names, R)  BY <3>3, <4>1, WithPartial
            <4> QED BY <4>2 DEF f, v
        <3> QED BY <1>3, <2>1, <3>4 DEF CreatedAfter
    <2>2. CASE t \notin DOMAIN created
        BY <1>3, <2>2 DEF CreatedAfter
    <2> QED BY <2>1, <2>2
<1>4. CASE s.op \notin {"create", "create_as", "fill", "drop", "rename"}
    BY <1>4 DEF CreatedAfter
<1> QED BY <1>1, <1>2, <1>3, <1>4

LEMMA DbType ==
    ASSUME NEW s \in Statements, db \in Partial(RealNames, {"pre", "file"}),
           saved \in Partial(RealNames, {"pre", "file"})
    PROVE  DbAfter(s) \in Partial(RealNames, {"pre", "file"})
<1> DEFINE R == {"pre", "file"}
<1>1. CASE s.op \in Creates
    <2>1. Real(s.target) \in RealNames  BY <1>1, StatementFacts, RealIsReal
    <2>2. With(db, Real(s.target), "file") \in Partial(RealNames, R)  BY <2>1, WithPartial
    <2>3. s.op \notin {"create_index", "drop", "vanish", "rename", "rollback"}  BY <1>1 DEF Creates
    <2> QED BY <1>1, <2>2, <2>3 DEF DbAfter
<1>2. CASE s.op = "create_index"
    <2>1. NewReal(s) \in RealNames
        BY <1>2, StatementFacts, RealIsReal DEF NewReal
    <2>2. With(db, NewReal(s), "file") \in Partial(RealNames, R)  BY <2>1, WithPartial
    <2> QED BY <1>2, <2>2 DEF DbAfter, Creates
<1>3. CASE s.op \in {"drop", "vanish"}
    <2>1. Without(db, RealTargets(s)) \in Partial(RealNames, R)  BY WithoutPartial
    <2> QED BY <1>3, <2>1 DEF DbAfter, Creates
<1>4. CASE s.op = "rename"
    <2> DEFINE t == Real(s.target)
    <2>1. CASE t \in DOMAIN db
        <3>1. NewReal(s) \in RealNames  BY <1>4, StatementFacts, RealIsReal DEF NewReal
        <3>2. Without(db, {t}) \in Partial(RealNames, R)  BY WithoutPartial
        <3>3. db[t] \in R  BY <2>1, PartialIs
        <3>4. With(Without(db, {t}), NewReal(s), db[t]) \in Partial(RealNames, R)
            <4> DEFINE f == Without(db, {t})
                       v == db[t]
            <4>1. f \in Partial(RealNames, R) /\ v \in R  BY <3>2, <3>3
            <4> HIDE DEF f, v, R
            <4>2. With(f, NewReal(s), v) \in Partial(RealNames, R)  BY <3>1, <4>1, WithPartial
            <4> QED BY <4>2 DEF f, v
        <3> QED BY <1>4, <2>1, <3>4 DEF DbAfter, Creates
    <2>2. CASE t \notin DOMAIN db
        BY <1>4, <2>2 DEF DbAfter, Creates
    <2> QED BY <2>1, <2>2
<1>5. CASE s.op \notin Creates \cup {"create_index", "drop", "vanish", "rename"}
    BY <1>5 DEF DbAfter
<1> QED BY <1>1, <1>2, <1>3, <1>4, <1>5

LEMMA HeldType ==
    ASSUME NEW s \in Statements,
           held \subseteq [rel : Relations \cup {Unnamed}, mode : RowExclusive..AccessExclusive]
    PROVE  HeldAfter(s) \subseteq [rel : Relations \cup {Unnamed}, mode : RowExclusive..AccessExclusive]
<1>1. \A r \in s.rows : r.locks \subseteq Locks  BY StatementFacts DEF Rows
<1>2. \A l \in UNION {r.locks : r \in s.rows} : l.rel \in Relations \cup {Unnamed}
    BY <1>1 DEF Locks
<1> QED BY <1>2 DEF HeldAfter

LEMMA NamesType ==
    ASSUME NEW s \in Statements, ownNames \subseteq Names
    PROVE  OwnNamesAfter(s) \subseteq Names
BY StatementFacts DEF OwnNamesAfter, Relations

LEMMA TypeInit == Init => TypeOK
<1> SUFFICES ASSUME Init PROVE TypeOK  OBVIOUS
<1>1. created \in Partial(Names, {"clean", "loaded"})  BY PartialIs DEF Init
<1>2. db \in Partial(RealNames, {"pre", "file"})
    <2>1. PICK pre \in SUBSET RealNames : db = [x \in pre |-> "pre"]  BY DEF Init
    <2> QED BY <2>1, PartialIs
<1>3. count \in 0..MaxStatements  BY MaxStatementsAssumption DEF Init
<1>4. /\ baseline \in BOOLEAN /\ snapshot \in Snapshots /\ ownNames = {} /\ explicit = FALSE
      /\ held = {} /\ saved = db /\ inTxn = FALSE /\ pgLocks = {} /\ alive = TRUE /\ last = Nothing
    BY DEF Init
<1> QED BY <1>1, <1>2, <1>3, <1>4, Zenon DEF TypeOK, Partial

LEMMA TypeStep == TypeOK /\ [Next]_vars => TypeOK'
<1> SUFFICES ASSUME TypeOK, [Next]_vars PROVE TypeOK'  OBVIOUS
<1>1. CASE UNCHANGED vars
    BY <1>1 DEF vars, TypeOK
<1>2. ASSUME NEW s \in Statements, AssessStatement(s) PROVE TypeOK'
    <2> USE <1>2 DEF AssessStatement
    <2>1. baseline' \in BOOLEAN /\ snapshot' \in Snapshots  BY DEF TypeOK, inputVars
    <2>2. created' \in Partial(Names, {"clean", "loaded"})  BY CreatedType DEF TypeOK, Partial
    <2>3. ownNames' \subseteq Names  BY NamesType DEF TypeOK
    <2>4. explicit' \in BOOLEAN  BY StatementFacts DEF TypeOK, ExplicitAfter
    <2>5. held' \subseteq [rel : Relations \cup {Unnamed}, mode : RowExclusive..AccessExclusive]
        BY HeldType DEF TypeOK
    <2>6. DbAfter(s) \in Partial(RealNames, {"pre", "file"})  BY DbType DEF TypeOK, Partial
    <2>7. /\ db' \in Partial(RealNames, {"pre", "file"})
          /\ saved' \in Partial(RealNames, {"pre", "file"})
          /\ inTxn' \in BOOLEAN
          /\ pgLocks' \subseteq Share..AccessExclusive
          /\ alive' \in BOOLEAN
        <3>1. CASE PgStops(s)  BY <3>1 DEF PgStops, TypeOK, Partial
        <3>2. CASE PgSkips(s)  BY <3>2 DEF PgSkips, pgVars, TypeOK, Partial
        <3>3. CASE PgExecutes(s)  BY <3>3, <2>6, StatementFacts DEF PgExecutes, TypeOK, Partial
        <3> QED BY <3>1, <3>2, <3>3
    <2>8. count' \in 0..MaxStatements  BY MaxStatementsAssumption DEF TypeOK
    <2>9. last'.tier \in Tiers  BY StatementTierIsTier DEF Report
    <2> QED BY <2>1, <2>2, <2>3, <2>4, <2>5, <2>7, <2>8, <2>9 DEF TypeOK, Partial
<1> QED BY <1>1, <1>2 DEF Next

(***************************************************************************)
(* Every variable keeps its type; in particular every statement gets one   *)
(* of the five tiers (assess_script).                                      *)
(***************************************************************************)
THEOREM TypeCorrect == Spec => []TypeOK
BY TypeInit, TypeStep, PTL DEF Spec
-----------------------------------------------------------------------------
(***************************************************************************)
(* What the engine carries about the file is true of the session.          *)
(***************************************************************************)
AllPlain == \A s \in Statements : Plain(s)

LEMMA DefaultRelInjective ==
    \A m, n \in Names : DefaultRel(m) = DefaultRel(n) => m = n
BY DEF DefaultRel

LEMMA PlainNames ==
    ASSUME NEW s \in Statements, Plain(s)
    PROVE  /\ \A x \in s.targets : x.name \in Names /\ Real(x) = DefaultRel(x.name)
           /\ s.op \in {"rename", "create_index"} => NewReal(s) = DefaultRel(s.newName)
<1>1. \A x \in s.targets : x.name \in Names /\ Real(x) = DefaultRel(x.name)
    BY StatementFacts, SchemasAssumption DEF Plain, Relations, Real, DefaultRel
<1>2. s.op \in {"rename", "create_index"} => NewReal(s) = DefaultRel(s.newName)
    <2> SUFFICES ASSUME s.op \in {"rename", "create_index"} PROVE NewReal(s) = DefaultRel(s.newName)
        OBVIOUS
    <2>1. s.target \in s.targets  BY StatementFacts
    <2>2. Real(s.target) = DefaultRel(s.target.name)  BY <1>1, <2>1
    <2>3. Real(s.target).schema = DefaultSchema  BY <2>2 DEF DefaultRel
    <2> QED BY <2>3 DEF NewReal, DefaultRel
<1> QED BY <1>1, <1>2

LEMMA SessionStep ==
    ASSUME TypeOK, FileFactsSound, NEW s \in Statements, Plain(s), AssessStatement(s), alive'
    PROVE  /\ inTxn' = explicit'
           /\ \A m \in pgLocks' : \E h \in held' : h.mode = m
<1> USE DEF AssessStatement
<1>0. alive /\ inTxn = explicit /\ \A m \in pgLocks : \E h \in held : h.mode = m
    BY DEF PgStops, PgSkips, PgExecutes, FileFactsSound
<1>1. CASE PgSkips(s)
    <2>1. s.op \notin TxnControl  BY <1>1, StatementsAssumption DEF PgSkips
    <2>2. explicit' = explicit /\ held \subseteq held'
        BY <2>1 DEF ExplicitAfter, HeldAfter, TxnControl
    <2> QED BY <1>0, <1>1, <2>2 DEF PgSkips, pgVars
<1>2. CASE PgExecutes(s)
    <2>1. inTxn' = explicit'
        BY <1>0, <1>2 DEF PgExecutes, PgRejects, ExplicitAfter
    <2>2. CASE s.op \in {"commit", "rollback"} \/ ~inTxn
        <3>1. pgLocks' = {}  BY <1>2, <2>2 DEF PgExecutes
        <3> QED BY <2>1, <3>1
    <2>3. CASE s.op = "begin" /\ inTxn
        <3>1. RealLocks(s) = {}
            <4>1. \A r \in s.rows : r.locks = {} /\ r.hidden = {}
                BY <2>3, StatementsAssumption DEF TxnControl
            <4> QED BY <4>1 DEF RealLocks
        <3>2. pgLocks' = pgLocks  BY <1>2, <2>3, <3>1 DEF PgExecutes
        <3>3. held' = held  BY <1>0, <2>3 DEF HeldAfter, TxnControl
        <3> QED BY <1>0, <2>1, <3>2, <3>3
    <2>4. CASE s.op \notin TxnControl /\ inTxn
        <3>1. held \subseteq held'  BY <1>0, <2>4 DEF HeldAfter
        <3>2. ASSUME NEW l \in RealLocks(s), l.mode \in Share..AccessExclusive
              PROVE  \E h \in held' : h.mode = l.mode
            <4>1. \A r \in s.rows : l \notin r.hidden
                BY <3>2 DEF Plain, Share, AccessExclusive
            <4>2. PICK r \in s.rows : l \in r.locks /\ l.certain
                BY <4>1 DEF RealLocks
            <4>3. l \in {k \in UNION {q.locks : q \in s.rows} :
                           k.certain /\ k.mode \in RowExclusive..AccessExclusive}
                BY <3>2, <4>2 DEF Share, RowExclusive, AccessExclusive
            <4>4. [rel |-> l.rel, mode |-> l.mode] \in held'
                BY <1>0, <2>4, <4>3 DEF HeldAfter
            <4> QED BY <4>4
        <3>3. pgLocks' = pgLocks \cup {l.mode : l \in {k \in RealLocks(s) : k.mode \in Share..AccessExclusive}}
            BY <1>2, <2>4 DEF PgExecutes, TxnControl
        <3> QED BY <1>0, <2>1, <3>1, <3>2, <3>3
    <2> QED BY <2>1, <2>2, <2>3, <2>4 DEF TxnControl
<1> QED BY <1>1, <1>2 DEF PgStops
(***************************************************************************)
(* How one statement that runs changes the relations that exist, name by   *)
(* name in the default schema: a relation survives with its origin unless  *)
(* the statement drops or renames it, and one that is new was created by   *)
(* the file or is what a rename made of another.                           *)
(***************************************************************************)
DbR == {"pre", "file"}

LEMMA DbStep ==
    ASSUME NEW s \in Statements, Plain(s), ~PgRejects(s), db \in Partial(RealNames, DbR),
           NEW n \in Names
    PROVE  LET x == DefaultRel(n) d == DbAfter(s)
           IN  /\ (x \in DOMAIN d /\ d[x] = "pre") =>
                     \/ x \in DOMAIN db /\ db[x] = "pre"
                     \/ s.op = "rename" /\ n = s.newName /\ Real(s.target) \in DOMAIN db
                                        /\ db[Real(s.target)] = "pre"
               /\ (x \in DOMAIN db /\ ~(s.op = "drop" /\ n \in {y.name : y \in s.targets})
                                   /\ ~(s.op = "rename" /\ n = s.target.name)) =>
                     x \in DOMAIN d /\ d[x] = db[x]
<1> DEFINE x == DefaultRel(n)
           d == DbAfter(s)
           t == Real(s.target)
           new == NewReal(s)
           Goal == /\ (x \in DOMAIN d /\ d[x] = "pre") =>
                        \/ x \in DOMAIN db /\ db[x] = "pre"
                        \/ s.op = "rename" /\ n = s.newName /\ t \in DOMAIN db /\ db[t] = "pre"
                   /\ (x \in DOMAIN db /\ ~(s.op = "drop" /\ n \in {y.name : y \in s.targets})
                                       /\ ~(s.op = "rename" /\ n = s.target.name)) =>
                        x \in DOMAIN d /\ d[x] = db[x]
<1>0. "file" \in DbR /\ "pre" \in DbR /\ "file" # "pre"  BY DEF DbR
<1>1. CASE s.op \in Creates
    <2>1. s.target \in s.targets /\ s.target \in Relations  BY <1>1, StatementFacts
    <2>2. t \in RealNames  BY <2>1, RealIsReal
    <2>3. t \notin DOMAIN db  BY <1>1 DEF Plain, PgRejects
    <2>4. d = With(db, t, "file")  BY <1>1, <2>3 DEF DbAfter, Creates
    <2>5. DOMAIN d = DOMAIN db \cup {t} /\ d[t] = "file" /\ \A y \in DOMAIN db : y # t => d[y] = db[y]
        <3> HIDE DEF t, d
        <3> QED BY <2>4 DEF With
    <2>6. Goal
        <3> HIDE DEF x, d, t
        <3> QED BY <1>0, <1>1, <2>3, <2>5 DEF Creates
    <2> QED BY <2>6
<1>2. CASE s.op = "create_index"
    <2>1. s.target \in s.targets /\ s.target \in Relations /\ s.newName \in Names  BY <1>2, StatementFacts
    <2>2. new \in RealNames  BY <2>1, RealIsReal DEF NewReal
    <2>3. new \notin DOMAIN db  BY <1>2 DEF Plain, PgRejects
    <2>4. d = With(db, new, "file")  BY <1>2, <2>3 DEF DbAfter, Creates
    <2>5. DOMAIN d = DOMAIN db \cup {new} /\ d[new] = "file" /\ \A y \in DOMAIN db : y # new => d[y] = db[y]
        <3> HIDE DEF new, d
        <3> QED BY <2>4 DEF With
    <2>6. Goal
        <3> HIDE DEF x, d, new
        <3> QED BY <1>0, <1>2, <2>3, <2>5
    <2> QED BY <2>6
<1>3. CASE s.op = "drop"
    <2>1. d = Without(db, RealTargets(s))  BY <1>3 DEF DbAfter, Creates
    <2>2. DOMAIN d = DOMAIN db \ RealTargets(s) /\ \A y \in DOMAIN db \ RealTargets(s) : d[y] = db[y]
        BY <2>1 DEF Without, Restrict
    <2>3. x \in RealTargets(s) => n \in {y.name : y \in s.targets}
        <3>1. \A y \in s.targets : Real(y) = x => y.name = n
            BY PlainNames, DefaultRelInjective
        <3> QED BY <3>1 DEF RealTargets
    <2>4. Goal
        <3> HIDE DEF x, d, t
        <3> QED BY <1>3, <2>2, <2>3
    <2> QED BY <2>4
<1>4. CASE s.op = "rename" /\ t \in DOMAIN db
    <2>1. s.target \in s.targets /\ s.target \in Relations /\ s.newName \in Names  BY <1>4, StatementFacts
    <2>2. new \in RealNames /\ new = DefaultRel(s.newName) /\ t = DefaultRel(s.target.name)
          /\ s.target.name \in Names
        BY <1>4, <2>1, RealIsReal, PlainNames DEF NewReal
    <2>3. new \notin DOMAIN db  BY <1>4 DEF PgRejects
    <2>4. d = With(Without(db, {t}), new, db[t])  BY <1>4 DEF DbAfter, Creates
    <2>5. /\ DOMAIN d = (DOMAIN db \ {t}) \cup {new} /\ d[new] = db[t]
          /\ \A y \in DOMAIN db \ {t} : y # new => d[y] = db[y]
        <3> DEFINE f == Without(db, {t})
                   v == db[t]
        <3>1. DOMAIN f = DOMAIN db \ {t} /\ \A y \in DOMAIN db \ {t} : f[y] = db[y]
            BY WithoutIs
        <3>3. d = With(f, new, v)  BY <2>4
        <3> HIDE DEF f, v, d, new, t
        <3>4. DOMAIN d = DOMAIN f \cup {new} /\ d[new] = v /\ \A y \in DOMAIN f : y # new => d[y] = f[y]
            BY <3>3 DEF With
        <3> QED BY <3>1, <3>4 DEF v
    <2>6. x = new => n = s.newName  BY <2>1, <2>2, DefaultRelInjective
    <2>7. x = t => n = s.target.name  BY <2>2, DefaultRelInjective
    <2>8. Goal
        <3> HIDE DEF x, d, t, new
        <3> QED BY <1>4, <2>3, <2>5, <2>6, <2>7
    <2> QED BY <2>8
<1>5. CASE ~(s.op \in Creates \cup {"create_index", "drop"}) /\ ~(s.op = "rename" /\ t \in DOMAIN db)
    <2>1. d = db  BY <1>5 DEF DbAfter, Plain
    <2>2. Goal
        <3> HIDE DEF x, d, t
        <3> QED BY <1>5, <2>1
    <2> QED BY <2>2
<1> QED BY <1>1, <1>2, <1>3, <1>4, <1>5

\* What runs, by its op: a created or renamed-to relation did not exist.
LEMMA NewInDb ==
    ASSUME NEW s \in Statements, Plain(s), ~PgRejects(s), db \in Partial(RealNames, DbR)
    PROVE  /\ s.op \in Creates =>
                 /\ Real(s.target) \in DOMAIN DbAfter(s) /\ DbAfter(s)[Real(s.target)] = "file"
           /\ s.op = "create_index" =>
                 /\ NewReal(s) \in DOMAIN DbAfter(s) /\ DbAfter(s)[NewReal(s)] = "file"
           /\ s.op = "rename" =>
                 /\ Real(s.target) \in DOMAIN db /\ NewReal(s) \notin DOMAIN db
                 /\ NewReal(s) \in DOMAIN DbAfter(s)
                 /\ DbAfter(s)[NewReal(s)] = db[Real(s.target)]
<1>1. CASE s.op \in Creates
    <2>1. Real(s.target) \notin DOMAIN db  BY <1>1 DEF Plain, PgRejects
    <2>2. DbAfter(s) = With(db, Real(s.target), "file")
        BY <1>1, <2>1 DEF DbAfter, Creates
    <2> QED BY <1>1, <2>2 DEF Creates, With
<1>2. CASE s.op = "create_index"
    <2>1. NewReal(s) \notin DOMAIN db  BY <1>2 DEF Plain, PgRejects
    <2>2. DbAfter(s) = With(db, NewReal(s), "file")
        BY <1>2, <2>1 DEF DbAfter, Creates
    <2> QED BY <1>2, <2>2 DEF Creates, With
<1>3. CASE s.op = "rename"
    <2> DEFINE t == Real(s.target)
               new == NewReal(s)
               f == Without(db, {t})
               v == db[t]
    <2>1. s.target \in s.targets  BY <1>3, StatementFacts
    <2>2. RealTargets(s) \subseteq DOMAIN db  BY <1>3 DEF Plain, PgRejects
    <2>3. t \in DOMAIN db  BY <2>1, <2>2 DEF RealTargets
    <2>4. new \notin DOMAIN db  BY <1>3, <2>3 DEF PgRejects
    <2>6. DbAfter(s) = With(f, new, v)  BY <1>3, <2>3 DEF DbAfter, Creates
    <2> HIDE DEF f, v, new
    <2>9. new \in DOMAIN DbAfter(s) /\ DbAfter(s)[new] = v  BY <2>6 DEF With
    <2> QED BY <1>3, <2>3, <2>4, <2>9 DEF new, v, Creates
<1> QED BY <1>1, <1>2, <1>3
(***************************************************************************)
(* FileFactsSound, the part about _FileState.created.                      *)
(***************************************************************************)
CreatedSound ==
    \A n \in DOMAIN created : DefaultRel(n) \in DOMAIN db /\ db[DefaultRel(n)] = "file"

LEMMA CreatedStep ==
    ASSUME TypeOK, CreatedSound, NEW s \in Statements, Plain(s),
           created' = CreatedAfter(s),
           \/ s.guarded /\ db' = db
           \/ ~PgRejects(s) /\ db' = DbAfter(s)
    PROVE  CreatedSound'
<1> DEFINE t == s.target.name
<1>0. DOMAIN created \subseteq Names /\ db \in Partial(RealNames, DbR)
    BY PartialIs DEF TypeOK, Partial, DbR
<1>1. CASE s.guarded /\ db' = db
    <2>1. s.op \notin Creates \cup {"rename"}  BY <1>1 DEF Plain
    <2>2. DOMAIN created' \subseteq DOMAIN created
        <3>1. CASE s.op = "drop"  BY <3>1 DEF CreatedAfter, Without, Restrict
        <3>2. CASE s.op = "fill" /\ t \in DOMAIN created
            BY <3>2 DEF CreatedAfter, With
        <3>3. CASE s.op # "drop" /\ ~(s.op = "fill" /\ t \in DOMAIN created)
            BY <2>1, <3>3 DEF CreatedAfter, Creates
        <3> QED BY <3>1, <3>2, <3>3
    <2> QED BY <1>1, <2>2 DEF CreatedSound
<1>2. CASE ~PgRejects(s) /\ db' = DbAfter(s)
    \* What survives the statement under its own name is still the file's.
    <2>1. ASSUME NEW n \in DOMAIN created,
                 ~(s.op = "drop" /\ n \in {y.name : y \in s.targets}),
                 ~(s.op = "rename" /\ n = t)
          PROVE  DefaultRel(n) \in DOMAIN db' /\ db'[DefaultRel(n)] = "file"
        <3>1. n \in Names /\ DefaultRel(n) \in DOMAIN db /\ db[DefaultRel(n)] = "file"
            BY <1>0 DEF CreatedSound
        <3>2. DefaultRel(n) \in DOMAIN db' /\ db'[DefaultRel(n)] = db[DefaultRel(n)]
            BY <1>0, <1>2, <2>1, <3>1, DbStep
        <3> QED BY <3>1, <3>2
    <2>2. CASE s.op \in {"create", "create_as"}
        <3>1. s.target \in s.targets /\ t \in Names /\ Real(s.target) = DefaultRel(t)
            BY <2>2, StatementFacts, PlainNames DEF Creates
        <3>2. DefaultRel(t) \in DOMAIN db' /\ db'[DefaultRel(t)] = "file"
            BY <1>0, <1>2, <2>2, <3>1, NewInDb DEF Creates
        <3>3. DOMAIN created' = DOMAIN created \cup {t}
            BY <2>2 DEF CreatedAfter, With
        <3>4. \A n \in DOMAIN created' : DefaultRel(n) \in DOMAIN db' /\ db'[DefaultRel(n)] = "file"
            BY <2>1, <2>2, <3>2, <3>3
        <3> QED BY <3>4 DEF CreatedSound
    <2>3. CASE s.op = "drop"
        <3>1. DOMAIN created' = DOMAIN created \ {y.name : y \in s.targets}
            BY <2>3 DEF CreatedAfter, Without, Restrict
        <3>2. \A n \in DOMAIN created' : DefaultRel(n) \in DOMAIN db' /\ db'[DefaultRel(n)] = "file"
            BY <2>1, <2>3, <3>1
        <3> QED BY <3>2 DEF CreatedSound
    <2>4. CASE s.op = "rename"
        <3>1. /\ s.target \in s.targets /\ t \in Names /\ Real(s.target) = DefaultRel(t)
              /\ s.newName \in Names /\ NewReal(s) = DefaultRel(s.newName)
            BY <2>4, StatementFacts, PlainNames
        <3>2. /\ DefaultRel(t) \in DOMAIN db /\ DefaultRel(s.newName) \notin DOMAIN db
              /\ DefaultRel(s.newName) \in DOMAIN db'
              /\ db'[DefaultRel(s.newName)] = db[DefaultRel(t)]
            BY <1>0, <1>2, <2>4, <3>1, NewInDb
        <3>3. CASE t \in DOMAIN created
            <4>1. DOMAIN created' = (DOMAIN created \ {t}) \cup {s.newName}
                BY <2>4, <3>3 DEF CreatedAfter, With, Without, Restrict
            <4>2. db'[DefaultRel(s.newName)] = "file"  BY <3>2, <3>3 DEF CreatedSound
            <4>3. \A n \in DOMAIN created' : DefaultRel(n) \in DOMAIN db' /\ db'[DefaultRel(n)] = "file"
                BY <2>1, <2>4, <3>2, <4>1, <4>2
            <4> QED BY <4>3 DEF CreatedSound
        <3>4. CASE t \notin DOMAIN created
            <4>1. created' = created  BY <2>4, <3>4 DEF CreatedAfter
            <4>2. \A n \in DOMAIN created' : DefaultRel(n) \in DOMAIN db' /\ db'[DefaultRel(n)] = "file"
                BY <2>1, <2>4, <3>4, <4>1
            <4> QED BY <4>2 DEF CreatedSound
        <3> QED BY <3>3, <3>4
    <2>5. CASE s.op \notin {"create", "create_as", "drop", "rename"}
        <3>1. DOMAIN created' = DOMAIN created
            <4>1. CASE s.op = "fill" /\ t \in DOMAIN created
                BY <4>1 DEF CreatedAfter, With
            <4>2. CASE ~(s.op = "fill" /\ t \in DOMAIN created)
                BY <2>5, <4>2 DEF CreatedAfter
            <4> QED BY <4>1, <4>2
        <3>2. \A n \in DOMAIN created' : DefaultRel(n) \in DOMAIN db' /\ db'[DefaultRel(n)] = "file"
            BY <2>1, <2>5, <3>1
        <3> QED BY <3>2 DEF CreatedSound
    <2> QED BY <2>2, <2>3, <2>4, <2>5
<1> QED BY <1>1, <1>2

(***************************************************************************)
(* FileFactsSound, the part about the names _baseline_shaped collects.     *)
(***************************************************************************)
OwnNamesSound ==
    baseline => \A n \in ownNames : DefaultRel(n) \in DOMAIN db => db[DefaultRel(n)] = "file"

LEMMA OwnNamesStep ==
    ASSUME TypeOK, OwnNamesSound, NEW s \in Statements, Plain(s), UNCHANGED baseline,
           baseline => BaselineAccepts(s), ownNames' = OwnNamesAfter(s),
           \/ s.guarded /\ db' = db
           \/ ~PgRejects(s) /\ db' = DbAfter(s)
    PROVE  OwnNamesSound'
<1> SUFFICES ASSUME baseline, NEW n \in ownNames', DefaultRel(n) \in DOMAIN db'
             PROVE  db'[DefaultRel(n)] = "file"
    BY DEF OwnNamesSound
<1>0. ownNames' \subseteq Names /\ db \in Partial(RealNames, DbR)
    BY NamesType DEF TypeOK, Partial, DbR
<1>1. CASE s.guarded /\ db' = db
    <2>1. s.listed = "no"  BY <1>1, StatementsAssumption
    <2>2. ownNames' = ownNames  BY <2>1 DEF OwnNamesAfter
    <2> QED BY <1>1, <2>2 DEF OwnNamesSound
<1>2. CASE ~PgRejects(s) /\ db' = DbAfter(s)
    <2>1. DbAfter(s) \in Partial(RealNames, DbR)  BY <1>0, DbType DEF TypeOK, Partial, DbR
    <2>2. db'[DefaultRel(n)] \in DbR  BY <1>2, <2>1, PartialIs
    <2>3. n \in Names  BY <1>0
    <2>4. SUFFICES ASSUME db'[DefaultRel(n)] = "pre" PROVE FALSE
        BY <2>2 DEF DbR
    <2>5. \/ DefaultRel(n) \in DOMAIN db /\ db[DefaultRel(n)] = "pre"
          \/ s.op = "rename" /\ n = s.newName /\ Real(s.target) \in DOMAIN db
                             /\ db[Real(s.target)] = "pre"
        BY <1>0, <1>2, <2>3, <2>4, DbStep
    <2>6. CASE s.op = "rename" /\ n = s.newName /\ Real(s.target) \in DOMAIN db /\ db[Real(s.target)] = "pre"
        <3>1. s.listed = "references" /\ s.target \in s.targets
            BY <2>6, StatementFacts DEF Plain
        <3>2. s.target.name \in ownNames  BY <3>1 DEF BaselineAccepts
        <3>3. Real(s.target) = DefaultRel(s.target.name)  BY <3>1, PlainNames
        <3>4. db[Real(s.target)] = "file"  BY <2>6, <3>2, <3>3 DEF OwnNamesSound
        <3> QED BY <2>6, <3>4
    <2>7. CASE DefaultRel(n) \in DOMAIN db /\ db[DefaultRel(n)] = "pre"
        <3>1. n \notin ownNames  BY <2>7 DEF OwnNamesSound
        <3>2. CASE s.listed = "creates"
            <4>1. s.op \in Creates /\ s.targets = {s.target}  BY <3>2, StatementsAssumption
            <4>2. n = s.target.name  BY <3>1, <3>2, <4>1 DEF OwnNamesAfter
            <4>3. DefaultRel(n) = Real(s.target)  BY <4>1, <4>2, PlainNames
            <4>4. db'[Real(s.target)] = "file"  BY <1>0, <1>2, <4>1, NewInDb
            <4> QED BY <2>4, <4>3, <4>4
        <3>3. CASE s.listed = "references" /\ s.newName # ""
            <4>1. s.op \in {"rename", "create_index"} /\ n = s.newName
                BY <3>1, <3>3, StatementsAssumption DEF OwnNamesAfter
            <4>2. NewReal(s) = DefaultRel(n)  BY <4>1, PlainNames
            <4>3. CASE s.op = "rename"
                BY <1>0, <1>2, <2>7, <4>2, <4>3, NewInDb
            <4>4. CASE s.op = "create_index"
                <5>1. db'[NewReal(s)] = "file"  BY <1>0, <1>2, <4>4, NewInDb
                <5> QED BY <2>4, <4>2, <5>1
            <4> QED BY <4>1, <4>3, <4>4
        <3>4. CASE s.listed # "creates" /\ ~(s.listed = "references" /\ s.newName # "")
            BY <3>1, <3>4 DEF OwnNamesAfter
        <3> QED BY <3>2, <3>3, <3>4
    <2> QED BY <2>5, <2>6, <2>7
<1> QED BY <1>1, <1>2

LEMMA FileFactsInit == Init => FileFactsSound
BY DEF Init, FileFactsSound

LEMMA FileFactsStep ==
    ASSUME AllPlain, TypeOK, FileFactsSound, [Next]_vars
    PROVE  FileFactsSound'
<1>1. CASE UNCHANGED vars
    BY <1>1 DEF vars, FileFactsSound, DefaultRel
<1>2. ASSUME NEW s \in Statements, AssessStatement(s) PROVE FileFactsSound'
    <2> SUFFICES ASSUME alive' PROVE FileFactsSound'  BY DEF FileFactsSound
    <2>1. Plain(s)  BY DEF AllPlain
    <2>2. alive /\ (PgSkips(s) \/ PgExecutes(s))
        BY <1>2 DEF AssessStatement, PgStops, PgSkips, PgExecutes
    <2>3. \/ s.guarded /\ db' = db
          \/ ~PgRejects(s) /\ db' = DbAfter(s)
        BY <2>2 DEF PgSkips, PgExecutes, pgVars
    <2>4. CreatedSound /\ OwnNamesSound  BY <2>2 DEF FileFactsSound, CreatedSound, OwnNamesSound
    <2>5. CreatedSound'
        BY <1>2, <2>1, <2>3, <2>4, CreatedStep DEF AssessStatement
    <2>6. OwnNamesSound'
        BY <1>2, <2>1, <2>3, <2>4, OwnNamesStep DEF AssessStatement, inputVars
    <2>7. inTxn' = explicit' /\ \A m \in pgLocks' : \E h \in held' : h.mode = m
        BY <1>2, <2>1, SessionStep
    <2> QED BY <2>5, <2>6, <2>7 DEF FileFactsSound, CreatedSound, OwnNamesSound
<1> QED BY <1>1, <1>2 DEF Next

(***************************************************************************)
(* For files of plain statements, what the engine carries from statement   *)
(* to statement (_FileState, group_locks, the transaction flag) and what   *)
(* the baseline detector collected stay true of the session.               *)
(***************************************************************************)
THEOREM FileFactsHold ==
    ASSUME AllPlain
    PROVE  Spec => []FileFactsSound
<1>1. TypeOK /\ FileFactsSound /\ [Next]_vars => FileFactsSound'  BY FileFactsStep
<1> QED BY <1>1, FileFactsInit, TypeCorrect, PTL DEF Spec
-----------------------------------------------------------------------------
(***************************************************************************)
(* From the rows to the statement.                                         *)
(***************************************************************************)
Results(s) == {AssessRow(s, r) : r \in s.rows}

LEMMA ResultsAreTiers ==
    ASSUME NEW s \in Statements
    PROVE  \A x \in Results(s) : x.tier \in Tiers
<1>1. s.rows \subseteq Rows  BY StatementFacts
<1> QED BY <1>1, AssessRowIsTier DEF Results

\* No part is worse than the statement, whatever the later rules do to it.
LEMMA StatementAtLeastRow ==
    ASSUME NEW s \in Statements, NEW x \in Results(s)
    PROVE  CombineRank(x.tier) <= CombineRank(StatementTier(s, Results(s)))
<1> DEFINE T == {y.tier : y \in Results(s)}
           c1 == CombineRows(Results(s))
           c2 == CombineOpaque(s, c1)
           c3 == CombineIrreversible(Results(s), c2)
           c4 == CombineHeld(Results(s), c3)
<1>1. T \in SUBSET Tiers /\ T # {}  BY ResultsAreTiers
<1>2. c1 \in Tiers /\ CombineRank(x.tier) <= CombineRank(c1)
    <2>1. c1 = WorseClassification(T)  BY DEF CombineRows
    <2>2. x.tier \in T  OBVIOUS
    <2> HIDE DEF T, c1
    <2> QED BY <1>1, <2>1, <2>2, WorstOfSeveral
<1> HIDE DEF T, c1
<1>3. c2 \in Tiers /\ CombineRank(c1) <= CombineRank(c2)
    BY <1>2 DEF CombineOpaque, Tiers, CombineRank
<1> HIDE DEF c2
<1>4. c3 \in Tiers /\ CombineRank(c2) <= CombineRank(c3)
    BY <1>3 DEF CombineIrreversible, Tiers, CombineRank
<1> HIDE DEF c3
<1>5. c4 \in Tiers /\ CombineRank(c3) <= CombineRank(c4)
    BY <1>4 DEF CombineHeld, Tiers, SafeTiers, CombineRank
<1>6. \A t \in Tiers : CombineRank(t) \in Nat  BY DEF Tiers, CombineRank
<1>7. StatementTier(s, Results(s)) = c4  BY DEF StatementTier, c1, c2, c3
<1>8. x.tier \in Tiers  BY ResultsAreTiers
<1> HIDE DEF c4
<1> QED BY <1>2, <1>3, <1>4, <1>5, <1>6, <1>7, <1>8

LEMMA UnsafeRowUnsafeStatement ==
    ASSUME NEW s \in Statements, NEW x \in Results(s), x.tier \notin SafeTiers
    PROVE  StatementTier(s, Results(s)) \notin SafeTiers
<1>1. x.tier \in Tiers  BY ResultsAreTiers
<1>2. CombineRank(x.tier) <= CombineRank(StatementTier(s, Results(s)))  BY StatementAtLeastRow
<1>3. CombineRank(x.tier) >= 2  BY <1>1 DEF Tiers, SafeTiers, CombineRank
<1>4. CombineRank("SAFE") = 0 /\ CombineRank("SAFE_IRREVERSIBLE") = 1  BY DEF CombineRank
<1>5. CombineRank(x.tier) \in Nat  BY <1>1 DEF Tiers, CombineRank
<1> QED BY <1>2, <1>3, <1>4, <1>5 DEF SafeTiers

\* A row that locks a relation the file did not create ACCESS EXCLUSIVE.
LEMMA FloorLifts ==
    ASSUME NEW s, NEW r \in Rows, LiveAelRelations(LocksOf(s, r)) # {}
    PROVE  AssessRow(s, r).tier \notin SafeTiers
<1> DEFINE locks == LocksOf(s, r)
           base == SoftenForConditions(s, r, BaseTier(s, r))
           escalated == EscalateForContention(base, ContentionObserved(locks), ContentionActive(locks))
           floored == FloorForAccessExclusive(escalated, locks)
<1>1. floored \notin SafeTiers  BY DEF FloorForAccessExclusive, SafeTiers
<1>2. CapForGuard(floored) \notin SafeTiers  BY DEF CapForGuard, SafeTiers
<1>3. AssessRow(s, r).tier = IF s.guarded THEN CapForGuard(floored) ELSE floored  BY DEF AssessRow
<1> HIDE DEF floored
<1> QED BY <1>1, <1>2, <1>3

(***************************************************************************)
(* The properties.                                                         *)
(***************************************************************************)
LEMMA ReportFields ==
    ASSUME NEW s \in Statements, AssessStatement(s)
    PROVE  /\ last'.stmt = s /\ last'.results = Results(s)
           /\ last'.tier = StatementTier(s, Results(s))
           /\ last'.ran = (alive /\ ~PgRejects(s))
           /\ last'.fails = (alive /\ PgRejects(s)) /\ last'.inTxn = inTxn
           /\ last'.holding = (pgLocks # {})
           /\ last'.liveRels = {x \in DOMAIN db : db[x] = "pre"}
<1>1. last' = Report(s, Results(s))  BY DEF AssessStatement, Results
<1> QED BY <1>1 DEF Report

LEMMA LiveAelStep ==
    ASSUME AllPlain, FileFactsSound, NEW s \in Statements, AssessStatement(s)
    PROVE  LiveAelNeverSafe'
<1> SUFFICES ASSUME ~baseline, alive, NEW l \in RealLocks(s), l.mode = AccessExclusive,
                    Real(l.rel) \in DOMAIN db, db[Real(l.rel)] = "pre"
             PROVE  StatementTier(s, Results(s)) \notin SafeTiers
    BY ReportFields DEF LiveAelNeverSafe, LiveLocks, AssessStatement, inputVars
<1>1. Plain(s)  BY DEF AllPlain
<1>2. PICK r \in s.rows : l \in r.locks /\ l.certain /\ l.rel # Unnamed
    BY <1>1 DEF RealLocks, Plain, AccessExclusive, Share
<1>3. r \in Rows  BY StatementFacts
<1>4. Real(l.rel) = DefaultRel(l.rel.name)  BY <1>1 DEF Plain, Real, DefaultRel
<1>5. l.rel.name \notin DOMAIN created  BY <1>4 DEF FileFactsSound
<1>6. StateOf(l.rel) = "none"  BY <1>5 DEF StateOf
<1>7. l \in LocksOf(s, r)  BY <1>2 DEF LocksOf
<1>8. LiveAelRelations(LocksOf(s, r)) # {}  BY <1>2, <1>6, <1>7 DEF LiveAelRelations
<1>9. AssessRow(s, r).tier \notin SafeTiers  BY <1>3, <1>8, FloorLifts
<1>10. AssessRow(s, r) \in Results(s)  BY DEF Results
<1> QED BY <1>9, <1>10, UnsafeRowUnsafeStatement

LEMMA LongRunStep ==
    ASSUME FileFactsSound, NEW s \in Statements, AssessStatement(s), TypeOK
    PROVE  LongRunUnderLocks'
<1> SUFFICES ASSUME alive, pgLocks # {}, \E x \in Results(s) : ~x.constantOp
             PROVE  StatementTier(s, Results(s)) \notin SafeTiers
    BY ReportFields DEF LongRunUnderLocks
<1>1. PICK m \in pgLocks : m \in Share..AccessExclusive /\ \E h \in held : h.mode = m
    BY DEF TypeOK, FileFactsSound
<1>2. BlockingHeld # {}  BY <1>1 DEF BlockingHeld, Share, AccessExclusive
<1> QED BY <1>2 DEF StatementTier, CombineHeld, SafeTiers

LEMMA BaselineStep ==
    ASSUME AllPlain, FileFactsSound, NEW s \in Statements, AssessStatement(s)
    PROVE  BaselineOwnsItsTargets'
<1> SUFFICES ASSUME baseline, alive,
                    s.listed = "references" \/ (s.listed = "drops" /\ ~s.lenient),
                    NEW x \in s.targets, Real(x) \in DOMAIN db, db[Real(x)] = "pre"
             PROVE  FALSE
    <2>1. last'.stmt = s /\ last'.ran = (alive /\ ~PgRejects(s))
          /\ last'.liveRels = {y \in DOMAIN db : db[y] = "pre"} /\ baseline' = baseline
        BY ReportFields DEF AssessStatement, inputVars
    <2>2. SUFFICES ASSUME baseline, alive,
                          s.listed = "references" \/ (s.listed = "drops" /\ ~s.lenient)
                   PROVE  RealTargets(s) \cap {y \in DOMAIN db : db[y] = "pre"} = {}
        BY <2>1 DEF BaselineOwnsItsTargets, RealTargets, Real
    <2> QED BY <2>2 DEF RealTargets
<1>1. x.name \in ownNames  BY DEF AssessStatement, BaselineAccepts
<1>2. Real(x) = DefaultRel(x.name)  BY PlainNames DEF AllPlain
<1> QED BY <1>1, <1>2 DEF FileFactsSound

LEMMA UndecidedStep ==
    ASSUME NEW s \in Statements, AssessStatement(s)
    PROVE  UndecidedNeverCleared'
<1> DEFINE tier == StatementTier(s, Results(s))
<1>1. tier \in Tiers  BY StatementTierIsTier DEF Results
<1>2. \A x \in Results(s) : CombineRank(x.tier) <= CombineRank(tier)  BY StatementAtLeastRow
<1>3. ASSUME NEW x \in Results(s), x.tier = "UNKNOWN" PROVE tier \in {"UNKNOWN", "UNSAFE"}
    <2>1. CombineRank("UNKNOWN") <= CombineRank(tier)  BY <1>2, <1>3
    <2> HIDE DEF tier
    <2> QED BY <1>1, <2>1 DEF Tiers, CombineRank
<1>4. ASSUME s.opaque PROVE tier \in {"UNKNOWN", "UNSAFE"}
    BY <1>4 DEF StatementTier, CombineHeld, CombineIrreversible, CombineOpaque, SafeTiers
<1> HIDE DEF tier
<1> QED BY <1>2, <1>3, <1>4, ReportFields DEF UndecidedNeverCleared, tier

(***************************************************************************)
(* Nothing has been assessed in the initial state, and a step that is no   *)
(* assessment leaves what was assessed alone.                              *)
(***************************************************************************)
LEMMA NothingInit ==
    Init => LiveAelNeverSafe /\ LongRunUnderLocks /\ BaselineOwnsItsTargets /\ UndecidedNeverCleared
BY DEF Init, LiveAelNeverSafe, LongRunUnderLocks, BaselineOwnsItsTargets, UndecidedNeverCleared

(***************************************************************************)
(* "Any ACCESS EXCLUSIVE acquisition on a relation that existed before the *)
(* file" needs timing (Classification): for files of plain statements, of  *)
(* any length, over any names, the floor of verdict/engine.py misses none. *)
(***************************************************************************)
THEOREM LiveAelFloorHolds ==
    ASSUME AllPlain
    PROVE  Spec => []LiveAelNeverSafe
<1>1. FileFactsSound /\ LiveAelNeverSafe /\ [Next]_vars => LiveAelNeverSafe'
    <2>1. LiveAelNeverSafe /\ UNCHANGED vars => LiveAelNeverSafe'
        BY DEF LiveAelNeverSafe, LiveLocks, vars
    <2> QED BY <2>1, LiveAelStep DEF Next
<1> QED BY <1>1, NothingInit, FileFactsHold, PTL DEF Spec

(***************************************************************************)
(* A statement that may run long while its transaction really holds locks  *)
(* of SHARE or more is not in a safe tier (assess_script, blocking_held).  *)
(***************************************************************************)
THEOREM LongRunsTimed ==
    ASSUME AllPlain
    PROVE  Spec => []LongRunUnderLocks
<1>1. TypeOK /\ FileFactsSound /\ LongRunUnderLocks /\ [Next]_vars => LongRunUnderLocks'
    <2>1. LongRunUnderLocks /\ UNCHANGED vars => LongRunUnderLocks'
        BY DEF LongRunUnderLocks, vars
    <2> QED BY <2>1, LongRunStep DEF Next
<1> QED BY <1>1, NothingInit, TypeCorrect, FileFactsHold, PTL DEF Spec

(***************************************************************************)
(* A file the detector takes for a baseline alters, indexes, fills and     *)
(* drops only relations it created itself (_baseline_shaped).              *)
(***************************************************************************)
THEOREM BaselineDetectorSound ==
    ASSUME AllPlain
    PROVE  Spec => []BaselineOwnsItsTargets
<1>1. FileFactsSound /\ BaselineOwnsItsTargets /\ [Next]_vars => BaselineOwnsItsTargets'
    <2>1. BaselineOwnsItsTargets /\ UNCHANGED vars => BaselineOwnsItsTargets'
        BY DEF BaselineOwnsItsTargets, RealTargets, vars
    <2> QED BY <2>1, BaselineStep DEF Next
<1> QED BY <1>1, NothingInit, FileFactsHold, PTL DEF Spec

(***************************************************************************)
(* A statement is never cleared while a piece of it is undecided, and none *)
(* of its pieces is worse than it (worse_classification, the opaque DO     *)
(* block): for every file, plain or not.                                   *)
(***************************************************************************)
THEOREM UndecidedStaysUndecided == Spec => []UndecidedNeverCleared
<1>1. UndecidedNeverCleared /\ [Next]_vars => UndecidedNeverCleared'
    <2>1. UndecidedNeverCleared /\ UNCHANGED vars => UndecidedNeverCleared'
        BY DEF UndecidedNeverCleared, vars
    <2> QED BY <2>1, UndecidedStep DEF Next
<1> QED BY <1>1, NothingInit, PTL DEF Spec

-----------------------------------------------------------------------------
(***************************************************************************)
(* How a row comes to its tier.                                            *)
(***************************************************************************)
Based(s, r) == SoftenForConditions(s, r, BaseTier(s, r))
Escalated(s, r) ==
    EscalateForContention(Based(s, r), ContentionObserved(LocksOf(s, r)), ContentionActive(LocksOf(s, r)))
Floored(s, r) == FloorForAccessExclusive(Escalated(s, r), LocksOf(s, r))

LEMMA RowFields ==
    ASSUME NEW s, NEW r
    PROVE  /\ AssessRow(s, r).row = r /\ AssessRow(s, r).locks = LocksOf(s, r)
           /\ AssessRow(s, r).base = Based(s, r)
           /\ AssessRow(s, r).tier = IF s.guarded THEN CapForGuard(Floored(s, r)) ELSE Floored(s, r)
BY DEF AssessRow, Floored, Escalated, Based

LEMMA BasedIsTier ==
    ASSUME NEW s, NEW r \in Rows
    PROVE  Based(s, r) \in Tiers
<1>1. BaseTier(s, r) \in Tiers  BY BaseIsTier
<1> QED BY <1>1 DEF Based, SoftenForConditions, Tiers

(***************************************************************************)
(* Under the names the snapshot has, contention is looked up as Postgres   *)
(* would find the relation.                                                *)
(***************************************************************************)
LEMMA FoundUnderRealName ==
    ASSUME NEW rel \in Relations, SnapshotName(rel) \in RealNames
    PROVE  SnapshotName(rel) = Real(rel)
<1>1. CASE SnapshotName(rel) = rel
    <2>1. rel.schema # Unqualified  BY <1>1, SchemasAssumption DEF RealNames
    <2>2. rel = [schema |-> rel.schema, name |-> rel.name]  BY DEF Relations
    <2> QED BY <1>1, <2>1, <2>2 DEF Real
<1>2. CASE SnapshotName(rel) # rel
    BY <1>2 DEF SnapshotName
<1> QED BY <1>1, <1>2

LEMMA WaiterFacts ==
    ASSUME snapshot \in Snapshots, NEW w \in snapshot.waiters
    PROVE  w.rel \in snapshot.captured /\ w.rel \in RealNames
BY SnapshotsAssumption DEF SnapshotType

LEMMA LocksFacts ==
    ASSUME NEW s, NEW r \in Rows, NEW l \in NamedLocks(LocksOf(s, r))
    PROVE  l \in LocksOf(s, r) /\ l.rel \in Relations
<1>1. r.locks \subseteq Locks /\ r.narrow.extra \subseteq Locks  BY DEF Rows, NarrowResults
<1>2. l \in Locks /\ l.rel # Unnamed /\ l \in LocksOf(s, r)  BY <1>1 DEF NamedLocks, LocksOf
<1> QED BY <1>2 DEF Locks

LEMMA EscalationStep ==
    ASSUME TypeOK, NEW s \in Statements, AssessStatement(s)
    PROVE  NoDoubleEscalation'
<1>1. snapshot' = snapshot /\ last'.results = Results(s) /\ snapshot \in Snapshots
    BY ReportFields DEF AssessStatement, inputVars, TypeOK
<1>2. ASSUME NEW r \in s.rows, AssessRow(s, r).tier = "UNSAFE", Based(s, r) # "UNSAFE"
      PROVE  /\ Based(s, r) = "NEEDS_TIMING"
             /\ \E l \in LocksOf(s, r), w \in snapshot.waiters :
                   ~w.idle /\ w.rel = Real(l.rel) /\ w.modes \cap ConflictsWith(l.mode) # {}
    <2>1. r \in Rows  BY StatementFacts
    <2>2. Floored(s, r) = "UNSAFE"
        <3>1. CapForGuard(Floored(s, r)) # "UNSAFE"  BY DEF CapForGuard
        <3> QED BY <1>2, <3>1, RowFields
    <2>3. Escalated(s, r) = "UNSAFE"  BY <2>2 DEF Floored, FloorForAccessExclusive
    <2>4. Based(s, r) = "NEEDS_TIMING" /\ ContentionActive(LocksOf(s, r))
        BY <1>2, <2>1, <2>3, BasedIsTier DEF Escalated, EscalateForContention, Tiers, SafeTiers
    <2>5. PICK l \in NamedLocks(LocksOf(s, r)), w \in snapshot.waiters :
              ~w.idle /\ w.rel = SnapshotName(l.rel) /\ w.modes \cap ConflictsWith(l.mode) # {}
        BY <2>4 DEF ContentionActive, Contenders
    <2>6. w.rel = Real(l.rel)
        BY <1>1, <2>1, <2>5, WaiterFacts, LocksFacts, FoundUnderRealName
    <2>7. l \in LocksOf(s, r)  BY <2>1, LocksFacts
    <2> QED BY <2>4, <2>5, <2>6, <2>7
<1>3. ASSUME NEW x \in Results(s), x.tier = "UNSAFE", x.base # "UNSAFE"
      PROVE  /\ x.base = "NEEDS_TIMING"
             /\ \E l \in x.locks, w \in snapshot.waiters :
                   ~w.idle /\ w.rel = Real(l.rel) /\ w.modes \cap ConflictsWith(l.mode) # {}
    <2>1. PICK r \in s.rows : x = AssessRow(s, r)  BY DEF Results
    <2> QED BY <1>2, <1>3, <2>1, RowFields
<1> QED BY <1>1, <1>3 DEF NoDoubleEscalation, Real

\* No name needs the quotes probe_name would put around it.
NoneQuoted == Names \cap Quoted = {}

LEMMA ContentionStep ==
    ASSUME NoneQuoted, TypeOK, NEW s \in Statements, AssessStatement(s)
    PROVE  ContentionSeen'
<1>1. /\ snapshot' = snapshot /\ last'.results = Results(s) /\ snapshot \in Snapshots
      /\ last'.tier = StatementTier(s, Results(s))
    BY ReportFields DEF AssessStatement, inputVars, TypeOK
<1>2. ASSUME snapshot.online, NEW r \in s.rows, NEW l \in NamedLocks(r.locks), NEW w \in snapshot.waiters,
             w.rel = Real(l.rel), w.modes \cap ConflictsWith(l.mode) # {}
      PROVE  AssessRow(s, r).tier \notin SafeTiers
    <2>1. r \in Rows /\ l \in NamedLocks(LocksOf(s, r))
        BY StatementFacts DEF NamedLocks, LocksOf
    <2>2. l.rel \in Relations /\ Real(l.rel) \in snapshot.captured
        BY <1>1, <1>2, <2>1, LocksFacts, WaiterFacts
    <2>3. SnapshotName(l.rel) = Real(l.rel)
        <3>1. CASE l.rel.schema = Unqualified
            BY <2>2, <3>1 DEF SnapshotName, NoneQuoted, Relations
        <3>2. CASE l.rel.schema # Unqualified
            <4>1. l.rel = [schema |-> l.rel.schema, name |-> l.rel.name]  BY <2>2 DEF Relations
            <4> QED BY <3>2, <4>1 DEF SnapshotName, Real
        <3> QED BY <3>1, <3>2
    <2>4. ContentionObserved(LocksOf(s, r))
        BY <1>2, <2>1, <2>3 DEF ContentionObserved, Contenders
    <2>5. Escalated(s, r) \notin SafeTiers
        BY <2>4 DEF Escalated, EscalateForContention, SafeTiers
    <2>6. Floored(s, r) \notin SafeTiers  BY <2>5 DEF Floored, FloorForAccessExclusive
    <2>7. CapForGuard(Floored(s, r)) \notin SafeTiers  BY DEF CapForGuard, SafeTiers
    <2> QED BY <2>6, <2>7, RowFields
<1> SUFFICES ASSUME snapshot.online, NEW x \in Results(s), NEW l \in NamedLocks(x.row.locks),
                    NEW w \in snapshot.waiters,
                    w.rel = Real(l.rel), w.modes \cap ConflictsWith(l.mode) # {}
             PROVE  StatementTier(s, Results(s)) \notin SafeTiers
    BY <1>1 DEF ContentionSeen, NamedLocks, Real
<1>3. PICK r \in s.rows : x = AssessRow(s, r)  BY DEF Results
<1>4. x.tier \notin SafeTiers  BY <1>2, <1>3, RowFields
<1> QED BY <1>4, UnsafeRowUnsafeStatement

LEMMA ForbiddenStep ==
    ASSUME FileFactsSound, NEW s \in Statements, AssessStatement(s)
    PROVE  ForbiddenInTransaction'
<1> SUFFICES ASSUME alive, inTxn, ~s.guarded, NEW r \in s.rows, r.avail, r.known, r.forbidden
             PROVE  StatementTier(s, Results(s)) = "UNSAFE"
    BY ReportFields DEF ForbiddenInTransaction
<1>1. Branch(s, r) = "forbidden"  BY DEF FileFactsSound, Branch
<1>2. BaseTier(s, r) = "UNSAFE" /\ ~Narrowed(s, r)  BY <1>1 DEF BaseTier, Narrowed
<1>3. Based(s, r) = "UNSAFE"  BY <1>2 DEF Based, SoftenForConditions
<1>4. Floored(s, r) = "UNSAFE"
    BY <1>3 DEF Floored, Escalated, FloorForAccessExclusive, EscalateForContention, SafeTiers
<1>5. AssessRow(s, r) \in Results(s) /\ AssessRow(s, r).tier = "UNSAFE"
    BY <1>4, RowFields DEF Results
<1>6. CombineRank("UNSAFE") <= CombineRank(StatementTier(s, Results(s)))
    BY <1>5, StatementAtLeastRow
<1>7. StatementTier(s, Results(s)) \in Tiers  BY StatementTierIsTier DEF Results
<1> QED BY <1>6, <1>7 DEF Tiers, CombineRank

(***************************************************************************)
(* Without a snapshot, a size is unknown or that of an empty relation.     *)
(***************************************************************************)
LEMMA OfflineEstimates ==
    ASSUME ~snapshot.online, NEW r \in Rows
    PROVE  ModelEstimate(r) \in {ConstantOp, CannotEstimate} /\ RowsEstimate(r) \in {ConstantOp, CannotEstimate}
<1>1. RowsEstimate(r) \in {ConstantOp, CannotEstimate}  BY DEF RowsEstimate, Captured
<1>2. BytesEstimate(r) = CannotEstimate  BY DEF BytesEstimate, Captured
<1>3. r.model \in DurationModels  BY DEF Rows
<1> QED BY <1>1, <1>2, <1>3 DEF ModelEstimate, DurationModels

LEMMA SmallIsNotUnsafe ==
    ASSUME NEW d \in {ConstantOp, CannotEstimate}
    PROVE  /\ AllRowsDmlVerdict(d) # "UNSAFE"
           /\ \A locks, live : ProportionalVerdict(locks, d, live) # "UNSAFE"
<1>1. \A block : Band(ConstantOp.high, block) = "SAFE"
    BY DEF Band, ConstantOp, ShortMs
<1>2. CASE d = CannotEstimate  BY <1>2 DEF AllRowsDmlVerdict, ProportionalVerdict
<1>3. CASE d = ConstantOp
    <2>1. \A block : Band(d.high, block) = "SAFE"  BY <1>1, <1>3
    <2> QED BY <2>1, Zenon DEF AllRowsDmlVerdict, ProportionalVerdict
<1> QED BY <1>2, <1>3

LEMMA OfflineRow ==
    ASSUME ~snapshot.online, NEW s, NEW r \in Rows, AssessRow(s, r).tier = "UNSAFE"
    PROVE  ~r.avail \/ r.forbidden
<1>1. Floored(s, r) = "UNSAFE"
    <2>1. CapForGuard(Floored(s, r)) # "UNSAFE"  BY DEF CapForGuard
    <2> QED BY <2>1, RowFields
<1>2. Escalated(s, r) = "UNSAFE"  BY <1>1 DEF Floored, FloorForAccessExclusive
<1>3. ~ContentionObserved(LocksOf(s, r))  BY DEF ContentionObserved
<1>4. Based(s, r) = "UNSAFE"  BY <1>2, <1>3 DEF Escalated, EscalateForContention
<1>5. BaseTier(s, r) = "UNSAFE"  BY <1>4 DEF Based, SoftenForConditions
<1>6. Branch(s, r) \in {"unavailable", "forbidden"}
    <2>1. Branch(s, r) \notin {"constant", "proportional"}
        <3>1. r.shape \notin {"constant", "proportional"}  BY DEF Rows, Shapes
        <3> QED BY <3>1 DEF Branch
    <2>2. MatchedDmlVerdict(RowsEstimate(r)) # "UNSAFE"  BY DEF MatchedDmlVerdict
    <2>3. AllRowsDmlVerdict(RowsEstimate(r)) # "UNSAFE"  BY OfflineEstimates, SmallIsNotUnsafe
    <2>4. GenericVerdict(r, LocksOf(s, r)) # "UNSAFE"
        <3>1. r.model \in DurationModels  BY DEF Rows
        <3>2. ConstantVerdict(LocksOf(s, r)) # "UNSAFE"  BY DEF ConstantVerdict
        <3>3. ProportionalVerdict(LocksOf(s, r), ModelEstimate(r), LiveAelRelations(LocksOf(s, r)) # {}) # "UNSAFE"
            BY OfflineEstimates, SmallIsNotUnsafe
        <3> QED BY <3>1, <3>2, <3>3 DEF GenericVerdict, DurationModels
    <2> QED BY <1>5, <2>1, <2>2, <2>3, <2>4, BranchRange DEF BaseTier
<1> QED BY <1>6 DEF Branch, Rows, Shapes

LEMMA OfflineStep ==
    ASSUME NEW s \in Statements, AssessStatement(s)
    PROVE  OfflineUnsafeIsProven'
<1>1. snapshot' = snapshot /\ last'.stmt = s /\ last'.tier = StatementTier(s, Results(s))
    BY ReportFields DEF AssessStatement, inputVars
<1> SUFFICES ASSUME ~snapshot.online, StatementTier(s, Results(s)) = "UNSAFE"
             PROVE  \E r \in s.rows : ~r.avail \/ r.forbidden
    BY <1>1 DEF OfflineUnsafeIsProven
<1>2. CombineRows(Results(s)) = "UNSAFE"
    BY DEF StatementTier, CombineHeld, CombineIrreversible, CombineOpaque
<1>3. Results(s) # {}  BY <1>2 DEF CombineRows
<1>4. PICK x \in Results(s) : x.tier = "UNSAFE"
    <2> DEFINE T == {x.tier : x \in Results(s)}
    <2>1. T \in SUBSET Tiers /\ T # {}  BY <1>3, ResultsAreTiers
    <2>2. WorseClassification(T) = "UNSAFE"  BY <1>2, <1>3 DEF CombineRows
    <2>3. WorseClassification(T) \in T
        <3> HIDE DEF T
        <3> QED BY <2>1, WorstOfSeveral
    <2> QED BY <2>2, <2>3
<1>5. PICK r \in s.rows : x = AssessRow(s, r)  BY DEF Results
<1>6. r \in Rows  BY StatementFacts
<1> QED BY <1>4, <1>5, <1>6, OfflineRow

LEMMA NothingAssessed ==
    Init => NoDoubleEscalation /\ ContentionSeen /\ ForbiddenInTransaction /\ OfflineUnsafeIsProven
BY DEF Init, NoDoubleEscalation, ContentionSeen, ForbiddenInTransaction, OfflineUnsafeIsProven

(***************************************************************************)
(* Contention moves a row one tier at most, and into UNSAFE only for live  *)
(* traffic that conflicts with a lock of the row under the name Postgres   *)
(* would find (_escalate_for_contention): for every file, plain or not.    *)
(***************************************************************************)
THEOREM EscalatedOnce == Spec => []NoDoubleEscalation
<1>1. TypeOK /\ NoDoubleEscalation /\ [Next]_vars => NoDoubleEscalation'
    <2>1. NoDoubleEscalation /\ UNCHANGED vars => NoDoubleEscalation'
        BY DEF NoDoubleEscalation, Real, vars
    <2> QED BY <2>1, EscalationStep DEF Next
<1> QED BY <1>1, NothingAssessed, TypeCorrect, PTL DEF Spec

(***************************************************************************)
(* Conflicting traffic the snapshot saw on a relation a statement names    *)
(* always keeps the statement out of the safe tiers (_contention_for in    *)
(* verdict/engine.py), when no name needs quoting.                         *)
(***************************************************************************)
THEOREM ContentionNeverMissed ==
    ASSUME NoneQuoted
    PROVE  Spec => []ContentionSeen
<1>1. TypeOK /\ ContentionSeen /\ [Next]_vars => ContentionSeen'
    <2>1. ContentionSeen /\ UNCHANGED vars => ContentionSeen'
        BY DEF ContentionSeen, NamedLocks, Real, vars
    <2> QED BY <2>1, ContentionStep DEF Next
<1> QED BY <1>1, NothingAssessed, TypeCorrect, PTL DEF Spec

(***************************************************************************)
(* A statement Postgres refuses in a transaction block is UNSAFE whenever  *)
(* the session is in one as it comes up, whatever BEGINs, COMMITs and      *)
(* chained ends preceded it (_group_transactions, explicit_txn).           *)
(***************************************************************************)
THEOREM ForbiddenFormsFound ==
    ASSUME AllPlain
    PROVE  Spec => []ForbiddenInTransaction
<1>1. FileFactsSound /\ ForbiddenInTransaction /\ [Next]_vars => ForbiddenInTransaction'
    <2>1. ForbiddenInTransaction /\ UNCHANGED vars => ForbiddenInTransaction'
        BY DEF ForbiddenInTransaction, vars
    <2> QED BY <2>1, ForbiddenStep DEF Next
<1> QED BY <1>1, NothingAssessed, FileFactsHold, PTL DEF Spec

(***************************************************************************)
(* Offline, nothing that rests on a size is ever UNSAFE: only a form the   *)
(* version lacks or the surroundings forbid is (assess_script): for every  *)
(* file, plain or not.                                                     *)
(***************************************************************************)
THEOREM OfflineNeverGuesses == Spec => []OfflineUnsafeIsProven
<1>1. OfflineUnsafeIsProven /\ [Next]_vars => OfflineUnsafeIsProven'
    <2>1. OfflineUnsafeIsProven /\ UNCHANGED vars => OfflineUnsafeIsProven'
        BY DEF OfflineUnsafeIsProven, vars
    <2> QED BY <2>1, OfflineStep DEF Next
<1> QED BY <1>1, NothingAssessed, PTL DEF Spec
=============================================================================
