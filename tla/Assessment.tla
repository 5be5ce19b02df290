------------------------------ MODULE Assessment ------------------------------
(***************************************************************************)
(* A migration's ALTER TABLE subcommands judged from one snapshot, next to  *)
(* what Postgres does when the file runs.  The snapshot is taken once,      *)
(* before the file; every row of every statement is judged from it, while   *)
(* the rows before it have already changed the table.  A statement is an    *)
(* ALTER TABLE with its subcommands or a DO block with its inner statements.*)
(***************************************************************************)
EXTENDS Narrow, Reversibility, FiniteSets

CONSTANTS Tables,        \* tables the file may find, see Table below
          Subcommands,   \* ALTER TABLE subcommands, as classify.py records them
          InnerKinds,    \* kinds of the other statements a DO block may hold
          Provolatile,   \* [function -> "immutable" | "stable" | "volatile" | "disagree"]
          Versions,
          MaxRows        \* bound: rows in a file

VARIABLES version, table, captured, hidden, phase, statement, lost, rows, reported

vars == <<version, table, captured, hidden, phase, statement, lost, rows, reported>>

FactGroups == {"relation", "exists", "columns", "constraints", "indexes", "types",
               "typeChange", "cast", "functions"}

\* BOUND: a snapshot misses one group of facts, or none.
Hideable == {{}} \cup {{group} : group \in FactGroups}

-------------------------------------------------------------------------------
(* The catalog and the snapshot.                                             *)

Kind(a) == CASE a.node = "add_column" -> AddColumnKind(a)
             [] a.node = "add_constraint" ->
                  AddConstraintKind(a.contype, a.notValid, a.usingIndex)
             [] OTHER -> a.node

AvailableFrom(kind) ==
  CASE kind = "add_column_generated_stored" -> 12
    [] kind \in {"add_column_generated_virtual", "add_not_null_constraint",
                 "add_not_null_constraint_not_valid"} -> 18
    [] kind = "set_expression" -> 17
    [] OTHER -> 10

\* The version from which the row's model is a worst case for the snapshot.
LiveFrom(kind) ==
  CASE kind \in {"add_column_default_nonvolatile",
                 "add_column_default_unknown_volatility"} -> 11
    [] kind = "set_not_null" -> 12
    [] kind \in {"add_column_not_null_no_default", "alter_column_type",
                 "set_expression", "add_not_null_constraint", "validate_constraint",
                 "drop_constraint", "add_primary_key_using_index"} -> 10
    [] OTHER -> 99

Model(kind) ==
  IF kind \in {"add_column_default_nonvolatile", "add_column_default_volatile",
               "add_column_default_unknown_volatility", "add_column_serial",
               "add_column_identity", "add_column_generated_stored",
               "alter_column_type", "set_not_null", "set_expression", "add_check",
               "add_not_null_constraint", "validate_constraint"}
  THEN "proportional" ELSE "constant"

Answered == {f \in DOMAIN Provolatile : Provolatile[f] # "disagree"}

Asked(a) == IF a.node = "add_column" THEN UnknownFunctions(a.default) ELSE {}

ColumnFacts(t) ==
  [notNull |-> t.notNull, allNotNull |-> t.notNull /\ t.othersNotNull,
   generated |-> t.generated]

RelationFacts(t, without) ==
  LET Read(group, fact) == IF without \cap {"exists", group} = {} THEN fact ELSE Missing IN
  [exists |-> Read("exists", TRUE), columns |-> Read("columns", ColumnFacts(t)),
   constraints |-> Read("constraints", t.constraints), indexes |-> Read("indexes", t.indexes)]

\* What the snapshot of table t holds for a, less the groups it could not read.
Facts(t, a, without) ==
  [relation |-> IF "relation" \in without THEN Missing ELSE RelationFacts(t, without),
   types |-> "types" \notin without,
   typeChange |-> "typeChange" \notin without,
   current |-> IF "cast" \in without THEN Missing ELSE t.type,
   functions |-> [f \in IF "functions" \in without THEN {} ELSE Asked(a) \cap Answered
                    |-> Provolatile[f]]]

(* _assess_row on one subcommand: a form the version lacks fails, a row that *)
(* asks for live context is narrowed or stays open, any other keeps its      *)
(* catalog model.                                                            *)
Assess(a, online, t, without) ==
  LET kind == Kind(a) IN
  IF version < AvailableFrom(kind) THEN Fails
  ELSE IF version < LiveFrom(kind)
  THEN [Decided(Model(kind)) EXCEPT !.observed = FALSE]
  ELSE IF ~online THEN Unresolved
  ELSE NarrowAction(kind, a, Facts(t, a, without), version)

-------------------------------------------------------------------------------
(* What Postgres does (external): tablecmds.c as the catalog's sources and   *)
(* the comments of narrow.py and typechange.py cite it.                      *)

Sizes == 0..6

\* The lengths, digits or precisions a type admits.
Values(base, params) ==
  CASE base \in {"varchar", "varbit", "text"} ->
         {n \in Sizes : params = <<>> \/ n <= params[1]}
    [] base = "numeric" ->
         {d \in Sizes \X Sizes : params = <<>> \/ (/\ d[1] <= params[1] - Scale(params)
                                                   /\ d[2] = Scale(params))}
    [] base \in BareMeansSix -> {p \in Sizes : params = <<>> \/ p <= params[1]}
    [] base = "bpchar" -> {params[1]}
    [] OTHER -> {0}

Modifier(type) == IF type.domain.is THEN type.domain.params ELSE type.params

\* A length coercion does nothing when every value already fits.
EveryValueFits(cur, new) ==
  \/ Modifier(new) = <<>>
  \/ Values(cur.base, Modifier(cur)) \subseteq Values(new.base, Modifier(new))

Converts(cur, new) == cur.base # new.base /\ <<cur.base, new.base>> \notin BinaryCoercible

Rewrites(cur, new, using) ==
  using \/ Constrained(new) \/ Converts(cur, new) \/ ~EveryValueFits(cur, new)

RebuildsIndex(t) ==
  \E i \in t.indexes : i.onColumn /\ (i.partial \/ i.expressions \/ ~i.defaultClass)

\* Some call of the tree is volatile.
CallsVolatile(expression) ==
  LET Volatile[e \in Expressions] ==
        \/ /\ e.function \in DOMAIN Provolatile
           /\ Provolatile[e.function] \in {"volatile", "disagree"}
        \/ e.function \in DOMAIN Builtins /\ Builtins[e.function] = "volatile"
        \/ \E p \in Range(e.parts) : Volatile[p]
  IN Volatile[expression]

\* The check is false whenever the column is null.
FalseOnNull(check) ==
  CASE check.op = "atom" -> check = NotNullAtom
    [] check.op = "and" -> NotNullAtom \in check.parts
    [] check.op = "or" -> check.parts = {NotNullAtom}

\* Postgres 18 marks the column NOT NULL before the constraint is validated.
NotNullUnproven(t) == \E con \in t.constraints : con.contype = "notnull" /\ ~con.validated

ScansForNull(t) ==
  /\ ~t.notNull \/ NotNullUnproven(t)
  /\ ~\E con \in t.constraints : con.contype = "check" /\ con.validated /\ FalseOnNull(con.check)

Touches(t, a) ==
  CASE Kind(a) \in {"add_column_default_nonvolatile",
                    "add_column_default_unknown_volatility"} ->
         Constrained(a.type) \/ CallsVolatile(a.default)
    [] a.node = "alter_column_type" ->
         Rewrites(t.type, a.type, a.using) \/ RebuildsIndex(t)
    [] Kind(a) \in {"set_not_null", "add_not_null_constraint"} -> ScansForNull(t)
    [] a.node = "validate_constraint" ->
         \E con \in NamedIn(t.constraints, a.name) : ~con.validated
    [] Kind(a) = "add_primary_key_using_index" ->
         ~(t.notNull /\ t.othersNotNull) \/ NotNullUnproven(t)
    [] a.node = "set_expression" -> t.generated = "stored"
    [] OTHER -> FALSE

Altered(t, a) ==
  CASE a.node = "alter_column_type" -> [t EXCEPT !.type = a.type]
    [] Kind(a) \in {"set_not_null", "add_not_null_constraint"} -> [t EXCEPT !.notNull = TRUE]
    [] a.node = "drop_not_null" -> [t EXCEPT !.notNull = FALSE]
    [] a.node = "drop_constraint" ->
         [t EXCEPT !.constraints = @ \ NamedIn(@, a.name)]
    [] a.node = "validate_constraint" ->
         [t EXCEPT !.constraints = {IF con.name = a.name THEN [con EXCEPT !.validated = TRUE]
                                    ELSE con : con \in @}]
    [] OTHER -> t

\* What no later statement brings back.
Loses(t, a) ==
  CASE a.node = "drop_column" -> {"values"}
    [] a.node = "drop_identity" -> {"sequence"}
    [] a.node = "alter_column_type" ->
         IF a.using \/ Converts(t.type, a.type) \/ ~EveryValueFits(t.type, a.type)
         THEN {"values"} ELSE {}
    [] OTHER -> {}

KindLoses(kind) ==
  CASE kind \in {"drop_table", "truncate", "update", "delete"} -> {"values"}
    [] kind \in {"drop_view", "drop_function"} -> {"definition"}
    [] kind \in {"alter_sequence", "call"} -> {"unpredictable"}
    [] OTHER -> {}

ExistsOn(v, t) ==
  /\ t.generated = "stored" => v >= 12
  /\ t.generated = "virtual" => v >= 18
  /\ \A con \in t.constraints : con.contype = "notnull" => v >= 18

-------------------------------------------------------------------------------
(* What the constants are.                                                   *)

\* Nothing that a snapshot holds is Missing.
ASSUME MissingAssumption ==
  /\ Missing # TRUE
  /\ \A t \in Tables :
       /\ t # Missing /\ t.type # Missing /\ t.constraints # Missing /\ t.indexes # Missing
       /\ ColumnFacts(t) # Missing
       /\ \A without \in Hideable : RelationFacts(t, without) # Missing

\* Numbers as modifiers, and a name of its own for a domain only.
TypesWritten ==
  {t.type : t \in Tables}
  \cup {a.type : a \in {b \in Subcommands : b.node \in {"add_column", "alter_column_type"}}}
ASSUME TypesAssumption == \A type \in TypesWritten :
  /\ type.params \in Seq(Int) /\ type.domain.params \in Seq(Int)
  /\ ~type.domain.is => type.name = type.base

\* Constraints have names of their own, and a column with a NOT NULL
\* constraint is marked so.
ASSUME TablesAssumption == \A t \in Tables : \A con \in t.constraints :
  /\ con.contype = "notnull" => t.notNull
  /\ NamedIn(t.constraints, con.name) = {con}

ASSUME SubcommandsAssumption == \A a \in Subcommands :
  /\ a.node \notin {"add_column_default_nonvolatile", "add_column_default_unknown_volatility"}
  /\ a.node = "add_column" => a.default \in Expressions

\* pg_proc is asked about the functions that no list knows.
ASSUME FunctionsAssumption ==
  /\ DOMAIN Builtins \cap DOMAIN Provolatile = {}
  /\ \A f \in DOMAIN Builtins : Builtins[f] \in {"immutable", "stable", "volatile"}
  /\ \A f \in DOMAIN Provolatile :
       Provolatile[f] \in {"immutable", "stable", "volatile", "disagree"}

\* An expression is a tree: it has more nodes than any of its parts.
Size(expression) ==
  LET Nodes[e \in Expressions] == {e} \cup UNION {Nodes[p] : p \in Range(e.parts)}
  IN Cardinality(Nodes[expression])

ASSUME TreesAssumption == \A e \in Expressions :
  /\ Size(e) \in Nat
  /\ \A p \in Range(e.parts) : p \in Expressions \ {NoExpression} /\ Size(p) < Size(e)
  /\ e.construct = "constant" => Range(e.parts) = {}
  /\ e.construct = "cast" => Range(e.parts) = {e.parts[1]}
  /\ e.construct # "call" => e.function \notin DOMAIN Builtins \cup DOMAIN Provolatile
  /\ e # NoExpression =>
       e.construct \in {"constant", "null", "clock", "call", "when", "operator", "column",
                        "cast", "compound", "subquery", "userop"}

ASSUME MaxRowsAssumption == MaxRows \in Nat \ {0}

-------------------------------------------------------------------------------
Init == /\ version \in Versions
        /\ table \in {t \in Tables : ExistsOn(version, t)}
        /\ captured = Missing /\ hidden = {}
        /\ phase = "parsed"
        /\ statement = <<>> /\ lost = {} /\ rows = 0
        /\ reported = "reversible"

Starts == /\ phase = "parsed" /\ phase' = "open"
          /\ UNCHANGED <<version, table, statement, lost, rows, reported>>

\* capture_snapshot; one group of facts may be unreadable.
Capture == \E without \in Hideable :
             /\ Starts
             /\ captured' = table /\ hidden' = without

Offline == Starts /\ UNCHANGED <<captured, hidden>>

\* BOUND: a file of more than one row has all its facts, or none.
Bounded == rows < IF hidden = {} THEN MaxRows ELSE 1

Judged(row, losses) ==
  /\ phase = "open" /\ Bounded
  /\ statement' = Append(statement, row)
  /\ lost' = lost \cup losses
  /\ rows' = rows + 1
  /\ UNCHANGED <<version, captured, hidden, phase, reported>>

\* One subcommand: its result, and Postgres carries it out.
AssessAction(a) ==
  LET result == Assess(a, captured # Missing, captured, hidden)
      runs == result # Fails
  IN /\ Judged([action |-> a, result |-> result,
                reversibility |-> ActionReversibility(Kind(a), result.relabel),
                fresh |-> table = captured, touches |-> runs /\ Touches(table, a)],
               IF runs THEN Loses(table, a) ELSE {})
     /\ table' = IF runs THEN Altered(table, a) ELSE table

\* An inner statement of a DO block that is no ALTER TABLE of this table.
AssessInner(kind) ==
  /\ Judged([action |-> [node |-> kind], result |-> Elsewhere,
             reversibility |-> StatementReversibility(kind), fresh |-> FALSE, touches |-> FALSE],
            KindLoses(kind))
  /\ UNCHANGED table

(* _statement_reversibility at the end of the statement; a DO block with no  *)
(* row takes its own entry.                                                  *)
Close ==
  /\ phase = "open" /\ phase' = "closed"
  /\ reported' = IF statement = <<>> THEN StatementReversibility("do_block")
                 ELSE CombineReversibility({row.reversibility : row \in Range(statement)})
  /\ UNCHANGED <<version, table, captured, hidden, statement, lost, rows>>

NextStatement ==
  /\ phase = "closed" /\ Bounded /\ statement # <<>>
  /\ phase' = "open"
  /\ statement' = <<>> /\ lost' = {}
  /\ UNCHANGED <<version, table, captured, hidden, rows, reported>>

Next == \/ Capture \/ Offline
        \/ \E a \in Subcommands : AssessAction(a)
        \/ \E kind \in InnerKinds : AssessInner(kind)
        \/ Close \/ NextStatement

Spec == Init /\ [][Next]_vars

-------------------------------------------------------------------------------
(* Properties.                                                               *)

\* Every row is one of the results narrow.py can give, its rebuilds are timed
\* by a throughput family the calibration knows, and a file stays in its bound.
TypeOK ==
  /\ version \in Versions /\ hidden \in SUBSET FactGroups
  /\ phase \in {"parsed", "open", "closed"} /\ rows \in 0..MaxRows
  /\ Len(statement) <= rows
  /\ \A row \in Range(statement) :
       /\ row.result.outcome \in Outcomes
       /\ \A rebuild \in row.result.rebuilt : rebuild[2] \in RebuildFamilies
       /\ row.result.relabel => row.action.node = "alter_column_type"
       /\ row.reversibility \in {"reversible", "unknown", "irreversible"}
  /\ reported \in {"reversible", "unknown", "irreversible"}

\* A subcommand that the snapshot's facts call catalog-time work, run as a
\* statement of its own on the table as captured, neither rewrites the table,
\* nor scans it for nulls or for a constraint, nor builds an index again.
\* (Set apart: a NOT NULL that is NOT VALID, which _narrow_set_not_null takes
\* for a proof on Postgres 18.)
FastPathProven ==
  phase = "closed" /\ Len(statement) = 1 =>
    LET row == statement[1] IN
    row.fresh /\ row.result.observed /\ row.result.outcome = "constant"
      /\ ~NotNullUnproven(captured)
    => ~row.touches

Weight(outcome) ==
  CASE outcome = "constant" -> 0 [] outcome = "keep_model" -> 1
    [] outcome = "proportional" -> 2 [] OTHER -> 3

\* A fact the snapshot could not read never makes a subcommand look cheaper
\* than all the facts together would.
MissingFactNeverLightens ==
  captured # Missing => \A row \in Range(statement) :
    row.result # Elsewhere =>
      Weight(row.result.outcome) >= Weight(Assess(row.action, TRUE, captured, {}).outcome)

\* What a statement reported reversible has done to the data can be undone.
\* Only for tables as captured: the facts are older than the file.
UndoLosesNothing ==
  phase = "closed" /\ (\A i \in DOMAIN statement : statement[i].fresh \/ statement[i].result = Elsewhere)
    /\ reported = "reversible" => lost = {}

\* A part of the tree that no answer of pg_proc could settle.
Unanswerable(expression) ==
  LET Open[e \in Expressions] ==
        \/ e.construct \in {"subquery", "userop"}
        \/ e.construct = "call" /\ Known(e.function) = "unknown" /\ e.function \notin Answered
        \/ \E p \in Range(e.parts) : Open[p]
  IN Open[expression]

\* A default whose volatility stays open was not left open for want of a
\* question: some function of it has no single answer in pg_proc, or some part
\* of it no function's answer could settle.
ProbesSuffice ==
  captured # Missing /\ hidden \cap {"functions", "types"} = {} =>
    \A row \in Range(statement) :
      row.action.node = "add_column" /\ row.result = Unresolved
        /\ Kind(row.action) = "add_column_default_unknown_volatility" =>
        Unanswerable(row.action.default)
===============================================================================
