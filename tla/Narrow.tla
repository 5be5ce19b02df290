-------------------------------- MODULE Narrow --------------------------------
(***************************************************************************)
(* verdict/narrow.py: what the facts of the snapshot say of one ALTER TABLE *)
(* subcommand whose catalog row asks for live context.  The subcommands all *)
(* work on one column, "c", of one relation.  A fact the snapshot could not *)
(* supply is Missing.                                                       *)
(***************************************************************************)
EXTENDS TypeChange, Classify

CONSTANT Missing

Outcomes == {"constant", "proportional", "keep_model", "unresolved", "fails", "elsewhere"}
RebuildFamilies == {"index_build_btree", "index_build_expression"}

Decided(outcome) ==
  [outcome |-> outcome, observed |-> TRUE, relabel |-> FALSE, conditional |-> FALSE,
   rebuilt |-> {}, extra |-> {}]
Unresolved == [Decided("unresolved") EXCEPT !.observed = FALSE]
Fails == Decided("fails")          \* the version has no such form
Elsewhere == Decided("elsewhere")  \* a statement that is not narrowed

\* relation_facts_for, with the reasons _constraints_of gives for none.
Constraints(snap) ==
  IF snap.relation = Missing THEN Missing
  ELSE IF snap.relation.exists # TRUE THEN Missing
  ELSE snap.relation.constraints
Columns(snap) == IF snap.relation = Missing THEN Missing ELSE snap.relation.columns
\* The slip TLC must refute: indexes that were not read are no indexes.
IndexesOrNone(snap) ==
  IF snap.relation = Missing \/ snap.relation.indexes = Missing THEN {}
  ELSE snap.relation.indexes
Indexes(snap) ==
  IF snap.relation = Missing THEN Missing
  ELSE IF snap.relation.exists # TRUE THEN Missing ELSE snap.relation.indexes

NotNullAtom == [op |-> "atom", says |-> "c_not_null", parts |-> {}]

\* check_expression_proves_not_null: the whole check, or a top-level conjunct.
ProvesNotNull(check) ==
  check = NotNullAtom \/ (check.op = "and" /\ NotNullAtom \in check.parts)

\* ADD COLUMN with a default: only a constrained domain still rewrites.
AddColumnDomain(column, snap) ==
  IF ~snap.types THEN Unresolved
  ELSE IF Constrained(column.type) THEN Decided("proportional") ELSE Decided("constant")

AddColumnUnknown(column, snap) ==
  LET decided == DecideDefault(column.default, snap.functions) IN
  CASE decided = "unknown" -> Unresolved
    [] decided = "volatile" -> Decided("proportional")
    [] OTHER -> AddColumnDomain(column, snap)

\* The slip TLC must refute: the family is named after the access method.
RebuildFamilyOfMethod(index) ==
  IF index.expressions THEN "index_build_expression" ELSE index.method

RebuildFamily(index) ==
  IF index.expressions \/ index.method # "btree" THEN "index_build_expression"
  ELSE "index_build_btree"

Dependent(indexes) == {index \in indexes : index.onColumn}

\* The slip TLC must refute: an index on an expression is reused.
ForcedRebuildsPlain(indexes) ==
  {index \in Dependent(indexes) :
     index.partial \/ index.method # "btree" \/ ~index.defaultClass}

\* CheckIndexCompatible reuses plain btree keys of default classes only.
ForcedRebuilds(indexes) ==
  {index \in Dependent(indexes) :
     \/ index.partial \/ index.expressions
     \/ index.method # "btree" \/ ~index.defaultClass}

\* No heap rewrite, but the indexes of the column may still be built again.
NoRewrite(snap) ==
  LET indexes == Indexes(snap) IN
  IF indexes = Missing THEN Unresolved
  ELSE IF ForcedRebuilds(indexes) = {}
  THEN [Decided("constant") EXCEPT !.relabel = TRUE]
  ELSE [Decided("proportional") EXCEPT
          !.relabel = TRUE,
          !.rebuilt = {<<i.name, RebuildFamily(i)>> : i \in ForcedRebuilds(indexes)}]

AlterColumnType(new, using, snap, version) ==
  IF ~snap.typeChange THEN Unresolved
  ELSE LET verdict == AssessTypeChange(snap.current # Missing, snap.current, new,
                                       using, version) IN
       CASE verdict = "no_rewrite" -> NoRewrite(snap)
         [] verdict = "no_rewrite_if_utc" ->
              [Decided("proportional") EXCEPT !.conditional = TRUE]
         [] verdict = "rewrite" -> Decided("proportional")
         [] OTHER -> Unresolved

\* Already NOT NULL, or a validated constraint proves it.
SetNotNull(snap) ==
  LET constraints == Constraints(snap) IN
  IF Columns(snap) # Missing /\ Columns(snap).notNull THEN Decided("constant")
  ELSE IF constraints = Missing THEN Unresolved
  ELSE IF \E con \in constraints :
            /\ con.validated
            /\ \/ con.contype = "check" /\ ProvesNotNull(con.check)
               \/ con.contype = "notnull"
  THEN Decided("constant") ELSE Decided("proportional")

NamedIn(constraints, name) == {con \in constraints : con.name = name}

\* A foreign key's work reaches the table it references.
WithReferenced(result, con, mode) ==
  IF con.contype = "foreign" /\ con.references # Missing
  THEN [result EXCEPT !.extra = {<<con.references, mode>>}] ELSE result

ValidateConstraint(name, snap) ==
  IF Constraints(snap) = Missing THEN Unresolved
  ELSE IF NamedIn(Constraints(snap), name) = {} THEN Unresolved
  ELSE LET con == CHOOSE con \in NamedIn(Constraints(snap), name) : TRUE IN
       IF con.validated THEN Decided("constant")
       ELSE WithReferenced(Decided("proportional"), con, "ROW SHARE")

DropConstraint(name, snap) ==
  IF Constraints(snap) = Missing THEN Unresolved
  ELSE IF NamedIn(Constraints(snap), name) = {} THEN Decided("constant")
  ELSE WithReferenced(Decided("constant"),
                      CHOOSE con \in NamedIn(Constraints(snap), name) : TRUE,
                      "ACCESS EXCLUSIVE")

\* The index's own columns are not captured, so every column must be proven.
AddPrimaryKeyUsingIndex(snap) ==
  IF Columns(snap) # Missing /\ Columns(snap).allNotNull THEN Decided("constant")
  ELSE [Decided("keep_model") EXCEPT !.observed = (snap.relation # Missing)]

SetExpression(snap) ==
  IF Columns(snap) = Missing THEN Unresolved
  ELSE CASE Columns(snap).generated = "virtual" -> Decided("constant")
         [] Columns(snap).generated = "stored" -> Decided("proportional")
         [] OTHER -> Unresolved

\* narrow_action: a kind without a narrowing stays open.
NarrowAction(kind, action, snap, version) ==
  CASE kind = "add_column_default_nonvolatile" -> AddColumnDomain(action, snap)
    [] kind = "add_column_default_unknown_volatility" -> AddColumnUnknown(action, snap)
    [] kind = "alter_column_type" ->
         AlterColumnType(action.type, action.using, snap, version)
    [] kind \in {"set_not_null", "add_not_null_constraint"} -> SetNotNull(snap)
    [] kind = "validate_constraint" -> ValidateConstraint(action.name, snap)
    [] kind = "drop_constraint" -> DropConstraint(action.name, snap)
    [] kind = "add_primary_key_using_index" -> AddPrimaryKeyUsingIndex(snap)
    [] kind = "set_expression" -> SetExpression(snap)
    [] OTHER -> Unresolved
===============================================================================
