---------------------------- MODULE Reversibility ----------------------------
(***************************************************************************)
(* verdict/reversibility.py: whether an inverse statement restores the      *)
(* state after the commit.  The two tables are total over the kinds of the  *)
(* IR and a lookup raises on a miss, so each is kept as the kinds it calls  *)
(* irreversible and the kinds it leaves unknown; every other one is         *)
(* reversible.                                                              *)
(***************************************************************************)
EXTENDS Integers

CreatedKinds ==
  {"create_table", "create_table_partition_of", "create_table_as", "select_into",
   "create_foreign_table", "create_view", "create_matview", "create_sequence",
   "create_enum_type", "create_composite_type", "create_range_type",
   "create_domain", "create_statistics", "create_aggregate", "create_function",
   "create_procedure", "create_trigger", "create_policy", "create_rule",
   "create_extension", "create_schema", "create_role", "create_index",
   "create_index_concurrently", "create_database", "create_tablespace"}

\* Maintenance, reads, settings and renames that leave the data as it was.
HarmlessKinds ==
  {"drop_index", "drop_index_concurrently", "drop_tablespace", "alter_index",
   "alter_view", "alter_matview", "rename_table", "rename_column",
   "rename_index", "rename_constraint", "rename_view", "rename_matview",
   "rename_type", "rename_other", "alter_object_schema", "alter_owner",
   "reindex", "reindex_concurrently", "vacuum", "vacuum_full", "analyze",
   "cluster", "refresh_matview", "refresh_matview_concurrently",
   "alter_enum_rename_value", "alter_function", "alter_policy",
   "alter_statistics", "grant", "revoke", "alter_default_privileges",
   "alter_role", "alter_database", "alter_system", "comment_on", "set", "reset",
   "show", "lock_table", "insert", "copy_from", "select", "copy_to", "begin",
   "commit", "rollback", "savepoint", "release_savepoint",
   "rollback_to_savepoint", "transaction_other"}

IrreversibleKinds ==
  {"drop_table", "truncate", "drop_view", "drop_matview", "drop_sequence",
   "drop_type", "drop_domain", "drop_function", "drop_procedure",
   "drop_aggregate", "drop_trigger", "drop_policy", "drop_extension",
   "drop_schema", "drop_role", "drop_database", "alter_enum_add_value",
   "update", "update_without_where", "update_batched", "delete",
   "delete_without_where", "delete_batched", "merge"}

UnknownKinds ==
  {"alter_table", "alter_foreign_table", "alter_composite_type", "alter_sequence",
   "alter_domain", "alter_extension", "call", "do_block", "other"}

StatementKinds == CreatedKinds \cup HarmlessKinds \cup IrreversibleKinds \cup UnknownKinds

StatementReversibility(kind) ==
  IF kind \in IrreversibleKinds THEN "irreversible"
  ELSE IF kind \in UnknownKinds THEN "unknown" ELSE "reversible"

IrreversibleActions == {"drop_column", "drop_identity"}

\* The slip TLC must refute: a type change is called undoable as it stands.
ActionReversibilityHopeful(action, relabel) ==
  IF action \in IrreversibleActions THEN "irreversible" ELSE "reversible"

(* The row of an ALTER TABLE subcommand; a type change that live facts prove *)
(* a pure relabel is undone by altering back.                                *)
ActionReversibility(action, relabel) ==
  IF relabel THEN "reversible"
  ELSE IF action \in IrreversibleActions THEN "irreversible"
  ELSE IF action \in {"alter_column_type", "other"} THEN "unknown" ELSE "reversible"

ReversibilityRank(r) ==
  CASE r = "reversible" -> 0 [] r = "unknown" -> 1 [] r = "irreversible" -> 2

\* A composite is as irreversible as its worst part.
CombineReversibility(parts) ==
  CHOOSE r \in parts : \A q \in parts : ReversibilityRank(q) <= ReversibilityRank(r)
==============================================================================
