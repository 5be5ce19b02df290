------------------------------- MODULE Classify -------------------------------
(***************************************************************************)
(* classify.py, the part that picks an ALTER TABLE subcommand's kind by more *)
(* than its node: added columns and added constraints.                      *)
(***************************************************************************)
EXTENDS Volatility

NoExpression == [construct |-> "none", function |-> "", parts |-> <<>>]

DefaultKind(volatility) ==
  CASE volatility = "volatile" -> "add_column_default_volatile"
    [] volatility = "unknown" -> "add_column_default_unknown_volatility"
    [] OTHER -> "add_column_default_nonvolatile"

(* _add_column_action: a generated column first, then an identity, a serial   *)
(* type, a default, a bare NOT NULL.  A NULL default fills nothing in.        *)
AddColumnKind(column) ==
  IF column.fill = "stored" THEN "add_column_generated_stored"
  ELSE IF column.fill = "virtual" THEN "add_column_generated_virtual"
  ELSE IF column.fill = "identity" THEN "add_column_identity"
  ELSE IF column.fill = "serial" THEN "add_column_serial"
  ELSE IF column.default # NoExpression /\ ~(column.notNull /\ column.default.construct = "null")
  THEN DefaultKind(ExpressionVolatility(column.default, <<>>))
  ELSE IF column.notNull THEN "add_column_not_null_no_default" ELSE "add_column"

(* _add_constraint_action: NOT VALID and USING INDEX choose the cheap form.   *)
AddConstraintKind(contype, notValid, usingIndex) ==
  CASE contype = "primary" /\ usingIndex -> "add_primary_key_using_index"
    [] contype = "primary" -> "add_primary_key"
    [] contype = "unique" /\ usingIndex -> "add_unique_using_index"
    [] contype = "unique" -> "add_unique"
    [] contype = "foreign" /\ notValid -> "add_foreign_key_not_valid"
    [] contype = "foreign" -> "add_foreign_key"
    [] contype = "check" /\ notValid -> "add_check_not_valid"
    [] contype = "check" -> "add_check"
    [] contype = "notnull" /\ notValid -> "add_not_null_constraint_not_valid"
    [] contype = "notnull" -> "add_not_null_constraint"
    [] contype = "exclusion" -> "add_exclusion"
    [] OTHER -> "add_constraint_other"
===============================================================================
