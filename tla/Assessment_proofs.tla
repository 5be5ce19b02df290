--------------------------- MODULE Assessment_proofs ---------------------------
(***************************************************************************)
(* Proofs of the properties of Assessment.  A row never changes once it is  *)
(* judged, and neither does the snapshot it was judged from, so the         *)
(* invariant says of every row what judged it, and the properties follow    *)
(* from what the narrowing, the type assessment and the walks over a        *)
(* default's tree return for any arguments.                                 *)
(***************************************************************************)
EXTENDS Assessment, Numbers, TLAPS

-------------------------------------------------------------------------------
(* The invariant.                                                            *)

\* A subcommand's row is what the snapshot, as it was captured, says of it.
ActionRow(row) ==
  /\ row.action \in Subcommands
  /\ row.result = Assess(row.action, captured # Missing, captured, hidden)
  /\ row.reversibility = ActionReversibility(Kind(row.action), row.result.relabel)
  /\ row.fresh =>
       (row.touches <=> row.result # Fails /\ Touches(captured, row.action))

\* The row of another statement of a DO block is its kind's entry.
InnerRow(row) ==
  /\ row.result = Elsewhere
  /\ \E kind \in InnerKinds : row.reversibility = StatementReversibility(kind)

\* The snapshot is of a table the file could find, less at most one group.
Snapped ==
  /\ version \in Versions /\ phase \in {"parsed", "open", "closed"}
  /\ captured \in Tables \cup {Missing} /\ hidden \in Hideable
  /\ phase = "parsed" => table \in Tables

Judgements ==
  /\ phase = "parsed" => statement = <<>>
  /\ statement \in Seq(Range(statement))
  /\ \A row \in Range(statement) : ActionRow(row) \/ InnerRow(row)

Rated == {"reversible", "unknown", "irreversible"}

Counted ==
  /\ rows \in 0..MaxRows /\ Len(statement) <= rows
  /\ reported \in Rated

Judges == Snapped /\ Judgements /\ Counted

\* What rows judged on the table as captured have lost, one of them admits.
Admitted ==
  (\A row \in Range(statement) : row.fresh \/ row.result = Elsewhere) /\ lost # {}
    => \E row \in Range(statement) : row.reversibility # "reversible"

\* A closed statement is reversible only when every row of it is.
Summed ==
  phase = "closed" /\ reported = "reversible" =>
    \A row \in Range(statement) : row.reversibility = "reversible"

-------------------------------------------------------------------------------
(* Sequences and kinds.                                                      *)

LEMMA RowAppended ==
    ASSUME NEW s, s \in Seq(Range(s)), NEW x
    PROVE  /\ Append(s, x) \in Seq(Range(Append(s, x)))
           /\ Range(Append(s, x)) = Range(s) \cup {x}
           /\ Len(Append(s, x)) = Len(s) + 1
<1> DEFINE n == Len(s)
           t == Append(s, x)
<1>1. n \in Nat /\ DOMAIN s = 1..n  OBVIOUS
<1>2. s \in Seq(Range(s) \cup {x})  OBVIOUS
<1>3. t \in Seq(Range(s) \cup {x}) /\ Len(t) = n + 1 /\ DOMAIN t = 1..(n + 1)
    BY <1>2
<1>4. t[n + 1] = x /\ \A i \in 1..n : t[i] = s[i]  BY <1>1, <1>2
<1>5. Range(t) = Range(s) \cup {x}
    <2>1. Range(t) \subseteq Range(s) \cup {x}
        <3> SUFFICES ASSUME NEW i \in 1..(n + 1) PROVE t[i] \in Range(s) \cup {x}
            BY <1>3 DEF Range
        <3>1. CASE i = n + 1  BY <3>1, <1>4
        <3>2. CASE i \in 1..n  BY <3>2, <1>1, <1>4 DEF Range
        <3> QED BY <3>1, <3>2, <1>1
    <2>2. Range(s) \subseteq Range(t)
        <3> SUFFICES ASSUME NEW i \in 1..n PROVE s[i] \in Range(t)
            BY <1>1 DEF Range
        <3>1. i \in 1..(n + 1) /\ t[i] = s[i]  BY <1>1, <1>4
        <3> QED BY <3>1, <1>3 DEF Range
    <2>3. x \in Range(t)
        <3>1. n + 1 \in 1..(n + 1)  BY <1>1
        <3> QED BY <3>1, <1>3, <1>4 DEF Range
    <2> QED BY <2>1, <2>2, <2>3
<1> QED BY <1>3, <1>5

\* A kind that a subcommand's node names is that node's.
LEMMA NodeKinds ==
    ASSUME NEW a \in Subcommands
    PROVE  /\ \A kind \in {"alter_column_type", "set_not_null", "validate_constraint",
                           "drop_constraint", "set_expression", "drop_column",
                           "drop_identity"} :
                Kind(a) = kind <=> a.node = kind
           /\ Kind(a) = "add_column_default_unknown_volatility" =>
                /\ a.node = "add_column"
                /\ a.default \in Expressions \ {NoExpression}
                /\ ExpressionVolatility(a.default, <<>>) = "unknown"
           /\ Kind(a) = "add_column_default_nonvolatile" =>
                /\ a.node = "add_column"
                /\ a.default \in Expressions
                /\ ExpressionVolatility(a.default, <<>>) \notin {"volatile", "unknown"}
<1>1. CASE a.node = "add_column"
    <2>1. Kind(a) = AddColumnKind(a)  BY <1>1 DEF Kind
    <2>2. a.default \in Expressions  BY <1>1, SubcommandsAssumption
    <2>3. AddColumnKind(a) \in
            {"add_column_generated_stored", "add_column_generated_virtual",
             "add_column_identity", "add_column_serial", "add_column_default_volatile",
             "add_column_default_unknown_volatility", "add_column_default_nonvolatile",
             "add_column_not_null_no_default", "add_column"}
        BY DEF AddColumnKind, DefaultKind
    <2>4. AddColumnKind(a) = "add_column_default_unknown_volatility" =>
            /\ a.default # NoExpression
            /\ ExpressionVolatility(a.default, <<>>) = "unknown"
        BY DEF AddColumnKind, DefaultKind
    <2>5. AddColumnKind(a) = "add_column_default_nonvolatile" =>
            ExpressionVolatility(a.default, <<>>) \notin {"volatile", "unknown"}
        BY DEF AddColumnKind, DefaultKind
    <2> QED BY <1>1, <2>1, <2>2, <2>3, <2>4, <2>5
<1>2. CASE a.node = "add_constraint"
    <2>1. Kind(a) = AddConstraintKind(a.contype, a.notValid, a.usingIndex)
        BY <1>2 DEF Kind
    <2>2. AddConstraintKind(a.contype, a.notValid, a.usingIndex) \in
            {"add_primary_key_using_index", "add_primary_key", "add_unique_using_index",
             "add_unique", "add_foreign_key_not_valid", "add_foreign_key",
             "add_check_not_valid", "add_check", "add_not_null_constraint_not_valid",
             "add_not_null_constraint", "add_exclusion", "add_constraint_other"}
        BY DEF AddConstraintKind
    <2> QED BY <1>2, <2>1, <2>2
<1>3. CASE a.node \notin {"add_column", "add_constraint"}
    <2>1. Kind(a) = a.node  BY <1>3 DEF Kind
    <2> QED BY <2>1, SubcommandsAssumption
<1> QED BY <1>1, <1>2, <1>3

-------------------------------------------------------------------------------
(* The results of the narrowing.                                             *)

\* A result as narrow.py gives one; a relabel is said of a type change alone.
Given == Outcomes \ {"elsewhere"}
Result(r, kind) ==
  /\ r.outcome \in Given
  /\ \A rebuild \in r.rebuilt : rebuild[2] \in RebuildFamilies
  /\ r.relabel \in BOOLEAN
  /\ r.relabel => kind = "alter_column_type"

LEMMA PlainResults ==
    ASSUME NEW kind
    PROVE  /\ \A o \in Given : Result(Decided(o), kind)
           /\ \A o \in Given : \A b : Result([Decided(o) EXCEPT !.observed = b], kind)
           /\ \A o \in Given : \A b : Result([Decided(o) EXCEPT !.conditional = b], kind)
           /\ \A o \in Given : \A con, mode :
                Result(WithReferenced(Decided(o), con, mode), kind)
           /\ Result(Unresolved, kind) /\ Result(Fails, kind)
BY DEF Result, Decided, WithReferenced, Unresolved, Fails, Given, Outcomes

LEMMA RelabelResult ==
    ASSUME NEW snap PROVE Result(NoRewrite(snap), "alter_column_type")
<1>1. \A index : RebuildFamily(index) \in RebuildFamilies
    BY DEF RebuildFamily, RebuildFamilies
<1>2. CASE Indexes(snap) = Missing  BY <1>2, PlainResults DEF NoRewrite
<1>3. CASE Indexes(snap) # Missing /\ ForcedRebuilds(Indexes(snap)) = {}
    BY <1>3 DEF NoRewrite, Result, Decided, Given, Outcomes
<1>4. CASE Indexes(snap) # Missing /\ ForcedRebuilds(Indexes(snap)) # {}
    <2> DEFINE forced == {<<i.name, RebuildFamily(i)>> : i \in ForcedRebuilds(Indexes(snap))}
    <2>1. \A rebuild \in forced : rebuild[2] \in RebuildFamilies  BY <1>1
    <2>2. NoRewrite(snap) = [Decided("proportional") EXCEPT !.relabel = TRUE, !.rebuilt = forced]
        BY <1>4 DEF NoRewrite
    <2> HIDE DEF forced
    <2>3. NoRewrite(snap).outcome = "proportional" /\ NoRewrite(snap).relabel = TRUE
          /\ NoRewrite(snap).rebuilt = forced
        BY <2>2 DEF Decided
    <2> QED BY <2>1, <2>3 DEF Result, Given, Outcomes
<1> QED BY <1>2, <1>3, <1>4

LEMMA NarrowResult ==
    ASSUME NEW kind, NEW action, NEW snap, NEW v
    PROVE  Result(NarrowAction(kind, action, snap, v), kind)
<1> USE PlainResults
<1>0. {"constant", "proportional", "keep_model"} \subseteq Given  BY DEF Given, Outcomes
<1>1. CASE kind = "add_column_default_nonvolatile"
    BY <1>0, <1>1 DEF NarrowAction, AddColumnDomain
<1>2. CASE kind = "add_column_default_unknown_volatility"
    BY <1>0, <1>2 DEF NarrowAction, AddColumnUnknown, AddColumnDomain
<1>3. CASE kind = "alter_column_type"
    BY <1>0, <1>3, RelabelResult DEF NarrowAction, AlterColumnType
<1>4. CASE kind \in {"set_not_null", "add_not_null_constraint"}
    BY <1>0, <1>4 DEF NarrowAction, SetNotNull
<1>5. CASE kind = "validate_constraint"
    BY <1>0, <1>5 DEF NarrowAction, ValidateConstraint
<1>6. CASE kind = "drop_constraint"
    BY <1>0, <1>6 DEF NarrowAction, DropConstraint
<1>7. CASE kind = "add_primary_key_using_index"
    BY <1>0, <1>7 DEF NarrowAction, AddPrimaryKeyUsingIndex
<1>8. CASE kind = "set_expression"
    BY <1>0, <1>8 DEF NarrowAction, SetExpression
<1>9. CASE kind \notin {"add_column_default_nonvolatile", "add_column_default_unknown_volatility",
                        "alter_column_type", "set_not_null", "add_not_null_constraint",
                        "validate_constraint", "drop_constraint",
                        "add_primary_key_using_index", "set_expression"}
    BY <1>9 DEF NarrowAction
<1> QED BY <1>1, <1>2, <1>3, <1>4, <1>5, <1>6, <1>7, <1>8, <1>9

LEMMA AssessResult ==
    ASSUME NEW a \in Subcommands, NEW online, NEW t, NEW without
    PROVE  /\ Result(Assess(a, online, t, without), Kind(a))
           /\ ~online => Assess(a, online, t, without).relabel = FALSE
           /\ Assess(a, online, t, without) # Elsewhere
<1>1. Model(Kind(a)) \in Given  BY DEF Model, Given, Outcomes
<1>2. Result(Assess(a, online, t, without), Kind(a))
    BY <1>1, PlainResults, NarrowResult DEF Assess
<1>3. ASSUME ~online PROVE Assess(a, online, t, without).relabel = FALSE
    BY <1>3 DEF Assess, Decided, Unresolved, Fails
<1>4. Elsewhere.outcome \notin Given  BY DEF Elsewhere, Decided, Given
<1>5. Assess(a, online, t, without) # Elsewhere  BY <1>2, <1>4 DEF Result
<1> QED BY <1>2, <1>3, <1>5

-------------------------------------------------------------------------------
(* The invariant holds.                                                      *)

LEMMA RangeOfNone == Range(<<>>) = {}
BY DEF Range

\* What the steps do to the snapshot and to the rows.
Keeps == UNCHANGED <<version, captured, hidden>>
Empties == statement' = <<>> /\ lost' = {}
Adds(row, losses) ==
  /\ phase = "open" /\ Bounded
  /\ statement' = Append(statement, row) /\ lost' = lost \cup losses
  /\ rows' = rows + 1
  /\ UNCHANGED <<version, captured, hidden, phase, reported>>

ActionJudged(a) ==
  LET result == Assess(a, captured # Missing, captured, hidden) IN
  [action |-> a, result |-> result,
   reversibility |-> ActionReversibility(Kind(a), result.relabel),
   fresh |-> table = captured, touches |-> result # Fails /\ Touches(table, a)]
ActionLosses(a) ==
  IF Assess(a, captured # Missing, captured, hidden) # Fails THEN Loses(table, a) ELSE {}

InnerJudged(kind) ==
  [action |-> [node |-> kind], result |-> Elsewhere,
   reversibility |-> StatementReversibility(kind), fresh |-> FALSE, touches |-> FALSE]

LEMMA StepsAdd ==
    /\ \A a \in Subcommands : AssessAction(a) => Adds(ActionJudged(a), ActionLosses(a))
    /\ \A kind \in InnerKinds : AssessInner(kind) => Adds(InnerJudged(kind), KindLoses(kind))
BY DEF AssessAction, AssessInner, Judged, Adds, ActionJudged, ActionLosses, InnerJudged

LEMMA ActionJudgedRow ==
    ASSUME NEW a \in Subcommands
    PROVE  ActionRow(ActionJudged(a))
<1> DEFINE row == ActionJudged(a)
<1>1. /\ row.action = a
      /\ row.result = Assess(a, captured # Missing, captured, hidden)
      /\ row.reversibility = ActionReversibility(Kind(a), row.result.relabel)
    BY DEF ActionJudged
<1>2. row.fresh <=> table = captured  BY DEF ActionJudged
<1>3. row.touches <=> row.result # Fails /\ Touches(table, a)  BY DEF ActionJudged
<1> HIDE DEF row
<1>4. row.fresh => (row.touches <=> row.result # Fails /\ Touches(captured, a))
    <2> SUFFICES ASSUME table = captured
                 PROVE  row.touches <=> row.result # Fails /\ Touches(captured, a)
        BY <1>2
    <2> QED BY <1>3
<1>5. ActionRow(row)  BY <1>1, <1>4 DEF ActionRow
<1> QED BY <1>5 DEF row

LEMMA InnerJudgedRow ==
    ASSUME NEW kind \in InnerKinds
    PROVE  /\ InnerRow(InnerJudged(kind))
           /\ InnerJudged(kind).result = Elsewhere
           /\ InnerJudged(kind).reversibility = StatementReversibility(kind)
BY DEF InnerRow, InnerJudged

LEMMA RatedKinds ==
    /\ \A kind : StatementReversibility(kind) \in Rated
    /\ \A kind, relabel : ActionReversibility(kind, relabel) \in Rated
BY DEF StatementReversibility, ActionReversibility, Rated

LEMMA RatedRows ==
    ASSUME NEW row, ActionRow(row) \/ InnerRow(row)
    PROVE  row.reversibility \in Rated
BY RatedKinds DEF ActionRow, InnerRow

\* The worst of some ratings is one of them, and none of them is worse.
LEMMA WorstOfRated ==
    ASSUME NEW parts \in SUBSET Rated, parts # {}
    PROVE  /\ CombineReversibility(parts) \in parts
           /\ CombineReversibility(parts) = "reversible" => parts = {"reversible"}
<1>1. \A r \in Rated : ReversibilityRank(r) \in 0..2  BY DEF Rated, ReversibilityRank
<1> DEFINE ranks == {ReversibilityRank(r) : r \in parts}
<1>2. ranks \in SUBSET (0..2) /\ ranks # {}  BY <1>1
<1>3. PICK top \in ranks : \A rank \in ranks : rank <= top
    <2>1. 2 \in Nat  OBVIOUS
    <2> QED BY <1>2, <2>1, GreatestNumber
<1>4. \E r \in parts : \A q \in parts : ReversibilityRank(q) <= ReversibilityRank(r)
    <2>1. PICK r \in parts : ReversibilityRank(r) = top  OBVIOUS
    <2>2. \A q \in parts : ReversibilityRank(q) \in ranks  OBVIOUS
    <2> QED BY <1>3, <2>1, <2>2
<1>5. /\ CombineReversibility(parts) \in parts
      /\ \A q \in parts : ReversibilityRank(q) <= ReversibilityRank(CombineReversibility(parts))
    BY <1>4 DEF CombineReversibility
<1>6. ASSUME CombineReversibility(parts) = "reversible", NEW q \in parts
      PROVE  q = "reversible"
    <2>1. ReversibilityRank(q) <= ReversibilityRank("reversible")  BY <1>5, <1>6
    <2> QED BY <2>1 DEF ReversibilityRank, Rated
<1> QED BY <1>5, <1>6

LEMMA SnappedHolds == ASSUME Snapped, [Next]_vars PROVE Snapped'
<1> USE DEF Snapped
<1>1. CASE Capture  BY <1>1 DEF Capture, Starts
<1>2. CASE Offline  BY <1>2 DEF Offline, Starts
<1>3. ASSUME NEW row, NEW losses, Adds(row, losses) PROVE Snapped'
    BY <1>3 DEF Adds
<1>4. CASE Close  BY <1>4 DEF Close
<1>5. CASE NextStatement  BY <1>5 DEF NextStatement
<1>6. CASE UNCHANGED vars  BY <1>6 DEF vars
<1> QED BY <1>1, <1>2, <1>3, <1>4, <1>5, <1>6, StepsAdd DEF Next

\* A row stays what it was judged to be while the snapshot stays.
LEMMA RowsStand ==
    ASSUME Keeps, NEW row
    PROVE  /\ ActionRow(row) => ActionRow(row)'
           /\ InnerRow(row) => InnerRow(row)'
BY DEF Keeps, ActionRow, InnerRow, Assess

LEMMA JudgementsHold == ASSUME Snapped, Judgements, [Next]_vars PROVE Judgements'
<1>1. CASE statement' = <<>>
    BY <1>1, RangeOfNone DEF Judgements
<1>2. CASE Keeps /\ statement' = statement /\ (phase' = "parsed" => phase = "parsed")
    BY <1>2, RowsStand DEF Judgements
<1>3. ASSUME NEW row, NEW losses, Adds(row, losses), ActionRow(row) \/ InnerRow(row)
      PROVE  Judgements'
    <2>1. Keeps /\ phase' # "parsed" /\ statement' = Append(statement, row)
        BY <1>3 DEF Adds, Keeps
    <2>2. /\ statement' \in Seq(Range(statement'))
          /\ Range(statement') = Range(statement) \cup {row}
        BY <2>1, RowAppended DEF Judgements
    <2>3. \A r \in Range(statement) \cup {row} : ActionRow(r)' \/ InnerRow(r)'
        BY <1>3, <2>1, RowsStand DEF Judgements
    <2> QED BY <2>1, <2>2, <2>3 DEF Judgements
<1>4. CASE Capture \/ Offline
    <2>1. statement = <<>> /\ statement' = statement
        BY <1>4 DEF Capture, Offline, Starts, Judgements
    <2> QED BY <1>1, <2>1
<1>5. CASE Close  BY <1>2, <1>5 DEF Close, Keeps
<1>6. CASE NextStatement  BY <1>1, <1>6 DEF NextStatement
<1>7. CASE UNCHANGED vars  BY <1>2, <1>7 DEF vars, Keeps
<1>8. ASSUME NEW a \in Subcommands, AssessAction(a) PROVE Judgements'
    BY <1>3, <1>8, StepsAdd, ActionJudgedRow
<1>9. ASSUME NEW kind \in InnerKinds, AssessInner(kind) PROVE Judgements'
    BY <1>3, <1>9, StepsAdd, InnerJudgedRow
<1> QED BY <1>4, <1>5, <1>6, <1>7, <1>8, <1>9 DEF Next

LEMMA CountedHolds == ASSUME Judgements, Counted, [Next]_vars PROVE Counted'
<1> USE MaxRowsAssumption
<1>1. ASSUME NEW row, NEW losses, Adds(row, losses) PROVE Counted'
    <2>1. Len(statement') = Len(statement) + 1
        BY <1>1, RowAppended DEF Adds, Judgements
    <2>2. Len(statement) \in Nat  BY DEF Judgements
    <2>3. rows < MaxRows  BY <1>1 DEF Adds, Bounded, Counted
    <2>4. rows' = rows + 1 /\ reported' = reported  BY <1>1 DEF Adds
    <2> QED BY <2>1, <2>2, <2>3, <2>4 DEF Counted
<1>2. CASE Close
    <2>1. reported' \in Rated
        <3>1. CASE statement = <<>>  BY <1>2, <3>1, RatedKinds DEF Close
        <3>2. CASE statement # <<>>
            <4> DEFINE parts == {row.reversibility : row \in Range(statement)}
            <4>1. parts \in SUBSET Rated  BY RatedRows DEF Judgements
            <4>2. parts # {}
                <5>1. Len(statement) \in Nat \ {0}  BY <3>2 DEF Judgements
                <5>2. 1 \in DOMAIN statement  BY <5>1 DEF Judgements
                <5> QED BY <5>2 DEF Range
            <4>3. CombineReversibility(parts) \in Rated  BY <4>1, <4>2, WorstOfRated
            <4> QED BY <1>2, <3>2, <4>3 DEF Close
        <3> QED BY <3>1, <3>2
    <2> QED BY <1>2, <2>1 DEF Close, Counted
<1>3. CASE Capture \/ Offline  BY <1>3 DEF Capture, Offline, Starts, Counted
<1>4. CASE NextStatement
    <2>1. Len(statement') = 0  BY <1>4 DEF NextStatement
    <2> QED BY <1>4, <2>1 DEF NextStatement, Counted
<1>5. CASE UNCHANGED vars  BY <1>5 DEF vars, Counted
<1> QED BY <1>1, <1>2, <1>3, <1>4, <1>5, StepsAdd DEF Next

LEMMA InitJudges == Init => Judges
<1> SUFFICES ASSUME Init PROVE Judges  OBVIOUS
<1>1. Snapped  BY DEF Init, Snapped, Hideable
<1>2. Judgements  BY RangeOfNone DEF Init, Judgements
<1>3. Counted
    <2>1. Len(<<>>) = 0  OBVIOUS
    <2> QED BY <2>1, MaxRowsAssumption DEF Init, Counted, Rated
<1> QED BY <1>1, <1>2, <1>3 DEF Judges

LEMMA AlwaysJudges == Spec => []Judges
<1>1. Judges /\ [Next]_vars => Judges'
    BY SnappedHolds, JudgementsHold, CountedHolds DEF Judges
<1> QED BY InitJudges, <1>1, PTL DEF Spec

(***************************************************************************)
(* Every row is one of the results narrow.py can give, a relabel is said of *)
(* a type change only, and a file stays in its bound.                       *)
(***************************************************************************)
THEOREM AssessmentTyped == Spec => []TypeOK
<1>1. Judges => TypeOK
    <2> SUFFICES ASSUME Judges PROVE TypeOK  OBVIOUS
    <2>1. hidden \in SUBSET FactGroups  BY DEF Judges, Snapped, Hideable
    <2>2. ASSUME NEW row \in Range(statement)
          PROVE  /\ row.result.outcome \in Outcomes
                 /\ \A rebuild \in row.result.rebuilt : rebuild[2] \in RebuildFamilies
                 /\ row.result.relabel => row.action.node = "alter_column_type"
                 /\ row.reversibility \in Rated
        <3>1. CASE ActionRow(row)
            <4>1. Result(row.result, Kind(row.action)) /\ row.action \in Subcommands
                BY <3>1, AssessResult DEF ActionRow
            <4>2. row.result.relabel => row.action.node = "alter_column_type"
                BY <4>1, NodeKinds DEF Result
            <4> QED BY <3>1, <4>1, <4>2, RatedRows DEF Result, Given
        <3>2. CASE InnerRow(row)
            <4>1. row.result = Elsewhere  BY <3>2 DEF InnerRow
            <4>2. /\ Elsewhere.outcome \in Outcomes /\ Elsewhere.rebuilt = {}
                  /\ Elsewhere.relabel = FALSE
                BY DEF Elsewhere, Decided, Outcomes
            <4> QED BY <3>2, <4>1, <4>2, RatedRows
        <3> QED BY <3>1, <3>2 DEF Judges, Judgements
    <2> QED BY <2>1, <2>2 DEF TypeOK, Judges, Snapped, Counted, Rated
<1> QED BY <1>1, AlwaysJudges, PTL

-------------------------------------------------------------------------------
(* A fact that was not read.                                                 *)

Readable(without, group) == without \cap {"relation", "exists", group} = {}

LEMMA FactsRead ==
    ASSUME NEW t \in Tables, NEW a, NEW without \in Hideable
    PROVE  LET snap == Facts(t, a, without) IN
           /\ snap.types <=> "types" \notin without
           /\ snap.typeChange <=> "typeChange" \notin without
           /\ snap.current = IF "cast" \in without THEN Missing ELSE t.type
           /\ snap.relation = Missing <=> "relation" \in without
           /\ Columns(snap) = IF Readable(without, "columns") THEN ColumnFacts(t) ELSE Missing
           /\ Constraints(snap) =
                IF Readable(without, "constraints") THEN t.constraints ELSE Missing
           /\ Indexes(snap) = IF Readable(without, "indexes") THEN t.indexes ELSE Missing
<1> DEFINE snap == Facts(t, a, without)
           relation == RelationFacts(t, without)
<1>1. /\ snap.types <=> "types" \notin without
      /\ snap.typeChange <=> "typeChange" \notin without
      /\ snap.current = IF "cast" \in without THEN Missing ELSE t.type
      /\ snap.relation = IF "relation" \in without THEN Missing ELSE relation
    BY DEF Facts
<1>2. relation # Missing /\ Missing # TRUE  BY MissingAssumption
<1>3. /\ relation.exists = IF without \cap {"exists"} = {} THEN TRUE ELSE Missing
      /\ relation.columns = IF without \cap {"exists", "columns"} = {}
                            THEN ColumnFacts(t) ELSE Missing
      /\ relation.constraints = IF without \cap {"exists", "constraints"} = {}
                                THEN t.constraints ELSE Missing
      /\ relation.indexes = IF without \cap {"exists", "indexes"} = {}
                            THEN t.indexes ELSE Missing
    BY DEF RelationFacts
<1> HIDE DEF snap, relation
<1>4. snap.relation = Missing <=> "relation" \in without  BY <1>1, <1>2
<1>5. CASE "relation" \in without
    <2>1. \A group : ~Readable(without, group)  BY <1>5 DEF Readable
    <2> QED BY <1>1, <1>4, <1>5, <2>1 DEF snap, Columns, Constraints, Indexes
<1>6. CASE "relation" \notin without
    <2>1. snap.relation = relation /\ relation # Missing  BY <1>1, <1>2, <1>6
    <2>2. \A group : Readable(without, group) <=> without \cap {"exists", group} = {}
        BY <1>6 DEF Readable
    <2>3. Columns(snap) = IF Readable(without, "columns") THEN ColumnFacts(t) ELSE Missing
        BY <1>3, <2>1, <2>2 DEF Columns
    <2>4. relation.exists = TRUE <=> without \cap {"exists"} = {}  BY <1>2, <1>3
    <2>5. ASSUME without \cap {"exists"} # {}, NEW group PROVE ~Readable(without, group)
        BY <2>5 DEF Readable
    <2>6. Constraints(snap) =
            IF Readable(without, "constraints") THEN t.constraints ELSE Missing
        BY <1>3, <2>1, <2>2, <2>4, <2>5 DEF Constraints
    <2>7. Indexes(snap) = IF Readable(without, "indexes") THEN t.indexes ELSE Missing
        BY <1>3, <2>1, <2>2, <2>4, <2>5 DEF Indexes
    <2> QED BY <1>1, <1>4, <2>3, <2>6, <2>7 DEF snap
<1> QED BY <1>5, <1>6

\* What a table has is no missing fact.
LEMMA TablesHaveFacts ==
    ASSUME NEW t \in Tables
    PROVE  /\ ColumnFacts(t) # Missing /\ t.constraints # Missing /\ t.indexes # Missing
           /\ t.type # Missing
BY MissingAssumption

\* All the facts together are read.
LEMMA AllReadable ==
    /\ {} \in Hideable
    /\ \A group : Readable({}, group)
BY DEF Hideable, Readable

LEMMA Weights ==
    /\ \A outcome : Weight(outcome) \in 0..3
    /\ Weight(Unresolved.outcome) = 3
    /\ Weight(Decided("constant").outcome) = 0
    /\ Weight(Decided("proportional").outcome) = 2
BY DEF Weight, Unresolved, Decided

\* The result with a group of facts missing is as heavy as the one with all.
Heavier(r, full) == Weight(r.outcome) >= Weight(full.outcome)

LEMMA HeavierResults ==
    ASSUME NEW full
    PROVE  /\ Heavier(full, full)
           /\ Heavier(Unresolved, full)
           /\ \A r : full = Decided("constant") => Heavier(r, full)
           /\ \A r, q : Heavier(r, q) /\ Heavier(q, full) => Heavier(r, full)
<1>1. \A outcome : Weight(outcome) \in Int /\ Weight(outcome) >= 0 /\ Weight(outcome) <= 3
    BY Weights
<1>2. Heavier(full, full)  BY <1>1 DEF Heavier
<1>3. Heavier(Unresolved, full)  BY <1>1, Weights DEF Heavier
<1>4. \A r : full = Decided("constant") => Heavier(r, full)
    BY <1>1, Weights DEF Heavier
<1>5. \A r, q : Heavier(r, q) /\ Heavier(q, full) => Heavier(r, full)
    BY <1>1 DEF Heavier
<1> QED BY <1>2, <1>3, <1>4, <1>5

\* What the columns alone decide: with the constraints unread or not.
LEMMA SetNotNullHeavier ==
    ASSUME NEW snap, NEW full,
           Columns(snap) \in {Columns(full), Missing},
           Constraints(snap) \in {Constraints(full), Missing}
    PROVE  Heavier(SetNotNull(snap), SetNotNull(full))
<1> USE HeavierResults
<1>1. CASE Columns(full) # Missing /\ Columns(full).notNull
    BY <1>1 DEF SetNotNull
<1>2. CASE ~(Columns(full) # Missing /\ Columns(full).notNull)
    <2>1. ~(Columns(snap) # Missing /\ Columns(snap).notNull)  BY <1>2
    <2>2. CASE Constraints(snap) = Missing  BY <2>1, <2>2 DEF SetNotNull
    <2>3. CASE Constraints(snap) = Constraints(full) /\ Constraints(snap) # Missing
        <3>1. SetNotNull(snap) = SetNotNull(full)  BY <1>2, <2>1, <2>3 DEF SetNotNull
        <3> QED BY <3>1
    <2> QED BY <2>2, <2>3
<1> QED BY <1>1, <1>2

LEMMA NarrowHeavier ==
    ASSUME NEW t \in Tables, NEW a \in Subcommands, NEW without \in Hideable
    PROVE  Heavier(NarrowAction(Kind(a), a, Facts(t, a, without), version),
                   NarrowAction(Kind(a), a, Facts(t, a, {}), version))
<1> DEFINE snap == Facts(t, a, without)
           full == Facts(t, a, {})
<1>f. /\ snap.types => full.types
      /\ snap.typeChange => full.typeChange
      /\ snap.current \in {full.current, Missing}
      /\ full.relation # Missing
      /\ Columns(snap) \in {Columns(full), Missing}
      /\ Constraints(snap) \in {Constraints(full), Missing}
      /\ Indexes(snap) \in {Indexes(full), Missing}
      /\ Columns(full) # Missing /\ Constraints(full) # Missing /\ Indexes(full) # Missing
      /\ full.types /\ full.typeChange /\ full.current = t.type /\ t.type # Missing
    BY FactsRead, AllReadable, TablesHaveFacts
<1>g. \/ snap.functions = full.functions
      \/ DOMAIN snap.functions = {}
    BY DEF Facts
<1> HIDE DEF snap, full
<1> USE HeavierResults
<1>1. Heavier(AddColumnDomain(a, snap), AddColumnDomain(a, full))
    BY <1>f DEF AddColumnDomain
<1>2. ASSUME Kind(a) = "add_column_default_unknown_volatility"
      PROVE  Heavier(AddColumnUnknown(a, snap), AddColumnUnknown(a, full))
    <2>1. ExpressionVolatility(a.default, <<>>) = "unknown"  BY <1>2, NodeKinds
    <2>2. CASE DOMAIN snap.functions = {}
        <3>1. DecideDefault(a.default, snap.functions) = "unknown"
            BY <2>1, <2>2 DEF DecideDefault
        <3> QED BY <3>1 DEF AddColumnUnknown
    <2>3. CASE snap.functions = full.functions
        BY <1>1, <2>3 DEF AddColumnUnknown
    <2> QED BY <1>g, <2>2, <2>3
<1>3. Heavier(NoRewrite(snap), NoRewrite(full))
    <2>1. CASE Indexes(snap) = Missing  BY <2>1 DEF NoRewrite
    <2>2. CASE Indexes(snap) = Indexes(full)
        <3>1. NoRewrite(snap) = NoRewrite(full)  BY <2>2 DEF NoRewrite
        <3> QED BY <3>1
    <2> QED BY <1>f, <2>1, <2>2
<1>4. Heavier(AlterColumnType(a.type, a.using, snap, version),
              AlterColumnType(a.type, a.using, full, version))
    <2>1. CASE ~snap.typeChange  BY <2>1 DEF AlterColumnType
    <2>2. CASE snap.typeChange /\ snap.current = full.current
        <3> DEFINE verdict == AssessTypeChange(full.current # Missing, full.current, a.type,
                                               a.using, version)
        <3>1. CASE verdict = "no_rewrite"
            <4>1. /\ AlterColumnType(a.type, a.using, snap, version) = NoRewrite(snap)
                  /\ AlterColumnType(a.type, a.using, full, version) = NoRewrite(full)
                BY <1>f, <2>2, <3>1 DEF AlterColumnType
            <4> QED BY <1>3, <4>1
        <3>2. CASE verdict # "no_rewrite"
            <4>1. AlterColumnType(a.type, a.using, snap, version)
                    = AlterColumnType(a.type, a.using, full, version)
                BY <1>f, <2>2, <3>2 DEF AlterColumnType
            <4> QED BY <4>1
        <3> QED BY <3>1, <3>2
    <2>3. CASE snap.typeChange /\ snap.current = Missing
        <3>1. CASE a.using
            <4>1. /\ AssessTypeChange(snap.current # Missing, snap.current, a.type,
                                      a.using, version) = "rewrite"
                  /\ AssessTypeChange(full.current # Missing, full.current, a.type,
                                      a.using, version) = "rewrite"
                BY <3>1 DEF AssessTypeChange
            <4>2. AlterColumnType(a.type, a.using, snap, version)
                    = AlterColumnType(a.type, a.using, full, version)
                BY <1>f, <2>3, <4>1 DEF AlterColumnType
            <4> QED BY <4>2
        <3>2. CASE ~a.using
            <4>1. AssessTypeChange(snap.current # Missing, snap.current, a.type,
                                   a.using, version) = "unknown"
                BY <2>3, <3>2 DEF AssessTypeChange
            <4>2. AlterColumnType(a.type, a.using, snap, version) = Unresolved
                BY <2>3, <4>1 DEF AlterColumnType
            <4> QED BY <4>2
        <3> QED BY <3>1, <3>2
    <2> QED BY <1>f, <2>1, <2>2, <2>3
<1>5. Heavier(SetNotNull(snap), SetNotNull(full))  BY <1>f, SetNotNullHeavier
<1>6. Heavier(ValidateConstraint(a.name, snap), ValidateConstraint(a.name, full))
    <2>1. CASE Constraints(snap) = Missing  BY <2>1 DEF ValidateConstraint
    <2>2. CASE Constraints(snap) = Constraints(full)
        <3>1. ValidateConstraint(a.name, snap) = ValidateConstraint(a.name, full)
            BY <2>2 DEF ValidateConstraint
        <3> QED BY <3>1
    <2> QED BY <1>f, <2>1, <2>2
<1>7. Heavier(DropConstraint(a.name, snap), DropConstraint(a.name, full))
    <2>1. CASE Constraints(snap) = Missing  BY <2>1 DEF DropConstraint
    <2>2. CASE Constraints(snap) = Constraints(full)
        <3>1. DropConstraint(a.name, snap) = DropConstraint(a.name, full)
            BY <2>2 DEF DropConstraint
        <3> QED BY <3>1
    <2> QED BY <1>f, <2>1, <2>2
<1>8. Heavier(AddPrimaryKeyUsingIndex(snap), AddPrimaryKeyUsingIndex(full))
    <2>1. CASE Columns(full).allNotNull
        BY <1>f, <2>1 DEF AddPrimaryKeyUsingIndex
    <2>2. CASE ~Columns(full).allNotNull
        <3>1. /\ AddPrimaryKeyUsingIndex(snap).outcome = "keep_model"
              /\ AddPrimaryKeyUsingIndex(full).outcome = "keep_model"
            BY <1>f, <2>2 DEF AddPrimaryKeyUsingIndex, Decided
        <3> QED BY <3>1, Weights DEF Heavier
    <2> QED BY <2>1, <2>2
<1>9. Heavier(SetExpression(snap), SetExpression(full))
    <2>1. CASE Columns(snap) = Missing  BY <2>1 DEF SetExpression
    <2>2. CASE Columns(snap) = Columns(full)
        <3>1. SetExpression(snap) = SetExpression(full)  BY <2>2 DEF SetExpression
        <3> QED BY <3>1
    <2> QED BY <1>f, <2>1, <2>2
<1>10. Heavier(NarrowAction(Kind(a), a, snap, version), NarrowAction(Kind(a), a, full, version))
    BY <1>1, <1>2, <1>4, <1>5, <1>6, <1>7, <1>8, <1>9 DEF NarrowAction
<1> QED BY <1>10 DEF snap, full

LEMMA AssessHeavier ==
    ASSUME NEW t \in Tables, NEW a \in Subcommands, NEW without \in Hideable
    PROVE  Heavier(Assess(a, TRUE, t, without), Assess(a, TRUE, t, {}))
<1>1. CASE version < AvailableFrom(Kind(a))
    BY <1>1, HeavierResults DEF Assess
<1>2. CASE ~(version < AvailableFrom(Kind(a))) /\ version < LiveFrom(Kind(a))
    BY <1>2, HeavierResults DEF Assess
<1>3. CASE ~(version < AvailableFrom(Kind(a))) /\ ~(version < LiveFrom(Kind(a)))
    BY <1>3, NarrowHeavier DEF Assess
<1> QED BY <1>1, <1>2, <1>3

(***************************************************************************)
(* A fact the snapshot could not read never makes a subcommand look cheaper *)
(* than all the facts together would.                                       *)
(***************************************************************************)
THEOREM MissingOnlyAddsWeight == Spec => []MissingFactNeverLightens
<1>1. Judges => MissingFactNeverLightens
    <2> SUFFICES ASSUME Judges, captured # Missing, NEW row \in Range(statement),
                        row.result # Elsewhere
                 PROVE  Weight(row.result.outcome)
                          >= Weight(Assess(row.action, TRUE, captured, {}).outcome)
        BY DEF MissingFactNeverLightens
    <2>1. captured \in Tables /\ hidden \in Hideable  BY DEF Judges, Snapped
    <2>2. ActionRow(row)  BY DEF Judges, Judgements, InnerRow
    <2>3. /\ row.action \in Subcommands
          /\ row.result = Assess(row.action, TRUE, captured, hidden)
        BY <2>2 DEF ActionRow
    <2>4. Heavier(row.result, Assess(row.action, TRUE, captured, {}))
        BY <2>1, <2>3, AssessHeavier
    <2> QED BY <2>4 DEF Heavier
<1> QED BY <1>1, AlwaysJudges, PTL

-------------------------------------------------------------------------------
(* What assess_type_change calls no rewrite is none.                         *)

\* The modifier grows: every value of the old one is a value of the new one.
LEMMA GrowthFits ==
    ASSUME NEW base \in GrowthRules, NEW cur \in Seq(Int), NEW new \in Seq(Int),
           GrowthAllows(base, cur, new)
    PROVE  new = <<>> \/ Values(base, cur) \subseteq Values(base, new)
<1> SUFFICES ASSUME new # <<>> PROVE Values(base, cur) \subseteq Values(base, new)  OBVIOUS
<1>1. new[1] \in Int /\ (cur # <<>> => cur[1] \in Int)  OBVIOUS
<1>2. Scale(cur) \in Int /\ Scale(new) \in Int  BY DEF Scale
<1>3. CASE base \in {"varchar", "varbit"}
    <2>1. cur # <<>> /\ new[1] >= cur[1]
        BY <1>3 DEF GrowthAllows, BareMeansSix
    <2>2. \A n \in Sizes : n <= cur[1] => n <= new[1]  BY <1>1, <2>1 DEF Sizes
    <2> QED BY <1>3, <2>1, <2>2 DEF Values
<1>4. CASE base = "numeric"
    <2>1. cur # <<>> /\ Scale(cur) = Scale(new) /\ new[1] >= cur[1]
        BY <1>4 DEF GrowthAllows
    <2>2. \A d \in Sizes \X Sizes :
            d[1] <= cur[1] - Scale(cur) /\ d[2] = Scale(cur)
              => d[1] <= new[1] - Scale(new) /\ d[2] = Scale(new)
        BY <1>1, <1>2, <2>1 DEF Sizes
    <2> DEFINE Fits(params, d) ==
                 params = <<>> \/ (/\ d[1] <= params[1] - Scale(params)
                                  /\ d[2] = Scale(params))
               pairs == Sizes \X Sizes
    <2>3. \A params : Values("numeric", params) = {d \in pairs : Fits(params, d)}
        BY SMT DEF Values, BareMeansSix, Fits, pairs
    <2>4. \A d \in pairs : Fits(cur, d) => Fits(new, d)  BY <2>1, <2>2
    <2> HIDE DEF Fits, pairs
    <2> QED BY <1>4, <2>3, <2>4
<1>5. CASE base \in BareMeansSix
    <2>1. \/ cur # <<>> /\ new[1] >= cur[1]
          \/ cur = <<>> /\ new[1] >= 6
        BY <1>5 DEF GrowthAllows, BareMeansSix
    <2>2. \A p \in Sizes : (cur = <<>> \/ p <= cur[1]) => p <= new[1]
        BY <1>1, <2>1 DEF Sizes
    <2>3. Values(base, cur) = {p \in Sizes : cur = <<>> \/ p <= cur[1]}
        BY <1>5 DEF Values, BareMeansSix
    <2>4. Values(base, new) = {p \in Sizes : new = <<>> \/ p <= new[1]}
        BY <1>5 DEF Values, BareMeansSix
    <2> QED BY <2>2, <2>3, <2>4
<1> QED BY <1>3, <1>4, <1>5 DEF GrowthRules, BareMeansSix

LEMMA NoRewriteIsNone ==
    ASSUME NEW cur \in TypesWritten, NEW new \in TypesWritten, NEW known, NEW using, NEW v,
           AssessTypeChange(known, cur, new, using, v) = "no_rewrite"
    PROVE  /\ ~using /\ ~Converts(cur, new) /\ EveryValueFits(cur, new)
           /\ ~Rewrites(cur, new, using)
           /\ known
<1>1. /\ ~using /\ known /\ ~Constrained(new) /\ new.domain.params = <<>>
      /\ IF cur.base = new.base THEN SameBase(cur, new) = "no_rewrite"
         ELSE CastMethod(cur.base, new.base) = "binary" /\ Written(new) = <<>>
    BY DEF AssessTypeChange
<1>2. ~Converts(cur, new)  BY <1>1 DEF Converts, CastMethod
<1>3. CASE Written(new) = <<>>
    <2>1. Modifier(new) = <<>>  BY <1>1, <1>3 DEF Modifier, Written
    <2> QED BY <1>1, <1>2, <2>1 DEF EveryValueFits, Rewrites
<1>4. CASE Written(new) # <<>>
    <2>1. /\ cur.base = new.base /\ ~cur.domain.is /\ ~new.domain.is
          /\ \/ cur.params = new.params
             \/ cur.name \in GrowthRules /\ GrowthAllows(cur.name, cur.params, new.params)
        BY <1>1, <1>4 DEF SameBase, Written
    <2>2. Modifier(cur) = cur.params /\ Modifier(new) = new.params
        BY <2>1 DEF Modifier
    <2>3. cur.params \in Seq(Int) /\ new.params \in Seq(Int) /\ cur.name = cur.base
        BY <2>1, TypesAssumption
    <2>4. EveryValueFits(cur, new)
        BY <2>1, <2>2, <2>3, GrowthFits DEF EveryValueFits
    <2> QED BY <1>1, <1>2, <2>4 DEF Rewrites
<1> QED BY <1>3, <1>4

\* A relabel is said of a type change that the facts of the table prove.
LEMMA RelabelProven ==
    ASSUME NEW a \in Subcommands, NEW online, NEW t \in Tables, NEW without \in Hideable,
           Assess(a, online, t, without).relabel
    PROVE  /\ a.node = "alter_column_type"
           /\ a.type \in TypesWritten /\ t.type \in TypesWritten
           /\ ~a.using /\ ~Converts(t.type, a.type) /\ EveryValueFits(t.type, a.type)
           /\ ~Rewrites(t.type, a.type, a.using)
<1> DEFINE snap == Facts(t, a, without)
           r == Assess(a, online, t, without)
           verdict == AssessTypeChange(snap.current # Missing, snap.current, a.type,
                                       a.using, version)
<1>1. Kind(a) = "alter_column_type" /\ a.node = "alter_column_type"
    BY AssessResult, NodeKinds DEF Result
<1>2. r = NarrowAction(Kind(a), a, snap, version)
    <2>1. /\ Fails.relabel = FALSE /\ Unresolved.relabel = FALSE
          /\ [Decided(Model(Kind(a))) EXCEPT !.observed = FALSE].relabel = FALSE
        BY DEF Fails, Unresolved, Decided
    <2> QED BY <2>1 DEF Assess
<1>3. r = AlterColumnType(a.type, a.using, snap, version)
    BY <1>1, <1>2 DEF NarrowAction
<1>4. verdict = "no_rewrite"
    <2>1. /\ Unresolved.relabel = FALSE /\ Decided("proportional").relabel = FALSE
          /\ [Decided("proportional") EXCEPT !.conditional = TRUE].relabel = FALSE
        BY DEF Unresolved, Decided
    <2> QED BY <1>3, <2>1 DEF AlterColumnType
<1>5. a.type \in TypesWritten /\ t.type \in TypesWritten  BY <1>1 DEF TypesWritten
<1>6. snap.current # Missing
    BY <1>4 DEF AssessTypeChange
<1>7. snap.current = t.type  BY <1>6, FactsRead
<1> HIDE DEF snap, r
<1> QED BY <1>1, <1>4, <1>5, <1>7, NoRewriteIsNone

-------------------------------------------------------------------------------
(* What cannot be undone.                                                    *)

\* A subcommand whose row is called reversible loses nothing of the table it
\* was judged on.
LEMMA ReversibleKeeps ==
    ASSUME NEW a \in Subcommands, NEW t \in Tables \cup {Missing}, NEW without \in Hideable,
           Assess(a, t # Missing, t, without) # Fails,
           Loses(t, a) # {}
    PROVE  ActionReversibility(Kind(a), Assess(a, t # Missing, t, without).relabel)
             # "reversible"
<1> DEFINE r == Assess(a, t # Missing, t, without)
<1>1. r.relabel \in BOOLEAN /\ (r.relabel => Kind(a) = "alter_column_type")
    BY AssessResult DEF Result
<1> HIDE DEF r
<1>2. CASE a.node \in {"drop_column", "drop_identity"}
    <2>1. Kind(a) \in IrreversibleActions /\ Kind(a) # "alter_column_type"
        BY <1>2, NodeKinds DEF IrreversibleActions
    <2> QED BY <1>1, <2>1 DEF ActionReversibility, r
<1>3. CASE a.node = "alter_column_type"
    <2>1. a.using \/ Converts(t.type, a.type) \/ ~EveryValueFits(t.type, a.type)
        BY <1>3 DEF Loses
    <2>2. r.relabel = FALSE
        <3>1. CASE t = Missing  BY <3>1, AssessResult DEF r
        <3>2. CASE t \in Tables  BY <1>1, <2>1, <3>2, RelabelProven DEF r
        <3> QED BY <3>1, <3>2
    <2>3. Kind(a) = "alter_column_type"  BY <1>3, NodeKinds
    <2> QED BY <2>2, <2>3 DEF ActionReversibility, IrreversibleActions, r
<1> QED BY <1>2, <1>3 DEF Loses

LEMMA ReversibleKindsKeep ==
    ASSUME NEW kind, KindLoses(kind) # {}
    PROVE  StatementReversibility(kind) # "reversible"
BY DEF KindLoses, StatementReversibility, IrreversibleKinds, UnknownKinds

LEMMA AdmittedHolds == ASSUME Judges, Admitted, [Next]_vars PROVE Admitted'
<1>1. ASSUME NEW row, NEW losses, Adds(row, losses),
             losses # {} /\ (row.fresh \/ row.result = Elsewhere)
               => row.reversibility # "reversible"
      PROVE  Admitted'
    <2>1. Range(statement') = Range(statement) \cup {row} /\ lost' = lost \cup losses
        BY <1>1, RowAppended DEF Adds, Judges, Judgements
    <2> QED BY <1>1, <2>1 DEF Admitted
<1>2. CASE lost' = {}  BY <1>2 DEF Admitted
<1>3. CASE statement' = statement /\ lost' = lost  BY <1>3 DEF Admitted
<1>4. ASSUME NEW a \in Subcommands, AssessAction(a) PROVE Admitted'
    <2> DEFINE row == ActionJudged(a)
    <2>1. Adds(row, ActionLosses(a))  BY <1>4, StepsAdd
    <2>2. captured \in Tables \cup {Missing} /\ hidden \in Hideable
        BY DEF Judges, Snapped
    <2>3. ASSUME ActionLosses(a) # {}, row.fresh PROVE row.reversibility # "reversible"
        <3>1. table = captured  BY <2>3 DEF ActionJudged
        <3>2. /\ Assess(a, captured # Missing, captured, hidden) # Fails
              /\ Loses(captured, a) # {}
            BY <2>3, <3>1 DEF ActionLosses
        <3>3. row.reversibility
                = ActionReversibility(Kind(a),
                    Assess(a, captured # Missing, captured, hidden).relabel)
            BY DEF ActionJudged
        <3> QED BY <2>2, <3>2, <3>3, ReversibleKeeps
    <2>4. row.result # Elsewhere
        <3>1. row.result = Assess(a, captured # Missing, captured, hidden)
            BY DEF ActionJudged
        <3> QED BY <3>1, AssessResult
    <2> HIDE DEF row
    <2> QED BY <1>1, <2>1, <2>3, <2>4
<1>5. ASSUME NEW kind \in InnerKinds, AssessInner(kind) PROVE Admitted'
    BY <1>1, <1>5, StepsAdd, InnerJudgedRow, ReversibleKindsKeep
<1>6. CASE Capture \/ Offline  BY <1>3, <1>6 DEF Capture, Offline, Starts
<1>7. CASE Close  BY <1>3, <1>7 DEF Close
<1>8. CASE NextStatement  BY <1>2, <1>8 DEF NextStatement
<1>9. CASE UNCHANGED vars  BY <1>3, <1>9 DEF vars
<1> QED BY <1>4, <1>5, <1>6, <1>7, <1>8, <1>9 DEF Next

LEMMA SummedHolds == ASSUME Judges, Summed, [Next]_vars PROVE Summed'
<1>1. CASE Close
    <2>1. statement' = statement  BY <1>1 DEF Close
    <2>2. CASE statement = <<>>  BY <2>1, <2>2, RangeOfNone DEF Summed
    <2>3. CASE statement # <<>>
        <3> DEFINE parts == {row.reversibility : row \in Range(statement)}
        <3>1. parts \in SUBSET Rated  BY RatedRows DEF Judges, Judgements
        <3>2. parts # {}
            <4>1. Len(statement) \in Nat \ {0}  BY <2>3 DEF Judges, Judgements
            <4>2. 1 \in DOMAIN statement  BY <4>1 DEF Judges, Judgements
            <4> QED BY <4>2 DEF Range
        <3>3. reported' = CombineReversibility(parts)  BY <1>1, <2>3 DEF Close
        <3>4. reported' = "reversible" => parts = {"reversible"}
            BY <3>1, <3>2, <3>3, WorstOfRated
        <3> QED BY <2>1, <3>4 DEF Summed
    <2> QED BY <2>2, <2>3
<1>2. CASE phase' # "closed"  BY <1>2 DEF Summed
<1>3. ASSUME NEW row, NEW losses, Adds(row, losses) PROVE Summed'
    BY <1>2, <1>3 DEF Adds
<1>4. CASE Capture \/ Offline  BY <1>2, <1>4 DEF Capture, Offline, Starts
<1>5. CASE NextStatement  BY <1>2, <1>5 DEF NextStatement
<1>6. CASE UNCHANGED vars  BY <1>6 DEF vars, Summed
<1> QED BY <1>1, <1>3, <1>4, <1>5, <1>6, StepsAdd DEF Next

LEMMA AlwaysAdmitted == Spec => [](Judges /\ Admitted /\ Summed)
<1>1. Init => Admitted /\ Summed  BY DEF Init, Admitted, Summed
<1>2. Judges /\ Admitted /\ Summed /\ [Next]_vars => Admitted' /\ Summed'
    BY AdmittedHolds, SummedHolds
<1> QED BY <1>1, <1>2, AlwaysJudges, PTL DEF Spec

(***************************************************************************)
(* What a statement reported reversible has done to the data can be undone, *)
(* for tables as captured: the rows that lose something are each called     *)
(* unknown or irreversible, and the worst row is what is reported.          *)
(***************************************************************************)
THEOREM UndoIsHonest == Spec => []UndoLosesNothing
<1>1. Judges /\ Admitted /\ Summed => UndoLosesNothing
    <2> SUFFICES ASSUME Judges, Admitted, Summed, phase = "closed", reported = "reversible",
                        \A i \in DOMAIN statement :
                          statement[i].fresh \/ statement[i].result = Elsewhere
                 PROVE  lost = {}
        BY DEF UndoLosesNothing
    <2>1. \A row \in Range(statement) : row.fresh \/ row.result = Elsewhere  BY DEF Range
    <2>2. \A row \in Range(statement) : row.reversibility = "reversible"  BY DEF Summed
    <2> QED BY <2>1, <2>2 DEF Admitted
<1> QED BY <1>1, AlwaysAdmitted, PTL

-------------------------------------------------------------------------------
(* The walks over a tree.                                                    *)

\* Of some trees, one has no part among them: one with the fewest nodes.
LEMMA SmallestTree ==
    ASSUME NEW S \in SUBSET Expressions, S # {}
    PROVE  \E e \in S : \A p \in Range(e.parts) : p \notin S
<1> DEFINE sizes == {Size(e) : e \in S}
<1>1. sizes \in SUBSET Nat /\ sizes # {}  BY TreesAssumption
<1>2. PICK n \in sizes : \A m \in sizes : n <= m
    <2> HIDE DEF sizes
    <2> QED BY <1>1, LeastNumber
<1>3. PICK e \in S : Size(e) = n  OBVIOUS
<1>4. ASSUME NEW p \in Range(e.parts), p \in S PROVE FALSE
    <2>1. Size(p) \in sizes  BY <1>4
    <2>2. Size(e) \in Nat /\ Size(p) \in Nat  BY <1>4, TreesAssumption
    <2>3. Size(p) < Size(e)  BY TreesAssumption
    <2> QED BY <1>2, <1>3, <2>1, <2>2, <2>3
<1> QED BY <1>4

\* A walk that makes of a tree what it makes of its parts has one outcome for
\* every tree: it is had for the trees of n nodes from those of fewer, two that
\* fit agree, and what all of them say of their own trees is the walk.
LEMMA WalkSolved ==
    ASSUME NEW V, V # {},
           NEW step \in [Expressions \X [Expressions -> V] -> V],
           \A e \in Expressions : \A g, h \in [Expressions -> V] :
             (\A p \in Range(e.parts) : g[p] = h[p]) => step[<<e, g>>] = step[<<e, h>>]
    PROVE  \E walk \in [Expressions -> V] :
             \A e \in Expressions : walk[e] = step[<<e, walk>>]
<1> DEFINE W == [Expressions -> V]
           Good(g, n) == \A e \in Expressions : Size(e) <= n => g[e] = step[<<e, g>>]
<1> USE TreesAssumption
<1>1. \A e \in Expressions : \A p \in Range(e.parts) :
        p \in Expressions /\ Size(p) \in Nat /\ Size(e) \in Nat /\ Size(p) < Size(e)
    OBVIOUS
<1>2. \A e \in Expressions : \A g, h \in W :
        (\A p \in Range(e.parts) : g[p] = h[p]) => step[<<e, g>>] = step[<<e, h>>]
    OBVIOUS
<1>3. \A e \in Expressions : \A g \in W : step[<<e, g>>] \in V  OBVIOUS
<1>4. \A n \in Nat : \E g \in W : Good(g, n)
    <2> DEFINE bad == {n \in Nat : ~\E g \in W : Good(g, n)}
    <2> SUFFICES ASSUME bad # {} PROVE FALSE  OBVIOUS
    <2>1. PICK n \in bad : \A m \in bad : n <= m
        <3>1. bad \in SUBSET Nat  OBVIOUS
        <3> HIDE DEF bad
        <3> QED BY <3>1, LeastNumber
    <2>2. PICK g \in W : n = 0 \/ Good(g, n - 1)
        <3>1. CASE n = 0
            <4>1. PICK v \in V : TRUE  OBVIOUS
            <4>2. [e \in Expressions |-> v] \in W  OBVIOUS
            <4> QED BY <3>1, <4>2
        <3>2. CASE n # 0
            <4>1. n \in Nat  OBVIOUS
            <4>2. n - 1 \in Nat /\ ~(n <= n - 1)  BY <3>2, <4>1
            <4>3. n - 1 \notin bad
                <5> HIDE DEF bad
                <5> QED BY <2>1, <4>2
            <4>4. \E g \in W : Good(g, n - 1)  BY <4>2, <4>3
            <4> QED BY <4>4
        <3> QED BY <3>1, <3>2
    <2> DEFINE h == [e \in Expressions |-> IF Size(e) < n THEN g[e] ELSE step[<<e, g>>]]
    <2>3. h \in W  BY <1>3
    <2>4. \A e \in Expressions : h[e] = IF Size(e) < n THEN g[e] ELSE step[<<e, g>>]
        OBVIOUS
    <2>5. ASSUME NEW e \in Expressions, Size(e) <= n PROVE h[e] = step[<<e, h>>]
        <3> HIDE DEF h, Good, bad
        <3>1. n \in Nat  BY <2>1 DEF bad
        <3>2. \A p \in Range(e.parts) : h[p] = g[p]
            <4> SUFFICES ASSUME NEW p \in Range(e.parts) PROVE h[p] = g[p]  OBVIOUS
            <4>1. p \in Expressions /\ Size(p) < n  BY <1>1, <2>5, <3>1
            <4> QED BY <2>4, <4>1
        <3>3. step[<<e, g>>] = step[<<e, h>>]  BY <1>2, <2>3, <3>2
        <3>4. CASE Size(e) < n
            <4>1. n # 0 /\ Size(e) <= n - 1  BY <3>1, <3>4
            <4>2. g[e] = step[<<e, g>>]  BY <2>2, <4>1 DEF Good
            <4> QED BY <2>4, <3>3, <3>4, <4>2
        <3>5. CASE ~(Size(e) < n)  BY <2>4, <3>3, <3>5
        <3> QED BY <3>4, <3>5
    <2>6. Good(h, n)
        <3> HIDE DEF h
        <3> QED BY <2>5
    <2> HIDE DEF h, Good
    <2> QED BY <2>1, <2>3, <2>6
<1>5. ASSUME NEW n \in Nat, NEW g \in W, Good(g, n), NEW m \in Nat, NEW h \in W, Good(h, m),
             NEW x \in Expressions, Size(x) <= n, Size(x) <= m
      PROVE  g[x] = h[x]
    <2> DEFINE bad == {e \in Expressions : Size(e) <= n /\ Size(e) <= m /\ g[e] # h[e]}
    <2> SUFFICES ASSUME bad # {} PROVE FALSE  BY <1>5
    <2>1. PICK e \in bad : \A p \in Range(e.parts) : p \notin bad
        <3>1. bad \in SUBSET Expressions  OBVIOUS
        <3> HIDE DEF bad
        <3> QED BY <3>1, SmallestTree
    <2>2. e \in Expressions /\ Size(e) <= n /\ Size(e) <= m /\ g[e] # h[e]  OBVIOUS
    <2>3. \A p \in Range(e.parts) : g[p] = h[p]
        <3> SUFFICES ASSUME NEW p \in Range(e.parts) PROVE g[p] = h[p]  OBVIOUS
        <3>1. p \in Expressions /\ Size(p) <= n /\ Size(p) <= m  BY <1>1, <2>2
        <3> QED BY <2>1, <3>1
    <2>4. g[e] = step[<<e, g>>] /\ h[e] = step[<<e, h>>]  BY <1>5, <2>2
    <2> HIDE DEF bad, Good, W
    <2> QED BY <1>2, <2>2, <2>3, <2>4
<1> DEFINE Of(e) == CHOOSE g \in W : Good(g, Size(e))
           walk == [e \in Expressions |-> Of(e)[e]]
<1>6. \A e \in Expressions : Of(e) \in W /\ Good(Of(e), Size(e))
    <2> SUFFICES ASSUME NEW e \in Expressions PROVE Of(e) \in W /\ Good(Of(e), Size(e))
        OBVIOUS
    <2>1. Size(e) \in Nat  OBVIOUS
    <2>2. \E g \in W : Good(g, Size(e))
        <3> HIDE DEF Good, W
        <3> QED BY <1>4, <2>1
    <2> HIDE DEF Good, W
    <2> QED BY <2>2
<1>7. walk \in W /\ \A e \in Expressions : walk[e] = Of(e)[e]
    <2> HIDE DEF Of
    <2>1. \A e \in Expressions : Of(e)[e] \in V  BY <1>6
    <2> QED BY <2>1
<1>8. ASSUME NEW e \in Expressions PROVE walk[e] = step[<<e, walk>>]
    <2> HIDE DEF walk, Of
    <2>1. \A p \in Range(e.parts) : walk[p] = Of(e)[p]
        <3> SUFFICES ASSUME NEW p \in Range(e.parts) PROVE walk[p] = Of(e)[p]  OBVIOUS
        <3>1. p \in Expressions /\ Size(p) \in Nat /\ Size(e) \in Nat /\ Size(p) <= Size(e)
            BY <1>1
        <3>2. Of(p) \in W /\ Good(Of(p), Size(p)) /\ Of(e) \in W /\ Good(Of(e), Size(e))
            BY <1>6, <3>1
        <3>3. Of(p)[p] = Of(e)[p]
            <4>1. Size(p) <= Size(p)  BY <3>1
            <4> HIDE DEF Good, W
            <4> QED BY <1>5, <3>1, <3>2, <4>1
        <3> QED BY <1>7, <3>1, <3>3
    <2>2. Of(e) \in W /\ Of(e)[e] = step[<<e, Of(e)>>]
        <3>1. Size(e) <= Size(e)  OBVIOUS
        <3> QED BY <1>6, <3>1
    <2>3. step[<<e, Of(e)>>] = step[<<e, walk>>]
        <3>1. walk \in W /\ \A p \in Range(e.parts) : Of(e)[p] = walk[p]
            BY <1>7, <2>1
        <3>2. \A g, h \in W : (\A p \in Range(e.parts) : g[p] = h[p])
                => step[<<e, g>>] = step[<<e, h>>]
            BY <1>2
        <3> HIDE DEF W
        <3> QED BY <2>2, <3>1, <3>2
    <2> QED BY <1>7, <2>2, <2>3
<1> HIDE DEF walk
<1> QED BY <1>7, <1>8

\* The answers of pg_proc that a snapshot may hold.
Resolved == {<<>>} \cup {[f \in asked |-> Provolatile[f]] : asked \in SUBSET Answered}

\* The answers of pg_proc, as far as they were asked for.
LEMMA AnswersRead ==
    ASSUME NEW r \in Resolved
    PROVE  /\ DOMAIN r \subseteq Answered
           /\ \A f \in DOMAIN r : r[f] = Provolatile[f]
<1>1. CASE r = <<>>
    <2>1. DOMAIN r = {}  BY <1>1
    <2> QED BY <2>1
<1>2. CASE r # <<>>
    <2>1. PICK asked \in SUBSET Answered : r = [f \in asked |-> Provolatile[f]]
        BY <1>2 DEF Resolved
    <2> QED BY <2>1
<1> QED BY <1>1, <1>2

LEMMA AnsweredVolatilities ==
    \A f \in Answered : Provolatile[f] \in {"immutable", "stable", "volatile"}
BY FunctionsAssumption DEF Answered

\* A list knows a function, or pg_proc is asked.
LEMMA KnownVolatilities ==
    ASSUME NEW f
    PROVE  /\ Known(f) \in {"immutable", "stable", "volatile", "unknown"}
           /\ f \in DOMAIN Provolatile => Known(f) = "unknown"
           /\ f \in DOMAIN Builtins => Known(f) = Builtins[f]
BY FunctionsAssumption DEF Known

LEMMA OwnVolatilities ==
    ASSUME NEW e, NEW r \in Resolved
    PROVE  OwnVolatility(e, r) \in Volatilities
<1>1. FunctionVolatility(e.function, r) \in Volatilities
    <2>1. CASE Known(e.function) = "unknown" /\ e.function \in DOMAIN r
        <3>1. FunctionVolatility(e.function, r) = Provolatile[e.function]
            BY <2>1, AnswersRead DEF FunctionVolatility
        <3>2. e.function \in Answered  BY <2>1, AnswersRead
        <3> QED BY <3>1, <3>2, AnsweredVolatilities DEF Volatilities
    <2>2. CASE ~(Known(e.function) = "unknown" /\ e.function \in DOMAIN r)
        BY <2>2, KnownVolatilities DEF FunctionVolatility, Volatilities
    <2> QED BY <2>1, <2>2
<1> QED BY <1>1 DEF OwnVolatility, Volatilities

\* The worst of some volatilities is one of them, or constant; none is worse.
LEMMA WorstVolatility ==
    ASSUME NEW vs \in SUBSET Volatilities
    PROVE  /\ Combine(vs) \in vs \cup {"constant"}
           /\ \A v \in vs : Rank(v) <= Rank(Combine(vs))
<1> DEFINE all == vs \cup {"constant"}
           ranks == {Rank(v) : v \in all}
<1>1. \A v \in Volatilities : Rank(v) \in 0..4  BY DEF Volatilities, Rank
<1>2. all \in SUBSET Volatilities  BY DEF Volatilities
<1>3. ranks \in SUBSET (0..4) /\ ranks # {}  BY <1>1, <1>2
<1>4. PICK top \in ranks : \A rank \in ranks : rank <= top
    <2>1. 4 \in Nat  OBVIOUS
    <2> HIDE DEF ranks
    <2> QED BY <1>3, <2>1, GreatestNumber
<1>5. \E v \in all : \A w \in vs : Rank(w) <= Rank(v)
    <2>1. PICK v \in all : Rank(v) = top  OBVIOUS
    <2>2. \A w \in vs : Rank(w) \in ranks  OBVIOUS
    <2> QED BY <1>4, <2>1, <2>2
<1> QED BY <1>5 DEF Combine

\* What the walks look at are parts, and the parts are trees.
LEMMA PartsAreTrees ==
    ASSUME NEW e \in Expressions
    PROVE  /\ \A p \in Range(e.parts) : p \in Expressions \ {NoExpression}
           /\ WalkedParts(e) \subseteq Range(e.parts)
BY TreesAssumption DEF WalkedParts

\* ExpressionVolatility is its own part and the parts it looks at, combined.
LEMMA VolatilityWalk ==
    ASSUME NEW r \in Resolved
    PROVE  \A e \in Expressions :
             ExpressionVolatility(e, r) =
               IF FoldedCast(e) THEN "constant"
               ELSE Combine({OwnVolatility(e, r)}
                            \cup {ExpressionVolatility(p, r) : p \in WalkedParts(e)})
<1> DEFINE V == Volatilities
           W == [Expressions -> V]
           Seen(e, g) == {g[p] : p \in WalkedParts(e)}
           Body(e, g) == IF FoldedCast(e) THEN "constant"
                         ELSE Combine({OwnVolatility(e, r)} \cup Seen(e, g))
           step == [x \in Expressions \X W |-> Body(x[1], x[2])]
<1>1. \A e \in Expressions : \A g \in W : Body(e, g) \in V
    <2> SUFFICES ASSUME NEW e \in Expressions, NEW g \in W PROVE Body(e, g) \in V  OBVIOUS
    <2>1. Seen(e, g) \in SUBSET V  BY PartsAreTrees
    <2> HIDE DEF Seen
    <2>2. {OwnVolatility(e, r)} \cup Seen(e, g) \in SUBSET V  BY <2>1, OwnVolatilities
    <2>3. "constant" \in V  BY DEF Volatilities
    <2> QED BY <2>2, <2>3, WorstVolatility
<1>2. ASSUME NEW e \in Expressions, NEW g \in W, NEW h \in W,
             \A p \in Range(e.parts) : g[p] = h[p]
      PROVE  Body(e, g) = Body(e, h)
    <2>1. \A p \in WalkedParts(e) : g[p] = h[p]  BY <1>2, PartsAreTrees
    <2>2. Seen(e, g) \subseteq Seen(e, h)  BY <2>1
    <2>3. Seen(e, h) \subseteq Seen(e, g)  BY <2>1
    <2> HIDE DEF Seen
    <2> QED BY <2>2, <2>3
<1>3. \E walk \in W : \A e \in Expressions : walk[e] = Body(e, walk)
    <2> HIDE DEF Body, W
    <2>1. step \in [Expressions \X W -> V]  BY <1>1
    <2>2. \A e \in Expressions : \A g \in W : step[<<e, g>>] = Body(e, g)  OBVIOUS
    <2>3. \A e \in Expressions : \A g, h \in W :
            (\A p \in Range(e.parts) : g[p] = h[p]) => step[<<e, g>>] = step[<<e, h>>]
        BY <1>2, <2>2
    <2> HIDE DEF step
    <2>4. V # {}  BY DEF Volatilities
    <2> HIDE DEF V
    <2>5. \E walk \in W : \A e \in Expressions : walk[e] = step[<<e, walk>>]
        BY <2>1, <2>3, <2>4, WalkSolved DEF W
    <2> QED BY <2>2, <2>5
<1>4. PICK walk \in W : \A e \in Expressions : walk[e] = Body(e, walk)  BY <1>3
<1>5. walk = [e \in Expressions |-> Body(e, walk)]
    <2> HIDE DEF Body
    <2> QED BY <1>4
<1> DEFINE Vol == CHOOSE f : f = [e \in Expressions |-> Body(e, f)]
<1>6. Vol = [e \in Expressions |-> Body(e, Vol)]
    <2>1. \E f : f = [e \in Expressions |-> Body(e, f)]  BY <1>5
    <2> QED BY <2>1
<1>7. \A e : ExpressionVolatility(e, r) = Vol[e]  BY DEF ExpressionVolatility
<1> HIDE DEF Vol
<1>8. \A e \in Expressions : Vol[e] = Body(e, Vol)
    <2> HIDE DEF Body
    <2> QED BY <1>6
<1>9. \A e : Seen(e, Vol) = {ExpressionVolatility(p, r) : p \in WalkedParts(e)}
    BY <1>7
<1> HIDE DEF Seen
<1> QED BY <1>7, <1>8, <1>9

\* unknown_function_keys: a tree's own call, and the calls of the parts.
LEMMA UnknownsWalk ==
    \A e \in Expressions :
      UnknownFunctions(e) =
        (IF e.construct = "call" /\ Known(e.function) = "unknown" THEN {e.function} ELSE {})
        \cup UNION {UnknownFunctions(p) : p \in WalkedParts(e)}
<1> DEFINE Names == {e.function : e \in Expressions}
           V == SUBSET Names
           W == [Expressions -> V]
           Own(e) == IF e.construct = "call" /\ Known(e.function) = "unknown"
                     THEN {e.function} ELSE {}
           Seen(e, g) == UNION {g[p] : p \in WalkedParts(e)}
           Body(e, g) == Own(e) \cup Seen(e, g)
           step == [x \in Expressions \X W |-> Body(x[1], x[2])]
<1>1. \A e \in Expressions : \A g \in W : Body(e, g) \in V
    <2> SUFFICES ASSUME NEW e \in Expressions, NEW g \in W PROVE Body(e, g) \in V  OBVIOUS
    <2>1. \A p \in WalkedParts(e) : g[p] \in V  BY PartsAreTrees
    <2>2. Own(e) \in V  OBVIOUS
    <2> HIDE DEF Own, Names
    <2> QED BY <2>1, <2>2
<1>2. ASSUME NEW e \in Expressions, NEW g \in W, NEW h \in W,
             \A p \in Range(e.parts) : g[p] = h[p]
      PROVE  Body(e, g) = Body(e, h)
    <2>1. \A p \in WalkedParts(e) : g[p] = h[p]  BY <1>2, PartsAreTrees
    <2>2. Seen(e, g) \subseteq Seen(e, h)  BY <2>1
    <2>3. Seen(e, h) \subseteq Seen(e, g)  BY <2>1
    <2> HIDE DEF Seen
    <2> QED BY <2>2, <2>3
<1>3. \E walk \in W : \A e \in Expressions : walk[e] = Body(e, walk)
    <2> HIDE DEF Body, W
    <2>1. step \in [Expressions \X W -> V]  BY <1>1
    <2>2. \A e \in Expressions : \A g \in W : step[<<e, g>>] = Body(e, g)  OBVIOUS
    <2>3. \A e \in Expressions : \A g, h \in W :
            (\A p \in Range(e.parts) : g[p] = h[p]) => step[<<e, g>>] = step[<<e, h>>]
        BY <1>2, <2>2
    <2> HIDE DEF step
    <2>4. V # {}
        <3>1. {} \in V  OBVIOUS
        <3> QED BY <3>1
    <2> HIDE DEF V
    <2>5. \E walk \in W : \A e \in Expressions : walk[e] = step[<<e, walk>>]
        BY <2>1, <2>3, <2>4, WalkSolved DEF W
    <2> QED BY <2>2, <2>5
<1>4. PICK walk \in W : \A e \in Expressions : walk[e] = Body(e, walk)  BY <1>3
<1>5. walk = [e \in Expressions |-> Body(e, walk)]
    <2> HIDE DEF Body
    <2> QED BY <1>4
<1> DEFINE Found == CHOOSE f : f = [e \in Expressions |-> Body(e, f)]
<1>6. Found = [e \in Expressions |-> Body(e, Found)]
    <2>1. \E f : f = [e \in Expressions |-> Body(e, f)]  BY <1>5
    <2> QED BY <2>1
<1>7. \A e : UnknownFunctions(e) = Found[e]  BY DEF UnknownFunctions
<1> HIDE DEF Found
<1>8. \A e \in Expressions : Found[e] = Body(e, Found)
    <2> HIDE DEF Body
    <2> QED BY <1>6
<1>9. \A e : Seen(e, Found) = UNION {UnknownFunctions(p) : p \in WalkedParts(e)}
    BY <1>7
<1> HIDE DEF Seen
<1> QED BY <1>7, <1>8, <1>9

\* A walk that asks whether the tree or any part of it is of some kind.
LEMMA AnyPartSolved ==
    ASSUME NEW Kinds \in SUBSET Expressions
    PROVE  \E walk : walk = [e \in Expressions |->
                               e \in Kinds \/ \E p \in Range(e.parts) : walk[p]]
<1> DEFINE W == [Expressions -> BOOLEAN]
           Body(e, g) == e \in Kinds \/ \E p \in Range(e.parts) : g[p]
           step == [x \in Expressions \X W |-> Body(x[1], x[2])]
<1>1. \A e \in Expressions : \A g \in W : Body(e, g) \in BOOLEAN  OBVIOUS
<1>2. ASSUME NEW e \in Expressions, NEW g \in W, NEW h \in W,
             \A p \in Range(e.parts) : g[p] = h[p]
      PROVE  Body(e, g) = Body(e, h)
    BY <1>2
<1> HIDE DEF Body
<1>3. step \in [Expressions \X W -> BOOLEAN]  BY <1>1
<1>4. \A e \in Expressions : \A g \in W : step[<<e, g>>] = Body(e, g)  OBVIOUS
<1>5. \A e \in Expressions : \A g, h \in W :
        (\A p \in Range(e.parts) : g[p] = h[p]) => step[<<e, g>>] = step[<<e, h>>]
    BY <1>2, <1>4
<1>6. PICK walk \in W : \A e \in Expressions : walk[e] = step[<<e, walk>>]
    <2> DEFINE V == BOOLEAN
    <2>1. V # {} /\ step \in [Expressions \X [Expressions -> V] -> V]  BY <1>3
    <2>2. \A e \in Expressions : \A g, h \in [Expressions -> V] :
            (\A p \in Range(e.parts) : g[p] = h[p]) => step[<<e, g>>] = step[<<e, h>>]
        BY <1>5
    <2> HIDE DEF step, V
    <2>3. \E walk \in [Expressions -> V] :
            \A e \in Expressions : walk[e] = step[<<e, walk>>]
        BY <2>1, <2>2, WalkSolved
    <2> QED BY <2>3 DEF V
<1>7. \A e \in Expressions : walk[e] = Body(e, walk)  BY <1>4, <1>6
<1>8. walk = [e \in Expressions |-> Body(e, walk)]  BY <1>7
<1> QED BY <1>8 DEF Body

LEMMA CallsWalk ==
    \A e \in Expressions :
      CallsVolatile(e) <=>
        \/ /\ e.function \in DOMAIN Provolatile
           /\ Provolatile[e.function] \in {"volatile", "disagree"}
        \/ e.function \in DOMAIN Builtins /\ Builtins[e.function] = "volatile"
        \/ \E p \in Range(e.parts) : CallsVolatile(p)
<1> DEFINE Own(e) == \/ /\ e.function \in DOMAIN Provolatile
                        /\ Provolatile[e.function] \in {"volatile", "disagree"}
                     \/ e.function \in DOMAIN Builtins /\ Builtins[e.function] = "volatile"
           Kinds == {e \in Expressions : Own(e)}
           Body(e, f) == \/ /\ e.function \in DOMAIN Provolatile
                            /\ Provolatile[e.function] \in {"volatile", "disagree"}
                         \/ /\ e.function \in DOMAIN Builtins
                            /\ Builtins[e.function] = "volatile"
                         \/ \E p \in Range(e.parts) : f[p]
<1>1. PICK walk : walk = [e \in Expressions |->
                            e \in Kinds \/ \E p \in Range(e.parts) : walk[p]]
    <2>1. Kinds \in SUBSET Expressions  OBVIOUS
    <2> HIDE DEF Kinds
    <2> QED BY <2>1, AnyPartSolved
<1>2. walk = [e \in Expressions |-> Body(e, walk)]
    <2>1. \A e \in Expressions :
            (e \in Kinds \/ \E p \in Range(e.parts) : walk[p]) = Body(e, walk)
        OBVIOUS
    <2> HIDE DEF Kinds, Body
    <2> QED BY <1>1, <2>1
<1> DEFINE Volatile == CHOOSE f : f = [e \in Expressions |-> Body(e, f)]
<1>3. Volatile = [e \in Expressions |-> Body(e, Volatile)]
    <2>1. \E f : f = [e \in Expressions |-> Body(e, f)]  BY <1>2
    <2> QED BY <2>1
<1>4. \A e : CallsVolatile(e) = Volatile[e]  BY DEF CallsVolatile
<1> HIDE DEF Volatile
<1>5. \A e \in Expressions : Volatile[e] = Body(e, Volatile)
    <2> HIDE DEF Body
    <2> QED BY <1>3
<1>6. \A e \in Expressions : Volatile[e] <=> Body(e, Volatile)
    <2> HIDE DEF Body
    <2> QED BY <1>5
<1> QED BY <1>4, <1>6

LEMMA OpenWalk ==
    \A e \in Expressions :
      Unanswerable(e) <=>
        \/ e.construct \in {"subquery", "userop"}
        \/ e.construct = "call" /\ Known(e.function) = "unknown" /\ e.function \notin Answered
        \/ \E p \in Range(e.parts) : Unanswerable(p)
<1> DEFINE Own(e) == \/ e.construct \in {"subquery", "userop"}
                     \/ /\ e.construct = "call" /\ Known(e.function) = "unknown"
                        /\ e.function \notin Answered
           Kinds == {e \in Expressions : Own(e)}
           Body(e, f) == \/ e.construct \in {"subquery", "userop"}
                         \/ /\ e.construct = "call"
                            /\ Known(e.function) = "unknown"
                            /\ e.function \notin Answered
                         \/ \E p \in Range(e.parts) : f[p]
<1>1. PICK walk : walk = [e \in Expressions |->
                            e \in Kinds \/ \E p \in Range(e.parts) : walk[p]]
    <2>1. Kinds \in SUBSET Expressions  OBVIOUS
    <2> HIDE DEF Kinds
    <2> QED BY <2>1, AnyPartSolved
<1>2. walk = [e \in Expressions |-> Body(e, walk)]
    <2>1. \A e \in Expressions :
            (e \in Kinds \/ \E p \in Range(e.parts) : walk[p]) = Body(e, walk)
        OBVIOUS
    <2> HIDE DEF Kinds, Body
    <2> QED BY <1>1, <2>1
<1> DEFINE Open == CHOOSE f : f = [e \in Expressions |-> Body(e, f)]
<1>3. Open = [e \in Expressions |-> Body(e, Open)]
    <2>1. \E f : f = [e \in Expressions |-> Body(e, f)]  BY <1>2
    <2> QED BY <2>1
<1>4. \A e : Unanswerable(e) = Open[e]  BY DEF Unanswerable
<1> HIDE DEF Open
<1>5. \A e \in Expressions : Open[e] = Body(e, Open)
    <2> HIDE DEF Body
    <2> QED BY <1>3
<1>6. \A e \in Expressions : Open[e] <=> Body(e, Open)
    <2> HIDE DEF Body
    <2> QED BY <1>5
<1> QED BY <1>4, <1>6

LEMMA TreeVolatilities ==
    ASSUME NEW r \in Resolved
    PROVE  \A e \in Expressions : ExpressionVolatility(e, r) \in Volatilities
<1> DEFINE bad == {e \in Expressions : ExpressionVolatility(e, r) \notin Volatilities}
<1> SUFFICES ASSUME bad # {} PROVE FALSE  OBVIOUS
<1>1. PICK e \in bad : \A p \in Range(e.parts) : p \notin bad
    <2>1. bad \in SUBSET Expressions  OBVIOUS
    <2> HIDE DEF bad
    <2> QED BY <2>1, SmallestTree
<1> DEFINE vs == {OwnVolatility(e, r)} \cup {ExpressionVolatility(p, r) : p \in WalkedParts(e)}
<1>2. \A p \in WalkedParts(e) : ExpressionVolatility(p, r) \in Volatilities
    <2>1. \A p \in WalkedParts(e) : p \in Range(e.parts)  BY DEF WalkedParts
    <2>2. \A p \in Range(e.parts) : p \in Expressions  BY TreesAssumption
    <2> QED BY <1>1, <2>1, <2>2
<1>3. vs \in SUBSET Volatilities  BY <1>2, OwnVolatilities
<1>4. ExpressionVolatility(e, r) = IF FoldedCast(e) THEN "constant" ELSE Combine(vs)
    BY VolatilityWalk
<1> HIDE DEF vs
<1>5. "constant" \in Volatilities  BY DEF Volatilities
<1>6. ExpressionVolatility(e, r) \in Volatilities
    BY <1>3, <1>4, <1>5, WorstVolatility
<1> QED BY <1>6

\* What the walk makes of a tree is no better than its own part and the parts
\* it looks at, and it is one of these unless it is constant.
LEMMA WalkedVolatility ==
    ASSUME NEW r \in Resolved, NEW e \in Expressions, ~FoldedCast(e)
    PROVE  /\ Rank(OwnVolatility(e, r)) <= Rank(ExpressionVolatility(e, r))
           /\ \A p \in WalkedParts(e) :
                Rank(ExpressionVolatility(p, r)) <= Rank(ExpressionVolatility(e, r))
           /\ \/ ExpressionVolatility(e, r) \in {"constant", OwnVolatility(e, r)}
              \/ \E p \in WalkedParts(e) :
                   ExpressionVolatility(e, r) = ExpressionVolatility(p, r)
<1> DEFINE vs == {OwnVolatility(e, r)} \cup {ExpressionVolatility(p, r) : p \in WalkedParts(e)}
<1>1. \A p \in WalkedParts(e) : ExpressionVolatility(p, r) \in Volatilities
    <2>1. \A p \in WalkedParts(e) : p \in Range(e.parts)  BY DEF WalkedParts
    <2>2. \A p \in Range(e.parts) : p \in Expressions  BY TreesAssumption
    <2> QED BY <2>1, <2>2, TreeVolatilities
<1>2. vs \in SUBSET Volatilities  BY <1>1, OwnVolatilities
<1>3. ExpressionVolatility(e, r) = Combine(vs)  BY VolatilityWalk
<1>4. /\ ExpressionVolatility(e, r) \in vs \cup {"constant"}
      /\ \A v \in vs : Rank(v) <= Rank(ExpressionVolatility(e, r))
    <2> HIDE DEF vs
    <2> QED BY <1>2, <1>3, WorstVolatility
<1>5. \A p \in WalkedParts(e) : ExpressionVolatility(p, r) \in vs  OBVIOUS
<1> QED BY <1>4, <1>5

LEMMA HighRanks ==
    ASSUME NEW v \in Volatilities, NEW w \in {"unknown", "volatile"}, Rank(w) <= Rank(v)
    PROVE  v \in {"unknown", "volatile"}
BY DEF Volatilities, Rank

\* A volatile call anywhere in the tree shows, whatever pg_proc was asked.
LEMMA VolatileCallsShow ==
    ASSUME NEW r \in Resolved, NEW expression \in Expressions, CallsVolatile(expression)
    PROVE  ExpressionVolatility(expression, r) \in {"unknown", "volatile"}
<1> DEFINE Shows(e) == ExpressionVolatility(e, r) \in {"unknown", "volatile"}
           bad == {e \in Expressions : CallsVolatile(e) /\ ~Shows(e)}
<1> SUFFICES ASSUME bad # {} PROVE FALSE  OBVIOUS
<1>1. PICK e \in bad : \A p \in Range(e.parts) : p \notin bad
    <2>1. bad \in SUBSET Expressions  OBVIOUS
    <2> HIDE DEF bad
    <2> QED BY <2>1, SmallestTree
<1>2. e \in Expressions /\ CallsVolatile(e) /\ ~Shows(e)  OBVIOUS
<1>3. \A p \in Range(e.parts) : p \in Expressions /\ (CallsVolatile(p) => Shows(p))
    BY <1>1, TreesAssumption
<1> HIDE DEF bad
<1>4. CASE FoldedCast(e)
    <2>1. e.construct = "cast" /\ Range(e.parts) = {e.parts[1]} /\ e.parts[1] \in Expressions
          /\ e.parts[1].construct = "constant"
        BY <1>2, <1>3, <1>4, TreesAssumption DEF FoldedCast
    <2>2. ~CallsVolatile(e.parts[1])
        BY <2>1, TreesAssumption, CallsWalk
    <2>3. e.function \notin DOMAIN Builtins \cup DOMAIN Provolatile
        BY <1>2, <2>1, TreesAssumption
    <2> QED BY <1>2, <2>1, <2>2, <2>3, CallsWalk
<1>5. CASE ~FoldedCast(e)
    <2>1. ASSUME NEW w \in {"unknown", "volatile"}, Rank(w) <= Rank(ExpressionVolatility(e, r))
          PROVE  FALSE
        BY <1>2, <2>1, HighRanks, TreeVolatilities
    <2>2. OwnVolatility(e, r) \notin {"unknown", "volatile"}
        BY <1>2, <1>5, <2>1, WalkedVolatility
    <2>3. \A p \in WalkedParts(e) : ~Shows(p)
        BY <1>2, <1>5, <2>1, WalkedVolatility
    <2>4. CASE e.function \in DOMAIN Provolatile
               /\ Provolatile[e.function] \in {"volatile", "disagree"}
        <3>1. e.construct = "call"  BY <1>2, <2>4, TreesAssumption
        <3>2. FunctionVolatility(e.function, r) \in {"unknown", "volatile"}
            <4>1. Known(e.function) = "unknown"  BY <2>4, KnownVolatilities
            <4>2. CASE e.function \in DOMAIN r
                <5>1. r[e.function] = Provolatile[e.function]
                      /\ Provolatile[e.function] \in {"immutable", "stable", "volatile"}
                    BY <4>2, AnswersRead, AnsweredVolatilities
                <5> QED BY <2>4, <4>1, <4>2, <5>1 DEF FunctionVolatility
            <4>3. CASE e.function \notin DOMAIN r
                BY <4>1, <4>3 DEF FunctionVolatility
            <4> QED BY <4>2, <4>3
        <3> QED BY <2>2, <3>1, <3>2 DEF OwnVolatility
    <2>5. CASE e.function \in DOMAIN Builtins /\ Builtins[e.function] = "volatile"
        <3>1. e.construct = "call"  BY <1>2, <2>5, TreesAssumption
        <3>2. FunctionVolatility(e.function, r) = "volatile"
            BY <2>5, KnownVolatilities DEF FunctionVolatility
        <3> QED BY <2>2, <3>1, <3>2 DEF OwnVolatility
    <2>6. ASSUME NEW p \in Range(e.parts), CallsVolatile(p) PROVE FALSE
        <3>1. Shows(p)  BY <1>3, <2>6
        <3>2. p \notin WalkedParts(e)  BY <2>3, <3>1
        <3>3. e.construct = "subquery"  BY <1>5, <3>2 DEF WalkedParts
        <3> QED BY <2>2, <3>3 DEF OwnVolatility
    <2> QED BY <1>2, <2>4, <2>5, <2>6, CallsWalk
<1> QED BY <1>4, <1>5

\* A tree that stays unknown with every answer there is has a part that none
\* could settle.
LEMMA UnknownIsUnanswerable ==
    ASSUME NEW r \in Resolved, NEW expression \in Expressions \ {NoExpression},
           ExpressionVolatility(expression, r) = "unknown",
           UnknownFunctions(expression) \cap Answered \subseteq DOMAIN r
    PROVE  Unanswerable(expression)
<1> DEFINE Stays(e) == /\ ExpressionVolatility(e, r) = "unknown"
                       /\ UnknownFunctions(e) \cap Answered \subseteq DOMAIN r
           bad == {e \in Expressions \ {NoExpression} : Stays(e) /\ ~Unanswerable(e)}
<1> SUFFICES ASSUME bad # {} PROVE FALSE  OBVIOUS
<1>1. PICK e \in bad : \A p \in Range(e.parts) : p \notin bad
    <2>1. bad \in SUBSET Expressions  OBVIOUS
    <2> HIDE DEF bad
    <2> QED BY <2>1, SmallestTree
<1>2. e \in Expressions \ {NoExpression} /\ Stays(e) /\ ~Unanswerable(e)  OBVIOUS
<1>3. \A p \in Range(e.parts) :
        p \in Expressions \ {NoExpression} /\ (Stays(p) => Unanswerable(p))
    BY <1>1, TreesAssumption
<1> HIDE DEF bad
<1>4. /\ e.construct \notin {"subquery", "userop"}
      /\ ~(e.construct = "call" /\ Known(e.function) = "unknown" /\ e.function \notin Answered)
      /\ \A p \in Range(e.parts) : ~Unanswerable(p)
    BY <1>2, OpenWalk
<1>5. ~FoldedCast(e)
    <2>1. FoldedCast(e) => ExpressionVolatility(e, r) = "constant"
        BY <1>2, VolatilityWalk
    <2> QED BY <1>2, <2>1
<1>6. UnknownFunctions(e) =
        (IF e.construct = "call" /\ Known(e.function) = "unknown" THEN {e.function} ELSE {})
        \cup UNION {UnknownFunctions(p) : p \in WalkedParts(e)}
    BY <1>2, UnknownsWalk
<1>7. ASSUME NEW p \in WalkedParts(e), ExpressionVolatility(p, r) = "unknown"
      PROVE  FALSE
    <2>1. p \in Range(e.parts)  BY DEF WalkedParts
    <2>2. UnknownFunctions(p) \subseteq UnknownFunctions(e)  BY <1>6
    <2>3. Stays(p)  BY <1>2, <1>7, <2>2
    <2> QED BY <1>3, <1>4, <2>1, <2>3
<1>8. OwnVolatility(e, r) = "unknown"
    BY <1>2, <1>5, <1>7, WalkedVolatility
<1>9. e.construct = "call"
    BY <1>2, <1>4, <1>8, TreesAssumption DEF OwnVolatility
<1>10. FunctionVolatility(e.function, r) = "unknown"  BY <1>8, <1>9 DEF OwnVolatility
<1>11. Known(e.function) = "unknown" /\ e.function \notin DOMAIN r
    <2>1. CASE Known(e.function) = "unknown" /\ e.function \in DOMAIN r
        <3>1. r[e.function] \in {"immutable", "stable", "volatile"}
            BY <2>1, AnswersRead, AnsweredVolatilities
        <3> QED BY <1>10, <2>1, <3>1 DEF FunctionVolatility
    <2>2. CASE ~(Known(e.function) = "unknown" /\ e.function \in DOMAIN r)
        <3>1. Known(e.function) = "unknown"  BY <1>10, <2>2 DEF FunctionVolatility
        <3> QED BY <2>2, <3>1
    <2> QED BY <2>1, <2>2
<1>12. e.function \in UnknownFunctions(e)  BY <1>6, <1>9, <1>11
<1>13. e.function \in Answered  BY <1>4, <1>9, <1>11
<1> QED BY <1>2, <1>11, <1>12, <1>13

-------------------------------------------------------------------------------
(* The fast path.                                                            *)

\* Work the facts call catalog-time: narrowed from a snapshot, to a constant.
Fast(r) == r.observed /\ r.outcome = "constant"

LEMMA FactsFunctions ==
    ASSUME NEW t, NEW a, NEW without
    PROVE  /\ Facts(t, a, without).functions \in Resolved
           /\ DOMAIN Facts(t, a, without).functions =
                IF "functions" \in without THEN {} ELSE Asked(a) \cap Answered
<1> DEFINE asked == IF "functions" \in without THEN {} ELSE Asked(a) \cap Answered
<1>1. Facts(t, a, without).functions = [f \in asked |-> Provolatile[f]]  BY DEF Facts
<1>2. asked \in SUBSET Answered  OBVIOUS
<1> HIDE DEF asked
<1>3. Facts(t, a, without).functions \in Resolved  BY <1>1, <1>2 DEF Resolved
<1>4. DOMAIN Facts(t, a, without).functions = asked  BY <1>1
<1> QED BY <1>3, <1>4 DEF asked

LEMMA NoneAsked == <<>> \in Resolved
BY DEF Resolved

\* A narrowing behind every fast result.
LEMMA FastIsNarrowed ==
    ASSUME NEW a \in Subcommands, NEW online, NEW t, NEW without,
           Fast(Assess(a, online, t, without))
    PROVE  Assess(a, online, t, without)
             = NarrowAction(Kind(a), a, Facts(t, a, without), version)
<1>1. ~Fast(Fails) /\ ~Fast(Unresolved)  BY DEF Fast, Fails, Unresolved, Decided
<1>2. ~Fast([Decided(Model(Kind(a))) EXCEPT !.observed = FALSE])
    BY DEF Fast, Decided
<1> QED BY <1>1, <1>2 DEF Assess

LEMMA PlainSpeeds ==
    /\ ~Fast(Unresolved) /\ ~Fast(Decided("proportional"))
    /\ \A b : ~Fast([Decided("proportional") EXCEPT !.conditional = b])
    /\ \A b : ~Fast([Decided("keep_model") EXCEPT !.observed = b])
    /\ \A con, mode : ~Fast(WithReferenced(Decided("proportional"), con, mode))
BY DEF Fast, Unresolved, Decided, WithReferenced

LEMMA FastDefault ==
    ASSUME NEW a \in Subcommands, NEW t \in Tables, NEW without \in Hideable,
           Kind(a) \in {"add_column_default_nonvolatile",
                        "add_column_default_unknown_volatility"},
           Fast(NarrowAction(Kind(a), a, Facts(t, a, without), version))
    PROVE  ~Constrained(a.type) /\ ~CallsVolatile(a.default)
<1> DEFINE snap == Facts(t, a, without)
           r == snap.functions
<1> USE PlainSpeeds, NoneAsked
<1>1. Fast(AddColumnDomain(a, snap)) => ~Constrained(a.type)
    BY DEF AddColumnDomain
<1>2. a.default \in Expressions  BY NodeKinds
<1>3. CASE Kind(a) = "add_column_default_nonvolatile"
    <2>1. Fast(AddColumnDomain(a, snap))  BY <1>3 DEF NarrowAction
    <2>2. ExpressionVolatility(a.default, <<>>) \notin {"volatile", "unknown"}
        BY <1>3, NodeKinds
    <2> QED BY <1>1, <1>2, <2>1, <2>2, VolatileCallsShow
<1>4. CASE Kind(a) = "add_column_default_unknown_volatility"
    <2>1. Fast(AddColumnUnknown(a, snap))  BY <1>4 DEF NarrowAction
    <2>2. /\ DecideDefault(a.default, r) \notin {"unknown", "volatile"}
          /\ Fast(AddColumnDomain(a, snap))
        BY <2>1 DEF AddColumnUnknown
    <2>3. r \in Resolved  BY FactsFunctions
    <2>4. ~CallsVolatile(a.default)
        BY <1>2, <2>2, <2>3, VolatileCallsShow DEF DecideDefault
    <2> QED BY <1>1, <2>2, <2>4
<1> QED BY <1>3, <1>4

LEMMA FastTypeChange ==
    ASSUME NEW a \in Subcommands, NEW t \in Tables, NEW without \in Hideable,
           a.node = "alter_column_type",
           Fast(Assess(a, TRUE, t, without))
    PROVE  ~Rewrites(t.type, a.type, a.using) /\ ~RebuildsIndex(t)
<1> DEFINE snap == Facts(t, a, without)
           r == Assess(a, TRUE, t, without)
           verdict == AssessTypeChange(snap.current # Missing, snap.current, a.type,
                                       a.using, version)
<1> USE PlainSpeeds
<1>1. Kind(a) = "alter_column_type"  BY NodeKinds
<1>2. r = AlterColumnType(a.type, a.using, snap, version)
    <2>1. r = NarrowAction(Kind(a), a, snap, version)  BY FastIsNarrowed
    <2>2. NarrowAction("alter_column_type", a, snap, version)
            = AlterColumnType(a.type, a.using, snap, version)
        BY DEF NarrowAction
    <2> QED BY <1>1, <2>1, <2>2
<1>3. r = NoRewrite(snap)
    BY <1>2 DEF AlterColumnType
<1>4. Indexes(snap) # Missing /\ ForcedRebuilds(Indexes(snap)) = {}
    <2>1. \A forced : ~Fast([Decided("proportional") EXCEPT !.relabel = TRUE,
                                                            !.rebuilt = forced])
        BY DEF Fast, Decided
    <2> QED BY <1>3, <2>1 DEF NoRewrite
<1>5. r.relabel
    <2>1. NoRewrite(snap) = [Decided("constant") EXCEPT !.relabel = TRUE]
        BY <1>4 DEF NoRewrite
    <2> QED BY <1>3, <2>1 DEF Decided
<1>6. ~Rewrites(t.type, a.type, a.using)  BY <1>5, RelabelProven
<1>7. Indexes(snap) = t.indexes  BY <1>4, FactsRead
<1>8. ~RebuildsIndex(t)
    BY <1>4, <1>7 DEF RebuildsIndex, ForcedRebuilds, Dependent
<1> QED BY <1>6, <1>8

LEMMA FastNotNull ==
    ASSUME NEW a, NEW t \in Tables, NEW without \in Hideable, ~NotNullUnproven(t),
           Fast(SetNotNull(Facts(t, a, without)))
    PROVE  ~ScansForNull(t)
<1> DEFINE snap == Facts(t, a, without)
<1> USE PlainSpeeds
<1>1. CASE Columns(snap) # Missing /\ Columns(snap).notNull
    <2>1. t.notNull  BY <1>1, FactsRead DEF ColumnFacts
    <2> QED BY <2>1 DEF ScansForNull
<1>2. CASE ~(Columns(snap) # Missing /\ Columns(snap).notNull)
    <2>1. /\ Constraints(snap) # Missing
          /\ \E con \in Constraints(snap) :
               /\ con.validated
               /\ (con.contype = "check" /\ ProvesNotNull(con.check)) \/ con.contype = "notnull"
        BY <1>2 DEF SetNotNull
    <2>2. Constraints(snap) = t.constraints  BY <2>1, FactsRead
    <2>3. PICK con \in t.constraints :
            /\ con.validated
            /\ (con.contype = "check" /\ ProvesNotNull(con.check)) \/ con.contype = "notnull"
        BY <2>1, <2>2
    <2>4. CASE con.contype = "notnull"
        <3>1. t.notNull  BY <2>4, TablesAssumption
        <3> QED BY <3>1 DEF ScansForNull
    <2>5. CASE con.contype = "check" /\ ProvesNotNull(con.check)
        <3>1. FalseOnNull(con.check)
            <4>1. CASE con.check = NotNullAtom
                <5>1. con.check.op = "atom"  BY <4>1 DEF NotNullAtom
                <5> QED BY <4>1, <5>1 DEF FalseOnNull
            <4>2. CASE con.check.op = "and" /\ NotNullAtom \in con.check.parts
                BY <4>2 DEF FalseOnNull
            <4> QED BY <2>5, <4>1, <4>2 DEF ProvesNotNull
        <3> QED BY <2>3, <2>5, <3>1 DEF ScansForNull
    <2> QED BY <2>3, <2>4, <2>5
<1> QED BY <1>1, <1>2

LEMMA FastValidate ==
    ASSUME NEW a, NEW t \in Tables, NEW without \in Hideable,
           Fast(ValidateConstraint(a.name, Facts(t, a, without)))
    PROVE  ~\E con \in NamedIn(t.constraints, a.name) : ~con.validated
<1> DEFINE snap == Facts(t, a, without)
           named == NamedIn(t.constraints, a.name)
           chosen == CHOOSE con \in named : TRUE
<1> USE PlainSpeeds
<1>1. Constraints(snap) # Missing /\ Constraints(snap) = t.constraints
    <2>1. Constraints(snap) # Missing  BY DEF ValidateConstraint
    <2> QED BY <2>1, FactsRead
<1>2. chosen.validated
    BY <1>1 DEF ValidateConstraint
<1>3. ASSUME NEW con \in named PROVE con.validated
    <2>1. con \in t.constraints /\ con.name = a.name  BY DEF NamedIn
    <2>2. named = {con}  BY <2>1, TablesAssumption
    <2>3. chosen = con  BY <2>2
    <2> QED BY <1>2, <2>3
<1> QED BY <1>3

LEMMA FastPrimaryKey ==
    ASSUME NEW a, NEW t \in Tables, NEW without \in Hideable,
           Fast(AddPrimaryKeyUsingIndex(Facts(t, a, without)))
    PROVE  t.notNull /\ t.othersNotNull
<1> DEFINE snap == Facts(t, a, without)
<1>1. Columns(snap) # Missing /\ Columns(snap).allNotNull
    BY PlainSpeeds DEF AddPrimaryKeyUsingIndex
<1>2. Columns(snap) = ColumnFacts(t)  BY <1>1, FactsRead
<1>3. ColumnFacts(t).allNotNull <=> t.notNull /\ t.othersNotNull  BY DEF ColumnFacts
<1> QED BY <1>1, <1>2, <1>3

LEMMA FastExpression ==
    ASSUME NEW a, NEW t \in Tables, NEW without \in Hideable,
           Fast(SetExpression(Facts(t, a, without)))
    PROVE  t.generated # "stored"
<1> DEFINE snap == Facts(t, a, without)
<1>1. Columns(snap) # Missing /\ Columns(snap).generated = "virtual"
    BY PlainSpeeds DEF SetExpression
<1>2. Columns(snap) = ColumnFacts(t)  BY <1>1, FactsRead
<1> QED BY <1>1, <1>2 DEF ColumnFacts

LEMMA FastTouchesNothing ==
    ASSUME NEW a \in Subcommands, NEW t \in Tables, NEW without \in Hideable,
           Fast(Assess(a, TRUE, t, without)), ~NotNullUnproven(t)
    PROVE  ~Touches(t, a)
<1> DEFINE r == Assess(a, TRUE, t, without)
           snap == Facts(t, a, without)
<1>1. r = NarrowAction(Kind(a), a, snap, version)  BY FastIsNarrowed
<1>2. CASE Kind(a) \in {"add_column_default_nonvolatile",
                        "add_column_default_unknown_volatility"}
    <2>1. ~Constrained(a.type) /\ ~CallsVolatile(a.default)  BY <1>1, <1>2, FastDefault
    <2>2. a.node = "add_column"  BY <1>2, NodeKinds
    <2> QED BY <1>2, <2>1, <2>2 DEF Touches
<1>3. CASE a.node = "alter_column_type"
    <2>1. Kind(a) = "alter_column_type"  BY <1>3, NodeKinds
    <2>2. ~Rewrites(t.type, a.type, a.using) /\ ~RebuildsIndex(t)
        BY <1>3, FastTypeChange
    <2> QED BY <1>3, <2>1, <2>2 DEF Touches
<1>4. CASE Kind(a) \in {"set_not_null", "add_not_null_constraint"}
    <2>1. r = SetNotNull(snap)  BY <1>1, <1>4 DEF NarrowAction
    <2>2. ~ScansForNull(t)  BY <2>1, FastNotNull
    <2>3. a.node \notin {"alter_column_type", "validate_constraint", "set_expression"}
        BY <1>4, NodeKinds
    <2> QED BY <1>4, <2>2, <2>3 DEF Touches
<1>5. CASE a.node = "validate_constraint"
    <2>1. Kind(a) = "validate_constraint"  BY <1>5, NodeKinds
    <2>2. r = ValidateConstraint(a.name, snap)  BY <1>1, <2>1 DEF NarrowAction
    <2>3. ~\E con \in NamedIn(t.constraints, a.name) : ~con.validated
        BY <2>2, FastValidate
    <2> QED BY <1>5, <2>1, <2>3 DEF Touches
<1>6. CASE Kind(a) = "add_primary_key_using_index"
    <2>1. r = AddPrimaryKeyUsingIndex(snap)  BY <1>1, <1>6 DEF NarrowAction
    <2>2. t.notNull /\ t.othersNotNull  BY <2>1, FastPrimaryKey
    <2>3. a.node \notin {"alter_column_type", "validate_constraint", "set_expression"}
        BY <1>6, NodeKinds
    <2> QED BY <1>6, <2>2, <2>3 DEF Touches
<1>7. CASE a.node = "set_expression"
    <2>1. Kind(a) = "set_expression"  BY <1>7, NodeKinds
    <2>2. r = SetExpression(snap)  BY <1>1, <2>1 DEF NarrowAction
    <2>3. t.generated # "stored"  BY <2>2, FastExpression
    <2> QED BY <1>7, <2>1, <2>3 DEF Touches
<1>8. CASE /\ Kind(a) \notin {"add_column_default_nonvolatile",
                              "add_column_default_unknown_volatility", "set_not_null",
                              "add_not_null_constraint", "add_primary_key_using_index"}
           /\ a.node \notin {"alter_column_type", "validate_constraint", "set_expression"}
    BY <1>8 DEF Touches
<1> QED BY <1>2, <1>3, <1>4, <1>5, <1>6, <1>7, <1>8

(***************************************************************************)
(* A subcommand that the snapshot's facts call catalog-time work neither    *)
(* rewrites the table it was captured from, nor scans it, nor builds an     *)
(* index of it again: for any tables, types, constraints and defaults.      *)
(***************************************************************************)
THEOREM FastPathIsFast == Spec => []FastPathProven
<1>1. Judges => FastPathProven
    <2> SUFFICES ASSUME Judges, Len(statement) = 1,
                        statement[1].fresh, statement[1].result.observed,
                        statement[1].result.outcome = "constant",
                        ~NotNullUnproven(captured), statement[1].touches
                 PROVE  FALSE
        BY DEF FastPathProven
    <2> DEFINE row == statement[1]
    <2>1. row \in Range(statement)
        <3>1. 1 \in DOMAIN statement  BY DEF Judges, Judgements
        <3> QED BY <3>1 DEF Range
    <2>2. row.result # Elsewhere  BY DEF Elsewhere, Decided
    <2>3. ActionRow(row)  BY <2>1, <2>2 DEF Judges, Judgements, InnerRow
    <2>4. captured \in Tables \cup {Missing} /\ hidden \in Hideable
        BY DEF Judges, Snapped
    <2> DEFINE a == row.action
    <2>5. /\ a \in Subcommands
          /\ row.result = Assess(a, captured # Missing, captured, hidden)
          /\ Touches(captured, a)
        BY <2>3 DEF ActionRow
    <2>6. Fast(row.result)  BY DEF Fast
    <2>7. captured # Missing
        <3> SUFFICES ASSUME captured = Missing PROVE FALSE  OBVIOUS
        <3>1. /\ ~Fast(Fails) /\ ~Fast(Unresolved)
              /\ ~Fast([Decided(Model(Kind(a))) EXCEPT !.observed = FALSE])
            BY DEF Fast, Fails, Unresolved, Decided
        <3> HIDE DEF row, a
        <3> QED BY <2>5, <2>6, <3>1 DEF Assess
    <2> HIDE DEF row, a
    <2> QED BY <2>4, <2>5, <2>6, <2>7, FastTouchesNothing
<1> QED BY <1>1, AlwaysJudges, PTL

(***************************************************************************)
(* A default whose volatility stays open was not left open for want of a    *)
(* question to pg_proc: some part of it no answer could settle.             *)
(***************************************************************************)
THEOREM ProbesAreEnough == Spec => []ProbesSuffice
<1>1. Judges => ProbesSuffice
    <2> SUFFICES ASSUME Judges, captured # Missing, hidden \cap {"functions", "types"} = {},
                        NEW row \in Range(statement), row.result = Unresolved,
                        Kind(row.action) = "add_column_default_unknown_volatility"
                 PROVE  Unanswerable(row.action.default)
        BY DEF ProbesSuffice
    <2> DEFINE a == row.action
               snap == Facts(captured, a, hidden)
               default == a.default
               r == snap.functions
    <2>1. captured \in Tables /\ hidden \in Hideable  BY DEF Judges, Snapped
    <2>2. row.result # Elsewhere  BY DEF Unresolved, Elsewhere, Decided
    <2>3. ActionRow(row)  BY <2>2 DEF Judges, Judgements, InnerRow
    <2>4. a \in Subcommands /\ Unresolved = Assess(a, TRUE, captured, hidden)
        BY <2>3 DEF ActionRow
    <2>5. /\ a.node = "add_column" /\ default \in Expressions \ {NoExpression}
          /\ ExpressionVolatility(default, <<>>) = "unknown"
        BY <2>4, NodeKinds
    <2>6. /\ Unresolved # Fails
          /\ Unresolved # [Decided("proportional") EXCEPT !.observed = FALSE]
          /\ Unresolved # Decided("proportional") /\ Unresolved # Decided("constant")
        BY DEF Unresolved, Fails, Decided
    <2>7. Unresolved = AddColumnUnknown(a, snap)
        <3>1. Model(Kind(a)) = "proportional"  BY DEF Model
        <3> QED BY <2>4, <2>6, <3>1 DEF Assess, NarrowAction
    <2>8. snap.types  BY <2>1, FactsRead
    <2>9. DecideDefault(default, r) = "unknown"
        BY <2>6, <2>7, <2>8 DEF AddColumnUnknown, AddColumnDomain
    <2>10. r \in Resolved /\ DOMAIN r = UnknownFunctions(default) \cap Answered
        <3>1. Asked(a) = UnknownFunctions(default)  BY <2>5 DEF Asked
        <3> QED BY <3>1, FactsFunctions
    <2> HIDE DEF r, default
    <2>11. CASE UnknownFunctions(default) \cap DOMAIN r = {}
        <3>1. UnknownFunctions(default) \cap Answered \subseteq DOMAIN <<>>
            BY <2>10, <2>11
        <3> QED BY <2>5, <3>1, NoneAsked, UnknownIsUnanswerable DEF default
    <2>12. CASE UnknownFunctions(default) \cap DOMAIN r # {}
        <3>1. ExpressionVolatility(default, r) = "unknown"
            BY <2>5, <2>9, <2>12 DEF DecideDefault
        <3> QED BY <2>5, <2>10, <3>1, UnknownIsUnanswerable DEF default
    <2> QED BY <2>11, <2>12
<1> QED BY <1>1, AlwaysJudges, PTL
===============================================================================
