------------------------------ MODULE MCEngine ------------------------------
(***************************************************************************)
(* Instances of Engine for TLC: migration files of a few statements over   *)
(* two tables and an index name, each statement built from the catalog     *)
(* row of a real statement form.                                           *)
(***************************************************************************)
EXTENDS Engine

CONSTANTS A, B, I   \* two table names, an index name

Rel(n) == [schema |-> Unqualified, name |-> n]
Lock(n, m) == [rel |-> Rel(n), mode |-> m, certain |-> TRUE]
NoNarrow == [outcome |-> "none", extra |-> {}, conditions |-> FALSE,
             relabel |-> FALSE, rebuild |-> FALSE]
Narrow(o) == [NoNarrow EXCEPT !.outcome = o]

Row(n, m) ==
    [avail |-> TRUE, known |-> TRUE, forbidden |-> FALSE, shape |-> "plain", live |-> FALSE,
     model |-> "constant", locks |-> {Lock(n, m)}, sized |-> Rel(n),
     estimate |-> CannotEstimate, narrow |-> NoNarrow, irreversible |-> FALSE, hidden |-> {}]
LockFree == [Row(A, 0) EXCEPT !.locks = {}, !.sized = Unnamed]
Scan(n, m, d) == [Row(n, m) EXCEPT !.model = "rows", !.estimate = d]
Asked(row, answer) == [row EXCEPT !.live = TRUE, !.narrow = answer]

Stmt(op, rows) ==
    [op |-> op, target |-> Unnamed, targets |-> {}, parents |-> {}, newName |-> "",
     lenient |-> FALSE, chain |-> FALSE, rows |-> rows, inDo |-> FALSE, guarded |-> FALSE,
     opaque |-> FALSE, listed |-> "no"]
On(s, n, list) == [s EXCEPT !.target = Rel(n), !.targets = {Rel(n)}, !.listed = list]
Do(s) == [s EXCEPT !.inDo = TRUE, !.listed = "no"]

\* Estimates on either side of each threshold, and on it: below 2 s; 1.5 s
\* (strip holds 2 s); 3 s at worst; 15 s (strip holds 20 s); 30 s, strip just
\* past 20 s; 60 s (strip holds 60 s); 150 s.
D(p, s) == [point |-> p + 10, high |-> (p * s) \div 10 + 100, spread |-> s]
Durations == {D(100, 15), D(1500, 15), D(1900, 15), D(15000, 15), D(30000, 15), D(60000, 15), D(100000, 15)}

TxnStatements == {Stmt("begin", {LockFree}), Stmt("commit", {LockFree}),
                  [Stmt("commit", {LockFree}) EXCEPT !.chain = TRUE]}

Drop(n) == On(Stmt("drop", {[Row(n, AccessExclusive) EXCEPT !.irreversible = TRUE]}), n, "drops")
Rename(n, m) == [On(Stmt("rename", {Row(n, AccessExclusive)}), n, "references") EXCEPT !.newName = m]
Create(n) == On(Stmt("create", {LockFree}), n, "creates")
Source == [LockFree EXCEPT !.locks = {[rel |-> Unnamed, mode |-> AccessShare, certain |-> TRUE]}]

SchemaChanges(n, m) ==
    { Create(n),
      On(Stmt("create", {[LockFree EXCEPT !.locks = {Lock(m, ShareRowExclusive)}]}), n, "creates"),
      On(Stmt("create_as", {[Source EXCEPT !.shape = "loading_create"]}), n, "creates"),
      Drop(n),
      [Drop(n) EXCEPT !.lenient = TRUE],
      [Drop(n) EXCEPT !.guarded = TRUE, !.inDo = TRUE, !.listed = "no"],
      Rename(n, m),
      On(Stmt("fill", {[Row(n, RowExclusive) EXCEPT !.shape = "insert_select", !.model = "rows_matched"]}),
         n, "references"),
      [On(Stmt("create_index", {Scan(n, Share, D(1900, 15))}), n, "references") EXCEPT !.newName = I] }

\* Statements that only take locks on n; d sizes them, answer narrows them.
TableWork(n, m) ==
    UNION {{ Scan(n, Share, d), Scan(n, AccessExclusive, d),
             [Scan(n, RowExclusive, d) EXCEPT !.shape = "matched_dml"],
             [Scan(n, RowExclusive, d) EXCEPT !.shape = "all_rows_dml"],
             [Scan(n, Share, d) EXCEPT !.model = "index_size"],
             Asked(Scan(n, AccessExclusive, d), Narrow("proportional")) } : d \in Durations}
    \cup { Row(n, ShareUpdateExclusive), Row(n, ShareRowExclusive), Row(n, AccessExclusive),
           [Row(n, AccessShare) EXCEPT !.shape = "read"],
           [Row(n, AccessExclusive) EXCEPT !.locks = {[rel |-> Unnamed, mode |-> AccessExclusive, certain |-> TRUE]}],
           [Scan(n, ShareUpdateExclusive, D(15000, 15)) EXCEPT !.forbidden = TRUE],
           [Row(n, AccessExclusive) EXCEPT !.avail = FALSE],
           [Row(n, AccessExclusive) EXCEPT !.known = FALSE],
           [Row(n, RowExclusive) EXCEPT !.model = "rows_matched"],
           Asked(Scan(n, AccessExclusive, D(100000, 15)), NoNarrow),
           Asked(Scan(n, AccessExclusive, D(100000, 15)), Narrow("unresolved")),
           Asked(Scan(n, AccessExclusive, D(100000, 15)), Narrow("keep_model")),
           Asked(Scan(n, AccessExclusive, D(100000, 15)), [Narrow("constant") EXCEPT !.relabel = TRUE]),
           Asked(Scan(n, AccessExclusive, D(100000, 15)), [Narrow("proportional") EXCEPT !.conditions = TRUE]),
           Asked(Scan(n, AccessExclusive, D(100, 15)), [Narrow("proportional") EXCEPT !.rebuild = TRUE]),
           Asked(Scan(n, ShareUpdateExclusive, D(100000, 15)),
                 [Narrow("proportional") EXCEPT !.extra = {[rel |-> [schema |-> DefaultSchema, name |-> m],
                                                            mode |-> RowShare, certain |-> TRUE]}]),
           Asked(Row(n, AccessExclusive),
                 [Narrow("constant") EXCEPT !.extra = {[rel |-> [schema |-> DefaultSchema, name |-> m],
                                                        mode |-> AccessExclusive, certain |-> TRUE]}]) }

\* One-row statements, two-row ALTER TABLEs, and the DO blocks of a few.
LockStatements(n, m) ==
    {On(Stmt("other", {row}), n, "references") : row \in TableWork(n, m)}
    \cup {On(Stmt("other", {row, Row(n, AccessExclusive)}), n, "references") :
             row \in {Scan(n, ShareRowExclusive, d) : d \in Durations}}
    \cup { [Do(On(Stmt("other", {row}), n, "no")) EXCEPT !.guarded = TRUE] :
             row \in {Row(n, AccessExclusive), Scan(n, AccessExclusive, D(100000, 15)),
                      [Row(n, RowExclusive) EXCEPT !.model = "rows_matched"]} }
    \cup { [Do(On(Stmt("other", {row}), n, "no")) EXCEPT !.opaque = TRUE] :
             row \in {Row(n, ShareUpdateExclusive),
                      [Row(n, ShareUpdateExclusive) EXCEPT !.forbidden = TRUE]} }

PlainStatements ==
    TxnStatements
    \cup SchemaChanges(A, B) \cup SchemaChanges(B, A)
    \cup LockStatements(A, B)
    \cup {Do(Stmt("other", {})), On(Stmt("create_other", {LockFree}), B, "creates")}

ASSUME PlainAssumption == \A s \in PlainStatements : Plain(s)

-----------------------------------------------------------------------------
Real0(n) == [schema |-> DefaultSchema, name |-> n]
Waiter(n, m, idle) == [rel |-> Real0(n), modes |-> {m}, idle |-> idle]
Online(w) == [online |-> TRUE, captured |-> {Real0(A), Real0(B)}, waiters |-> w]

Offline == [online |-> FALSE, captured |-> {}, waiters |-> {}]

MCSnapshots ==
    { Offline, Online({}), [Online({}) EXCEPT !.captured = {Real0(A)}],
      Online({Waiter(A, RowExclusive, FALSE)}),
      Online({Waiter(A, AccessShare, TRUE)}),
      Online({Waiter(B, AccessExclusive, FALSE), Waiter(A, Share, TRUE)}) }

-----------------------------------------------------------------------------
(* Files that are not plain.                                               *)

\* A table the database already has, created IF NOT EXISTS and then altered.
IfNotExistsStatements ==
    { [Create(A) EXCEPT !.lenient = TRUE], Create(B), Rename(A, B), Rename(B, A), Drop(B),
      On(Stmt("other", {Row(A, AccessExclusive)}), A, "references"),
      On(Stmt("other", {Row(B, AccessExclusive)}), B, "references") }

\* The same table work on a name probe_name quotes.
QuotedStatements ==
    {On(Stmt("other", {row}), A, "references") :
        row \in {Scan(A, Share, D(100, 15)), Scan(A, ShareRowExclusive, D(100, 15)), Row(A, ShareUpdateExclusive)}}
    \cup {Create(B), Drop(B)}
=============================================================================
