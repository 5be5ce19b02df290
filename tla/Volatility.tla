------------------------------ MODULE Volatility ------------------------------
(***************************************************************************)
(* volatility.py and live/resolve.py: how far a DEFAULT expression may      *)
(* change between rows, decided from its tree and, for the functions the    *)
(* tool does not know, from pg_proc.  An expression is a record of its      *)
(* construct, the function it calls and its parts, a sequence of            *)
(* expressions of the set Expressions, which is closed under parts.         *)
(***************************************************************************)
EXTENDS Integers, Sequences, Functions

CONSTANTS Expressions,  \* the expression trees of the instance
          Builtins      \* [function name -> volatility] of the three allowlists

Volatilities == {"constant", "immutable", "stable", "unknown", "volatile"}
Rank(v) == CASE v = "constant" -> 0 [] v = "immutable" -> 1 [] v = "stable" -> 2
             [] v = "unknown" -> 3 [] v = "volatile" -> 4

\* A composite is its worst part; no part at all is a constant.
Combine(vs) == CHOOSE v \in vs \cup {"constant"} : \A w \in vs : Rank(w) <= Rank(v)

Known(function) == IF function \in DOMAIN Builtins THEN Builtins[function] ELSE "unknown"

\* The live answer is asked only for a function no list knows.
FunctionVolatility(function, resolved) ==
  IF Known(function) = "unknown" /\ function \in DOMAIN resolved
  THEN resolved[function] ELSE Known(function)

\* The part of the answer that is the construct's own.
OwnVolatility(e, resolved) ==
  CASE e.construct \in {"constant", "null"} -> "constant"
    [] e.construct = "clock" -> "stable"            \* CURRENT_TIMESTAMP and kin
    [] e.construct = "call" -> FunctionVolatility(e.function, resolved)
    [] e.construct = "when" -> "constant"           \* one arm of a CASE
    [] e.construct \in {"operator", "column", "cast", "compound"} -> "immutable"
    [] OTHER -> "unknown"   \* a subquery, an operator no list knows

\* A literal cast is folded while parsing; a deeper one runs per row.
FoldedCast(e) == e.construct = "cast" /\ e.parts[1].construct = "constant"

\* Parts of a construct the walk does not know are not looked at.
WalkedParts(e) ==
  IF FoldedCast(e) \/ e.construct = "subquery" THEN {} ELSE Range(e.parts)

ExpressionVolatility(expression, resolved) ==
  LET Vol[e \in Expressions] ==
        IF FoldedCast(e) THEN "constant"
        ELSE Combine({OwnVolatility(e, resolved)} \cup {Vol[p] : p \in WalkedParts(e)})
  IN Vol[expression]

\* The slip TLC must refute: only the call at the top is asked about.
UnknownFunctionsTop(expression) ==
  IF expression.construct = "call" /\ Known(expression.function) = "unknown"
  THEN {expression.function} ELSE {}

(* unknown_function_keys: the calls of no known volatility, in the parts the *)
(* walk above looks at.  They are what the snapshot is asked.                *)
UnknownFunctions(expression) ==
  LET Found[e \in Expressions] ==
        (IF e.construct = "call" /\ Known(e.function) = "unknown"
         THEN {e.function} ELSE {}) \cup UNION {Found[p] : p \in WalkedParts(e)}
  IN Found[expression]

(* decide_default_volatility: what the tree decided stands; an unknown one   *)
(* is read again with the answers, when there is an answer for it.           *)
DecideDefault(expression, resolved) ==
  LET static == ExpressionVolatility(expression, <<>>) IN
  IF static # "unknown" \/ UnknownFunctions(expression) \cap DOMAIN resolved = {}
  THEN static ELSE ExpressionVolatility(expression, resolved)
===============================================================================
