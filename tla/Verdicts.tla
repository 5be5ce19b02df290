------------------------------ MODULE Verdicts ------------------------------
(***************************************************************************)
(* The pure rules of blastoise's verdict layer: the tiers and how they     *)
(* combine (verdict/model.py), the lock modes and what they block          *)
(* (catalog/model.py, lock_catalog.yaml), and the rules of                 *)
(* verdict/engine.py that turn a lock and a duration into a tier.          *)
(*                                                                         *)
(* A duration is an estimate [point, high, spread] (milliseconds; spread   *)
(* in tenths) or CannotEstimate.  A lock is [rel, mode, certain], its mode *)
(* the level 1..8 Postgres gives it (0 is NONE, 9 is UNKNOWN).             *)
(***************************************************************************)
EXTENDS Integers

CONSTANT CannotEstimate

Tiers == {"SAFE", "SAFE_IRREVERSIBLE", "NEEDS_TIMING", "UNKNOWN", "UNSAFE"}

\* The tiers that clear a statement to run as written.
SafeTiers == {"SAFE", "SAFE_IRREVERSIBLE"}

\* Slip: a part that needs timing outranks one nobody could assess.
CombineRankUnknownLow(t) ==
    CASE t = "SAFE"              -> 0
      [] t = "SAFE_IRREVERSIBLE" -> 1
      [] t = "UNKNOWN"           -> 2
      [] t = "NEEDS_TIMING"      -> 3
      [] t = "UNSAFE"            -> 4

CombineRank(t) ==
    CASE t = "SAFE"              -> 0
      [] t = "SAFE_IRREVERSIBLE" -> 1
      [] t = "NEEDS_TIMING"      -> 2
      [] t = "UNKNOWN"           -> 3
      [] t = "UNSAFE"            -> 4

\* The tier of several parts is the tier of the worst one.
WorseClassification(T) == CHOOSE t \in T : \A u \in T : CombineRank(u) <= CombineRank(t)

-----------------------------------------------------------------------------
AccessShare == 1
RowShare == 2
RowExclusive == 3
ShareUpdateExclusive == 4
Share == 5
ShareRowExclusive == 6
Exclusive == 7
AccessExclusive == 8

TableModes == 1..8

\* The conflict matrix of lock_catalog.yaml, by level.
ConflictMatrix == << {8}, {7, 8}, {5, 6, 7, 8}, 4..8, {3, 4, 6, 7, 8}, 3..8, 2..8, 1..8 >>

\* Lock modes a mode blocks: none for NONE, all for UNKNOWN.
ConflictsWith(mode) ==
    CASE mode \in TableModes -> ConflictMatrix[mode]
      [] mode = 0 -> {}
      [] mode = 9 -> TableModes

\* The strongest thing the certain locks of a row block.
BlockType(locks) ==
    IF \E l \in locks : l.certain /\ AccessShare \in ConflictsWith(l.mode) THEN "reads"
    ELSE IF \E l \in locks : l.certain /\ RowExclusive \in ConflictsWith(l.mode) THEN "writes"
    ELSE "nothing"

-----------------------------------------------------------------------------
ShortMs(block) == IF block = "reads" THEN 2000 ELSE 5000
LongMs(block) == IF block = "reads" THEN 20000 ELSE 60000

OverheadPointMs == 10

\* constant_op_estimate and empty_relation_estimate: 10 ms, at worst 100 ms.
ConstantOp == [point |-> OverheadPointMs, high |-> 100, spread |-> 40]

Band(high, block) ==
    IF high < ShortMs(block) THEN "SAFE"
    ELSE IF high < LongMs(block) THEN "NEEDS_TIMING"
    ELSE "UNSAFE"

\* A threshold inside the strip [point / S, point * S] of an estimate's
\* proportional part, in the integer arithmetic of the code.
Straddles(d, threshold) ==
    LET point == d.point - OverheadPointMs
    IN  /\ point > 0
        /\ (point * 10) \div d.spread < threshold
        /\ threshold <= (point * d.spread) \div 10

BoundaryRefusal(d, block, shortMatters) ==
    \/ Straddles(d, LongMs(block))
    \/ shortMatters /\ Straddles(d, ShortMs(block))

\* Work proportional to rows or bytes under locks: the blocking lock's band,
\* refused when the estimate cannot tell the two sides of a threshold apart.
ProportionalVerdict(locks, d, liveAel) ==
    LET block == BlockType(locks)
        shortMatters == ~(block = "reads" /\ liveAel)
    IN  IF block = "nothing" THEN "SAFE"
        ELSE IF d = CannotEstimate THEN "UNKNOWN"
        ELSE IF BoundaryRefusal(d, block, shortMatters) THEN "UNKNOWN"
        ELSE Band(d.high, block)

ConstantVerdict(locks) == IF BlockType(locks) = "reads" THEN "NEEDS_TIMING" ELSE "SAFE"

\* UPDATE/DELETE with a WHERE clause: bounded by "every row matched".
MatchedDmlVerdict(worst) ==
    IF worst = CannotEstimate THEN "UNKNOWN"
    ELSE IF worst.high < ShortMs("writes") THEN "SAFE"
    ELSE "NEEDS_TIMING"

\* UPDATE/DELETE of every row: timed like a write block.
AllRowsDmlVerdict(d) ==
    IF d = CannotEstimate \/ BoundaryRefusal(d, "writes", TRUE) THEN "UNKNOWN"
    ELSE Band(d.high, "writes")

\* Observed lock traffic lifts a safe tier; only active traffic makes an
\* already-timed statement UNSAFE.
EscalateForContention(tier, observed, active) ==
    IF ~observed \/ tier \in {"UNKNOWN", "UNSAFE"} THEN tier
    ELSE IF tier \in SafeTiers THEN "NEEDS_TIMING"
    ELSE IF active THEN "UNSAFE"
    ELSE tier

\* An existence-guarded statement is NEEDS_TIMING both ways.
CapForGuard(tier) == IF tier = "UNKNOWN" THEN "UNKNOWN" ELSE "NEEDS_TIMING"
=============================================================================
