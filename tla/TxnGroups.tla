----------------------------- MODULE TxnGroups ------------------------------
(***************************************************************************)
(* How the parser groups the statements of a file by transaction           *)
(* (parser.py, _group_transactions).  The engine takes a statement to run  *)
(* in a transaction, and to run under the locks taken before it, by the    *)
(* group it is in.                                                         *)
(*                                                                         *)
(* The parser reads the file once, statement by statement, collecting      *)
(* indices until a boundary makes it flush them into a group.  TxnBlocks   *)
(* is what it has to get right.                                            *)
(***************************************************************************)
EXTENDS Naturals, Sequences, FiniteSets

CONSTANT MaxStatements  \* bound: the length of the file

ASSUME MaxStatementsAssumption == MaxStatements \in Nat

VARIABLES
    kinds,      \* the kinds of the statements read
    groups,     \* the transaction groups so far
    current,    \* the statements of the group being collected
    openedBy,   \* the statement that opened it, or None
    inExplicit, \* it is an explicit transaction
    warnings,   \* the statements warned about
    done        \* the file is read

vars == <<kinds, groups, current, openedBy, inExplicit, warnings, done>>

None == 0
Kinds == [op : {"begin", "other"}, chain : {FALSE}] \cup [op : {"commit", "rollback"}, chain : BOOLEAN]
Indices == 1..Len(kinds)

\* Slip: statements numbered from zero.
IndexFromZero == Len(kinds)

Index == Len(kinds) + 1
Groups == [explicit : BOOLEAN, members : SUBSET (1..MaxStatements),
           openedBy : 0..MaxStatements, closedBy : 0..MaxStatements, rolledBack : BOOLEAN]

Group(closedBy, rolledBack) ==
    [explicit |-> inExplicit, members |-> current, openedBy |-> openedBy,
     closedBy |-> closedBy, rolledBack |-> rolledBack]

\* Slip: an explicit group without statements is not flushed.
FlushedNonEmpty(closedBy, rolledBack) ==
    IF current # {} THEN Append(groups, Group(closedBy, rolledBack)) ELSE groups

\* Slip: only explicit groups are flushed.
FlushedExplicit(closedBy, rolledBack) ==
    IF inExplicit THEN Append(groups, Group(closedBy, rolledBack)) ELSE groups

\* flush: the groups with the one being collected.
Flushed(closedBy, rolledBack) ==
    IF inExplicit \/ current # {} THEN Append(groups, Group(closedBy, rolledBack)) ELSE groups

\* The next statement, of a kind.
Read(kind) ==
    /\ ~done /\ Len(kinds) < MaxStatements
    /\ kinds' = Append(kinds, kind)
    /\ UNCHANGED done

ReadBegin ==
    /\ Read([op |-> "begin", chain |-> FALSE])
    /\ \/ /\ inExplicit
          /\ warnings' = warnings \cup {Index}
          /\ UNCHANGED <<groups, current, openedBy, inExplicit>>
       \/ /\ ~inExplicit
          /\ groups' = Flushed(None, FALSE)
          /\ current' = {}
          /\ openedBy' = Index
          /\ inExplicit' = TRUE
          /\ UNCHANGED warnings

\* Slip: AND CHAIN not followed.
StaysOpenNoChain(chain) == FALSE

\* A chained end starts a new explicit transaction.
StaysOpen(chain) == chain

ReadEnd(op, chain) ==
    /\ Read([op |-> op, chain |-> chain])
    /\ \/ /\ inExplicit
          /\ groups' = Flushed(Index, op = "rollback")
          /\ current' = {}
          /\ inExplicit' = StaysOpen(chain)
          /\ openedBy' = IF StaysOpen(chain) THEN Index ELSE None
          /\ UNCHANGED warnings
       \/ /\ ~inExplicit
          /\ warnings' = warnings \cup {Index}
          /\ UNCHANGED <<groups, current, openedBy, inExplicit>>

ReadOther ==
    /\ Read([op |-> "other", chain |-> FALSE])
    /\ current' = current \cup {Index}
    /\ UNCHANGED <<groups, openedBy, inExplicit, warnings>>

\* The end of the file: an open transaction is warned about, and the last
\* group flushed.
ReadEnds ==
    /\ ~done
    /\ done' = TRUE
    /\ warnings' = IF inExplicit THEN warnings \cup {openedBy} ELSE warnings
    /\ groups' = Flushed(None, FALSE)
    /\ current' = {}
    /\ openedBy' = None
    /\ inExplicit' = FALSE
    /\ UNCHANGED kinds

Init ==
    /\ kinds = <<>> /\ groups = <<>> /\ current = {} /\ openedBy = None
    /\ inExplicit = FALSE /\ warnings = {} /\ done = FALSE

Next ==
    \/ ReadBegin
    \/ \E op \in {"commit", "rollback"}, chain \in BOOLEAN : ReadEnd(op, chain)
    \/ ReadOther
    \/ ReadEnds

Spec == Init /\ [][Next]_vars
-----------------------------------------------------------------------------
(* What the groups say of the session.                                     *)

\* The explicit groups with the one still being collected.
Blocks ==
    {groups[g] : g \in {h \in DOMAIN groups : groups[h].explicit}}
        \cup IF inExplicit THEN {Group(None, FALSE)} ELSE {}

\* explicit_group_of: the explicit group of a statement, by its BEGIN.
BlockOf(i) ==
    IF \E b \in Blocks : i \in b.members
    THEN (CHOOSE b \in Blocks : i \in b.members).openedBy
    ELSE None

BlockOpen ==
    IF \E b \in Blocks : b.closedBy = None
    THEN (CHOOSE b \in Blocks : b.closedBy = None).openedBy
    ELSE None

FateOf(group) ==
    IF group.closedBy = None THEN "open" ELSE IF group.rolledBack THEN "rollback" ELSE "commit"

FateAt(i) ==
    IF \E b \in Blocks : b.openedBy = i
    THEN FateOf(CHOOSE b \in Blocks : b.openedBy = i)
    ELSE "none"

Session ==
    INSTANCE TxnBlocks WITH
        commands <- kinds,
        block <- BlockOpen,
        member <- [i \in Indices |-> BlockOf(i)],
        fate <- [i \in Indices |-> FateAt(i)]

TypeOK ==
    /\ kinds \in Seq(Kinds) /\ Len(kinds) <= MaxStatements
    /\ groups \in Seq(Groups)
    /\ current \subseteq Indices
    /\ openedBy \in {None} \cup Indices
    /\ inExplicit = (openedBy # None)
    /\ warnings \subseteq Indices
    /\ done \in BOOLEAN

\* parser.py, "Group statements by explicit BEGIN/COMMIT/ROLLBACK
\* boundaries": at every statement the groups tell the blocks of the session
\* that runs the file, with the statements each holds and how each ended.
\* Empty blocks, BEGIN in a block and chained ends included.
GroupsFollowSession == Session!SpecBlocks

Collected == {groups[g].members : g \in DOMAIN groups} \cup {current}

\* Every statement that is not a boundary is in exactly one group, the groups
\* run through the file in order, no group beginning before the one before it
\* has ended, and no statement opens two.  The engine's per-group locks rest
\* on it.
EveryStatementOnce ==
    /\ UNION Collected = {i \in Indices : kinds[i].op = "other"}
    /\ \A g, h \in DOMAIN groups : g < h =>
          \A i \in groups[g].members, j \in groups[h].members : i < j
    /\ \A g \in DOMAIN groups : \A i \in groups[g].members, j \in current : i < j
    /\ \A g \in DOMAIN groups : groups[g].explicit =>
          /\ groups[g].openedBy # openedBy
          /\ \A h \in DOMAIN groups : groups[h].openedBy = groups[g].openedBy => h = g

\* The parser warns of exactly the commands Postgres warns of or does
\* nothing for, and of the transaction left open at the end of the file.
WarningsAreReal ==
    warnings =
        {i \in Indices :
            \/ /\ kinds[i].op = "begin"
               /\ \E b \in Blocks : b.openedBy < i /\ (b.closedBy > i \/ b.closedBy = None)
            \/ /\ kinds[i].op \in {"commit", "rollback"}
               /\ \A b \in Blocks : b.closedBy # i
            \/ done /\ \E b \in Blocks : b.closedBy = None /\ b.openedBy = i}
=============================================================================
