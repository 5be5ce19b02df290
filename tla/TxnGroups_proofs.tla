--------------------------- MODULE TxnGroups_proofs ---------------------------
(***************************************************************************)
(* Proofs about TxnGroups, for files of every length.                      *)
(***************************************************************************)
EXTENDS TxnGroups, SequenceTheorems, TLAPS

(***************************************************************************)
(* A flush appends the group being collected, or there is none.            *)
(***************************************************************************)
LEMMA FlushedIs ==
    ASSUME TypeOK, NEW c \in {None} \cup 1..MaxStatements, NEW r \in BOOLEAN
    PROVE  /\ Flushed(c, r) \in Seq(Groups)
           /\ \/ Flushed(c, r) = Append(groups, Group(c, r))
              \/ Flushed(c, r) = groups /\ current = {}
<1>1. Indices \subseteq 1..MaxStatements
    BY MaxStatementsAssumption DEF TypeOK, Indices
<1>2. Group(c, r) \in Groups
    <2>1. current \in SUBSET (1..MaxStatements)  BY <1>1 DEF TypeOK
    <2>2. openedBy \in 0..MaxStatements  BY <1>1, MaxStatementsAssumption DEF TypeOK, None
    <2>3. inExplicit \in BOOLEAN  BY DEF TypeOK
    <2>4. c \in 0..MaxStatements  BY MaxStatementsAssumption DEF None
    <2> QED BY <2>1, <2>2, <2>3, <2>4 DEF Group, Groups
<1>3. groups \in Seq(Groups)  BY DEF TypeOK
<1>4. Append(groups, Group(c, r)) \in Seq(Groups)  BY <1>2, <1>3
<1> QED BY <1>3, <1>4 DEF Flushed

LEMMA ReadGrows ==
    ASSUME TypeOK, NEW kind \in Kinds, Read(kind)
    PROVE  /\ kinds' \in Seq(Kinds) /\ Len(kinds') <= MaxStatements
           /\ Indices' = Indices \cup {Index}
           /\ Index \in 1..MaxStatements /\ Index \notin Indices
           /\ \A i \in Indices : i < Index /\ kinds'[i] = kinds[i]
           /\ kinds'[Index] = kind
           /\ ~done /\ ~done'
BY MaxStatementsAssumption DEF TypeOK, Read, Indices, Index

(***************************************************************************)
(* Every action keeps the types.                                           *)
(***************************************************************************)
LEMMA TypeStep ==
    ASSUME TypeOK, [Next]_vars
    PROVE  TypeOK'
<1>0. /\ kinds \in Seq(Kinds) /\ Len(kinds) <= MaxStatements /\ groups \in Seq(Groups)
      /\ current \subseteq Indices /\ openedBy \in {None} \cup Indices
      /\ inExplicit = (openedBy # None) /\ warnings \subseteq Indices /\ done \in BOOLEAN
    BY DEF TypeOK
<1>1. CASE ReadBegin
    <2> DEFINE kind == [op |-> "begin", chain |-> FALSE]
    <2>1. kind \in Kinds /\ Read(kind)  BY <1>1 DEF ReadBegin, Kinds
    <2>2. /\ Index \in 1..MaxStatements /\ Indices' = Indices \cup {Index}
          /\ kinds' \in Seq(Kinds) /\ Len(kinds') <= MaxStatements
        BY <2>1, ReadGrows
    <2>3. groups' \in Seq(Groups)
        <3>1. Flushed(None, FALSE) \in Seq(Groups)  BY FlushedIs
        <3> QED BY <1>0, <1>1, <3>1 DEF ReadBegin
    <2>4. openedBy' \in {None} \cup Indices' /\ inExplicit' = (openedBy' # None)
        <3>1. Index # None  BY <2>2, MaxStatementsAssumption DEF None
        <3>2. CASE inExplicit  BY <1>0, <1>1, <2>2, <3>2 DEF ReadBegin
        <3>3. CASE ~inExplicit  BY <1>1, <2>2, <3>1, <3>3 DEF ReadBegin
        <3> QED BY <3>2, <3>3
    <2>5. current' \subseteq Indices' /\ warnings' \subseteq Indices' /\ done' \in BOOLEAN
        BY <1>0, <1>1, <2>1, <2>2 DEF ReadBegin, Read
    <2> QED BY <2>2, <2>3, <2>4, <2>5 DEF TypeOK
<1>2. ASSUME NEW op \in {"commit", "rollback"}, NEW chain \in BOOLEAN, ReadEnd(op, chain)
      PROVE  TypeOK'
    <2> DEFINE kind == [op |-> op, chain |-> chain]
    <2>1. kind \in Kinds /\ Read(kind)  BY <1>2 DEF ReadEnd, Kinds
    <2>2. /\ Index \in 1..MaxStatements /\ Indices' = Indices \cup {Index}
          /\ kinds' \in Seq(Kinds) /\ Len(kinds') <= MaxStatements
        BY <2>1, ReadGrows
    <2>3. groups' \in Seq(Groups)
        <3>1. Flushed(Index, op = "rollback") \in Seq(Groups)  BY <2>2, FlushedIs
        <3> QED BY <1>0, <1>2, <3>1 DEF ReadEnd
    <2>4. openedBy' \in {None} \cup Indices' /\ inExplicit' = (openedBy' # None)
        <3>1. Index # None  BY <2>2, MaxStatementsAssumption DEF None
        <3>2. CASE ~inExplicit  BY <1>0, <1>2, <2>2, <3>2 DEF ReadEnd
        <3>3. CASE inExplicit /\ chain  BY <1>2, <2>2, <3>1, <3>3 DEF ReadEnd, StaysOpen
        <3>4. CASE inExplicit /\ ~chain  BY <1>2, <2>2, <3>1, <3>4 DEF ReadEnd, StaysOpen
        <3> QED BY <3>2, <3>3, <3>4
    <2>5. current' \subseteq Indices' /\ warnings' \subseteq Indices' /\ done' \in BOOLEAN
        BY <1>0, <1>2, <2>1, <2>2 DEF ReadEnd, Read
    <2> QED BY <2>2, <2>3, <2>4, <2>5 DEF TypeOK
<1>3. CASE ReadOther
    <2> DEFINE kind == [op |-> "other", chain |-> FALSE]
    <2>1. kind \in Kinds /\ Read(kind)  BY <1>3 DEF ReadOther, Kinds
    <2>2. /\ Indices' = Indices \cup {Index}
          /\ kinds' \in Seq(Kinds) /\ Len(kinds') <= MaxStatements
        BY <2>1, ReadGrows
    <2>3. /\ current' = current \cup {Index} /\ groups' = groups /\ openedBy' = openedBy
          /\ inExplicit' = inExplicit /\ warnings' = warnings /\ done' = done
        BY <1>3 DEF ReadOther, Read
    <2> QED BY <1>0, <2>2, <2>3 DEF TypeOK
<1>4. CASE ReadEnds
    <2>1. groups' \in Seq(Groups)  BY <1>4, FlushedIs DEF ReadEnds
    <2>2. kinds' = kinds /\ Indices' = Indices  BY <1>4 DEF ReadEnds, Indices
    <2>3. openedBy' = None /\ inExplicit' = FALSE /\ current' = {} /\ done' = TRUE
        BY <1>4 DEF ReadEnds
    <2>4. warnings' \subseteq Indices'
        <3>1. CASE inExplicit  BY <1>0, <1>4, <2>2, <3>1 DEF ReadEnds
        <3>2. CASE ~inExplicit  BY <1>0, <1>4, <2>2, <3>2 DEF ReadEnds
        <3> QED BY <3>1, <3>2
    <2> QED BY <1>0, <2>1, <2>2, <2>3, <2>4 DEF TypeOK
<1>5. CASE UNCHANGED vars
    BY <1>5 DEF vars, TypeOK, Indices
<1> QED BY <1>1, <1>2, <1>3, <1>4, <1>5 DEF Next

(***************************************************************************)
(* The parts of EveryStatementOnce, over any groups and any collection.    *)
(***************************************************************************)
Statements(gs, c) == UNION ({gs[g].members : g \in DOMAIN gs} \cup {c})
InOrder(gs, c) ==
    /\ \A g, h \in DOMAIN gs : g < h =>
          \A i \in gs[g].members, j \in gs[h].members : i < j
    /\ \A g \in DOMAIN gs : \A i \in gs[g].members, j \in c : i < j
Opened(gs, o) ==
    \A g \in DOMAIN gs : gs[g].explicit =>
        /\ gs[g].openedBy # o
        /\ \A h \in DOMAIN gs : gs[h].openedBy = gs[g].openedBy => h = g

LEMMA OnceIs ==
    EveryStatementOnce <=>
        /\ Statements(groups, current) = {i \in Indices : kinds[i].op = "other"}
        /\ InOrder(groups, current)
        /\ Opened(groups, openedBy)
BY DEF EveryStatementOnce, Collected, Statements, InOrder, Opened

LEMMA OnceNextIs ==
    EveryStatementOnce' <=>
        /\ Statements(groups', current') = {i \in Indices' : kinds'[i].op = "other"}
        /\ InOrder(groups', current')
        /\ Opened(groups', openedBy')
BY DEF EveryStatementOnce, Collected, Statements, InOrder, Opened

(***************************************************************************)
(* The explicit groups are those that a statement of the file opened.      *)
(***************************************************************************)
Openers(gs, n) ==
    \A g \in DOMAIN gs :
        /\ gs[g].explicit <=> gs[g].openedBy # None
        /\ gs[g].openedBy \in 0..n
OpenersKnown == Openers(groups, Len(kinds))

(***************************************************************************)
(* A flush moves the statements collected behind the groups there are, and *)
(* leaves none collected.                                                  *)
(***************************************************************************)
LEMMA FlushKeeps ==
    ASSUME TypeOK, InOrder(groups, current),
           NEW c \in {None} \cup 1..MaxStatements, NEW r \in BOOLEAN
    PROVE  /\ Statements(Flushed(c, r), {}) = Statements(groups, current)
           /\ InOrder(Flushed(c, r), {})
<1>1. CASE Flushed(c, r) = groups /\ current = {}
    BY <1>1
<1>2. CASE Flushed(c, r) = Append(groups, Group(c, r))
    <2> DEFINE after == Flushed(c, r)
    <2>1. groups \in Seq(Groups) /\ Group(c, r).members = current
        BY DEF TypeOK, Group
    <2>2. /\ DOMAIN after = DOMAIN groups \cup {Len(groups) + 1}
          /\ DOMAIN groups = 1..Len(groups) /\ Len(groups) \in Nat
          /\ \A g \in DOMAIN groups : after[g] = groups[g]
          /\ after[Len(groups) + 1].members = current
        BY <1>2, <2>1
    <2> HIDE DEF after
    <2>3. Statements(after, {}) = Statements(groups, current)
        BY <2>2 DEF Statements
    <2>4. InOrder(after, {})
        <3> SUFFICES ASSUME NEW g \in DOMAIN after, NEW h \in DOMAIN after, g < h,
                            NEW i \in after[g].members, NEW j \in after[h].members
                     PROVE  i < j
            BY DEF InOrder
        <3>1. g \in DOMAIN groups  BY <2>2
        <3>2. CASE h \in DOMAIN groups  BY <3>1, <3>2, <2>2 DEF InOrder
        <3>3. CASE h = Len(groups) + 1  BY <3>1, <3>3, <2>2 DEF InOrder
        <3> QED BY <3>2, <3>3, <2>2
    <2> QED BY <2>3, <2>4 DEF after
<1> QED BY <1>1, <1>2, FlushedIs

(***************************************************************************)
(* A flush adds a group that was opened where none of the others was, and  *)
(* the next one is opened elsewhere again.                                 *)
(***************************************************************************)
LEMMA FlushOpens ==
    ASSUME TypeOK, OpenersKnown, Opened(groups, openedBy),
           NEW c \in {None} \cup 1..MaxStatements, NEW r \in BOOLEAN,
           NEW n \in Nat, Len(kinds) <= n, NEW o \in {None, Index}
    PROVE  Opened(Flushed(c, r), o) /\ Openers(Flushed(c, r), n)
<1>1. /\ groups \in Seq(Groups) /\ Len(kinds) \in Nat /\ openedBy \in 0..Len(kinds)
      /\ inExplicit = (openedBy # None) /\ Index = Len(kinds) + 1 /\ None = 0
    BY DEF TypeOK, None, Indices, Index
<1>2. \A g \in DOMAIN groups :
          /\ groups[g].openedBy \in 0..Len(kinds)
          /\ groups[g].explicit <=> groups[g].openedBy # None
    BY DEF OpenersKnown, Openers
<1>3. \A m \in 0..Len(kinds) : m # Index /\ m \in 0..n  BY <1>1
<1>4. CASE Flushed(c, r) = groups
    BY <1>1, <1>2, <1>3, <1>4 DEF Opened, Openers
<1>5. CASE Flushed(c, r) = Append(groups, Group(c, r))
    <2> DEFINE after == Flushed(c, r)
               last == Len(groups) + 1
    <2>1. /\ DOMAIN after = DOMAIN groups \cup {last}
          /\ last \notin DOMAIN groups
          /\ \A g \in DOMAIN groups : after[g] = groups[g]
          /\ after[last] = Group(c, r)
        BY <1>1, <1>5
    <2>2. /\ DOMAIN after = DOMAIN groups \cup {last}
          /\ last \notin DOMAIN groups
          /\ \A g \in DOMAIN groups : after[g] = groups[g]
          /\ after[last].openedBy = openedBy /\ (after[last].explicit <=> openedBy # None)
        <3>1. Group(c, r).openedBy = openedBy /\ Group(c, r).explicit = (openedBy # None)
            BY <1>1 DEF Group
        <3> QED BY <2>1, <3>1
    <2> HIDE DEF after, last
    <2>3. Openers(after, n)  BY <1>1, <1>2, <1>3, <2>2 DEF Openers
    <2>4. ASSUME NEW g \in DOMAIN after, after[g].explicit
          PROVE  /\ after[g].openedBy # o
                 /\ \A h \in DOMAIN after : after[h].openedBy = after[g].openedBy => h = g
        <3>1. after[g].openedBy # o  BY <1>1, <1>2, <1>3, <2>2, <2>4
        <3>2. CASE g = last
            <4>1. \A h \in DOMAIN groups : groups[h].openedBy # openedBy
                BY <1>1, <1>2, <2>2, <2>4, <3>2 DEF Opened
            <4> QED BY <2>2, <3>1, <3>2, <4>1
        <3>3. CASE g \in DOMAIN groups
            <4>1. groups[g].explicit  BY <2>2, <2>4, <3>3
            <4>2. /\ groups[g].openedBy # openedBy
                  /\ \A h \in DOMAIN groups : groups[h].openedBy = groups[g].openedBy => h = g
                BY <3>3, <4>1 DEF Opened
            <4> QED BY <2>2, <3>1, <3>3, <4>2
        <3> QED BY <2>2, <3>2, <3>3
    <2> QED BY <2>3, <2>4 DEF Opened, after
<1> QED BY <1>4, <1>5, FlushedIs

LEMMA OpensStep ==
    ASSUME TypeOK, OpenersKnown, Opened(groups, openedBy), [Next]_vars
    PROVE  Opened(groups', openedBy') /\ OpenersKnown'
<1>1. Len(kinds) \in Nat /\ openedBy \in 0..Len(kinds) /\ None = 0
    BY DEF TypeOK, None, Indices
<1>2. ASSUME groups' = groups, openedBy' = openedBy, Len(kinds') \in Nat, Len(kinds) <= Len(kinds')
      PROVE  Opened(groups', openedBy') /\ OpenersKnown'
    BY <1>1, <1>2 DEF OpenersKnown, Openers
<1>3. ASSUME NEW c \in {None} \cup 1..MaxStatements, NEW r \in BOOLEAN,
             groups' = Flushed(c, r), openedBy' \in {None, Index},
             Len(kinds') \in Nat, Len(kinds) <= Len(kinds')
      PROVE  Opened(groups', openedBy') /\ OpenersKnown'
    BY <1>3, FlushOpens DEF OpenersKnown
<1>4. ASSUME NEW kind \in Kinds, Read(kind)
      PROVE  Len(kinds') \in Nat /\ Len(kinds) <= Len(kinds') /\ Index \in 1..MaxStatements
    BY <1>1, <1>4, ReadGrows DEF Read, TypeOK
<1>5. CASE ReadBegin
    <2>1. [op |-> "begin", chain |-> FALSE] \in Kinds  BY DEF Kinds
    <2>2. Len(kinds') \in Nat /\ Len(kinds) <= Len(kinds')  BY <1>4, <1>5, <2>1 DEF ReadBegin
    <2>3. \/ groups' = groups /\ openedBy' = openedBy
          \/ groups' = Flushed(None, FALSE) /\ openedBy' = Index
        BY <1>5 DEF ReadBegin
    <2> QED BY <1>2, <1>3, <2>2, <2>3
<1>6. ASSUME NEW op \in {"commit", "rollback"}, NEW chain \in BOOLEAN, ReadEnd(op, chain)
      PROVE  Opened(groups', openedBy') /\ OpenersKnown'
    <2>1. [op |-> op, chain |-> chain] \in Kinds  BY DEF Kinds
    <2>2. Len(kinds') \in Nat /\ Len(kinds) <= Len(kinds') /\ Index \in 1..MaxStatements
        BY <1>4, <1>6, <2>1 DEF ReadEnd
    <2>3. \/ groups' = groups /\ openedBy' = openedBy
          \/ groups' = Flushed(Index, op = "rollback") /\ openedBy' \in {None, Index}
        BY <1>6 DEF ReadEnd
    <2> QED BY <1>2, <1>3, <2>2, <2>3
<1>7. CASE ReadOther
    <2>1. [op |-> "other", chain |-> FALSE] \in Kinds  BY DEF Kinds
    <2> QED BY <1>2, <1>4, <1>7, <2>1 DEF ReadOther
<1>8. CASE ReadEnds
    <2>1. Len(kinds') \in Nat /\ Len(kinds) <= Len(kinds')  BY <1>1, <1>8 DEF ReadEnds
    <2> QED BY <1>3, <1>8, <2>1 DEF ReadEnds
<1>9. CASE UNCHANGED vars
    BY <1>1, <1>2, <1>9 DEF vars
<1> QED BY <1>5, <1>6, <1>7, <1>8, <1>9 DEF Next

(***************************************************************************)
(* Each action: a boundary flushes or does nothing, another statement is   *)
(* collected behind all that came before.                                  *)
(***************************************************************************)
LEMMA OnceStep ==
    ASSUME TypeOK, OpenersKnown, EveryStatementOnce, [Next]_vars
    PROVE  EveryStatementOnce' /\ OpenersKnown'
<1>0. /\ InOrder(groups, current)
      /\ Opened(groups', openedBy') /\ OpenersKnown'
    BY OnceIs, OpensStep
<1>1. CASE ReadBegin
    <2> DEFINE kind == [op |-> "begin", chain |-> FALSE]
    <2>1. kind \in Kinds /\ Read(kind)  BY <1>1 DEF ReadBegin, Kinds
    <2>2. {i \in Indices' : kinds'[i].op = "other"} = {i \in Indices : kinds[i].op = "other"}
        BY <2>1, ReadGrows
    <2>3. \/ groups' = groups /\ current' = current
          \/ groups' = Flushed(None, FALSE) /\ current' = {}
        BY <1>1 DEF ReadBegin
    <2> QED BY <1>0, <2>2, <2>3, FlushKeeps, OnceIs, OnceNextIs
<1>2. ASSUME NEW op \in {"commit", "rollback"}, NEW chain \in BOOLEAN, ReadEnd(op, chain)
      PROVE  EveryStatementOnce' /\ OpenersKnown'
    <2> DEFINE kind == [op |-> op, chain |-> chain]
    <2>1. kind \in Kinds /\ Read(kind)  BY <1>2 DEF ReadEnd, Kinds
    <2>2. {i \in Indices' : kinds'[i].op = "other"} = {i \in Indices : kinds[i].op = "other"}
        BY <2>1, ReadGrows
    <2>3. \/ groups' = groups /\ current' = current
          \/ groups' = Flushed(Index, op = "rollback") /\ current' = {}
        BY <1>2 DEF ReadEnd
    <2>4. Index \in 1..MaxStatements  BY <2>1, ReadGrows
    <2> QED BY <1>0, <2>2, <2>3, <2>4, FlushKeeps, OnceIs, OnceNextIs
<1>3. CASE ReadOther
    <2> DEFINE kind == [op |-> "other", chain |-> FALSE]
    <2>1. kind \in Kinds /\ Read(kind)  BY <1>3 DEF ReadOther, Kinds
    <2>2. {i \in Indices' : kinds'[i].op = "other"}
              = {i \in Indices : kinds[i].op = "other"} \cup {Index}
        BY <2>1, ReadGrows
    <2>3. groups' = groups /\ current' = current \cup {Index}  BY <1>3 DEF ReadOther
    <2>4. Statements(groups', current') = Statements(groups, current) \cup {Index}
        BY <2>3 DEF Statements
    <2>5. \A g \in DOMAIN groups : \A i \in groups[g].members : i < Index
        <3>1. Statements(groups, current) \subseteq Indices  BY OnceIs
        <3>2. \A g \in DOMAIN groups : groups[g].members \subseteq Indices
            BY <3>1 DEF Statements
        <3> QED BY <3>2, <2>1, ReadGrows
    <2>6. InOrder(groups', current')  BY <1>0, <2>3, <2>5 DEF InOrder
    <2> QED BY <1>0, <2>2, <2>4, <2>6, OnceIs, OnceNextIs
<1>4. CASE ReadEnds
    <2>1. groups' = Flushed(None, FALSE) /\ current' = {} /\ kinds' = kinds
        BY <1>4 DEF ReadEnds
    <2>2. Indices' = Indices  BY <2>1 DEF Indices
    <2> QED BY <1>0, <2>1, <2>2, FlushKeeps, OnceIs, OnceNextIs
<1>5. CASE UNCHANGED vars
    <2>1. kinds' = kinds /\ groups' = groups /\ current' = current  BY <1>5 DEF vars
    <2>2. Indices' = Indices  BY <2>1 DEF Indices
    <2> QED BY <1>0, <2>1, <2>2, OnceIs, OnceNextIs
<1> QED BY <1>1, <1>2, <1>3, <1>4, <1>5 DEF Next

(***************************************************************************)
(* For files of every length the parser's variables keep their types       *)
(* (parser.py, _group_transactions).                                       *)
(***************************************************************************)
THEOREM GroupsTyped == Spec => []TypeOK
<1>1. Init => TypeOK
    <2> SUFFICES ASSUME Init PROVE TypeOK  OBVIOUS
    <2>1. kinds \in Seq(Kinds) /\ Len(kinds) = 0 /\ groups \in Seq(Groups)
        BY EmptySeq DEF Init
    <2>2. inExplicit = (openedBy # None)  BY DEF Init
    <2>3. Len(kinds) <= MaxStatements  BY <2>1, MaxStatementsAssumption
    <2>4. current = {} /\ openedBy = None /\ warnings = {} /\ done = FALSE  BY DEF Init
    <2> QED BY <2>1, <2>2, <2>3, <2>4 DEF TypeOK
<1>2. TypeOK /\ [Next]_vars => TypeOK'  BY TypeStep
<1> QED BY <1>1, <1>2, PTL DEF Spec

(***************************************************************************)
(* For files of every length each statement that is no boundary is in      *)
(* exactly one group, the groups follow one another through the file, and  *)
(* no two are opened by one statement.                                     *)
(***************************************************************************)
THEOREM StatementsGroupedOnce == Spec => []EveryStatementOnce
<1>1. Init => EveryStatementOnce /\ OpenersKnown
    BY DEF Init, EveryStatementOnce, Collected, Indices, OpenersKnown, Openers
<1>2. TypeOK /\ EveryStatementOnce /\ OpenersKnown /\ [Next]_vars
          => EveryStatementOnce' /\ OpenersKnown'
    BY OnceStep
<1> QED BY <1>1, <1>2, GroupsTyped, PTL DEF Spec

-----------------------------------------------------------------------------
(***************************************************************************)
(* The blocks the groups stand for, as the engine looks them up.           *)
(***************************************************************************)
BlockIn(bs, i) ==
    IF \E b \in bs : i \in b.members THEN (CHOOSE b \in bs : i \in b.members).openedBy ELSE None
OpenIn(bs) ==
    IF \E b \in bs : b.closedBy = None THEN (CHOOSE b \in bs : b.closedBy = None).openedBy ELSE None
FateIn(bs, i) ==
    IF \E b \in bs : b.openedBy = i THEN FateOf(CHOOSE b \in bs : b.openedBy = i) ELSE "none"

(* Each statement opens one block and is in one, and one block is open. *)
Apart(bs) ==
    \A b, c \in bs :
        \/ b.openedBy = c.openedBy
        \/ b.closedBy = None /\ c.closedBy = None
        \/ b.members \cap c.members # {}
        => b = c

LEMMA LookedUp ==
    ASSUME NEW bs, Apart(bs)
    PROVE  /\ \A b \in bs : \A i \in b.members : BlockIn(bs, i) = b.openedBy
           /\ \A i : (\A b \in bs : i \notin b.members) => BlockIn(bs, i) = None
           /\ \A b \in bs : b.closedBy = None => OpenIn(bs) = b.openedBy
           /\ (\A b \in bs : b.closedBy # None) => OpenIn(bs) = None
           /\ \A b \in bs : FateIn(bs, b.openedBy) = FateOf(b)
           /\ \A i : (\A b \in bs : b.openedBy # i) => FateIn(bs, i) = "none"
<1>1. ASSUME NEW b \in bs, NEW i \in b.members PROVE BlockIn(bs, i) = b.openedBy
    <2> DEFINE c == CHOOSE c \in bs : i \in c.members
    <2>1. c \in bs /\ i \in c.members  BY <1>1
    <2> HIDE DEF c
    <2>2. c = b  BY <2>1, <1>1 DEF Apart
    <2> QED BY <1>1, <2>2 DEF BlockIn, c
<1>2. ASSUME NEW b \in bs, b.closedBy = None PROVE OpenIn(bs) = b.openedBy
    <2> DEFINE c == CHOOSE c \in bs : c.closedBy = None
    <2>1. c \in bs /\ c.closedBy = None  BY <1>2
    <2> HIDE DEF c
    <2>2. c = b  BY <2>1, <1>2 DEF Apart
    <2> QED BY <1>2, <2>2 DEF OpenIn, c
<1>3. ASSUME NEW b \in bs PROVE FateIn(bs, b.openedBy) = FateOf(b)
    <2> DEFINE c == CHOOSE c \in bs : c.openedBy = b.openedBy
    <2>1. c \in bs /\ c.openedBy = b.openedBy  BY <1>3
    <2> HIDE DEF c
    <2>2. c = b  BY <2>1, <1>3 DEF Apart
    <2> QED BY <1>3, <2>2 DEF FateIn, c
<1> QED BY <1>1, <1>2, <1>3 DEF BlockIn, OpenIn, FateIn

Explicit(gs) == {gs[g] : g \in {h \in DOMAIN gs : gs[h].explicit}}

Block(members, opened, closed, rolledBack) ==
    [explicit |-> TRUE, members |-> members, openedBy |-> opened, closedBy |-> closed,
     rolledBack |-> rolledBack]

LEMMA BlocksAre ==
    ASSUME TypeOK
    PROVE  Blocks = Explicit(groups) \cup
                 IF inExplicit THEN {Block(current, openedBy, None, FALSE)} ELSE {}
<1>1. inExplicit \in BOOLEAN  BY DEF TypeOK
<1>2. CASE inExplicit = TRUE  BY <1>2 DEF Blocks, Explicit, Block, Group
<1>3. CASE inExplicit = FALSE  BY <1>3 DEF Blocks, Explicit
<1> QED BY <1>1, <1>2, <1>3

LEMMA FlushBlocks ==
    ASSUME TypeOK, NEW c \in {None} \cup 1..MaxStatements, NEW r \in BOOLEAN
    PROVE  Explicit(Flushed(c, r)) =
               Explicit(groups) \cup IF inExplicit THEN {Block(current, openedBy, c, r)} ELSE {}
<1>1. groups \in Seq(Groups) /\ inExplicit \in BOOLEAN  BY DEF TypeOK
<1>2. CASE ~inExplicit /\ current = {}
    BY <1>2 DEF Flushed
<1>3. CASE Flushed(c, r) = Append(groups, Group(c, r))
    <2> DEFINE after == Append(groups, Group(c, r))
               last == Len(groups) + 1
    <2>1. /\ DOMAIN after = DOMAIN groups \cup {last} /\ last \notin DOMAIN groups
          /\ \A g \in DOMAIN groups : after[g] = groups[g]
          /\ after[last] = Group(c, r)
        BY <1>1
    <2> HIDE DEF after, last
    <2>2. CASE inExplicit = TRUE
        <3>1. Group(c, r) = Block(current, openedBy, c, r) /\ Group(c, r).explicit
            BY <2>2 DEF Group, Block
        <3>2. Explicit(after) = Explicit(groups) \cup {Group(c, r)}  BY <2>1, <3>1 DEF Explicit
        <3> QED BY <1>3, <2>2, <3>1, <3>2 DEF after
    <2>3. CASE inExplicit = FALSE
        <3>1. ~ Group(c, r).explicit  BY <2>3 DEF Group
        <3>2. Explicit(after) = Explicit(groups)  BY <2>1, <3>1 DEF Explicit
        <3> QED BY <1>3, <2>3, <3>2 DEF after
    <2> QED BY <1>1, <2>2, <2>3
<1> QED BY <1>2, <1>3 DEF Flushed

(***************************************************************************)
(* What a statement does to the blocks: nothing, or it begins one, ends    *)
(* the open one or is run in it.                                           *)
(***************************************************************************)
Now == Block(current, openedBy, None, FALSE)

Ignored ==
    /\ Blocks' = Blocks /\ Explicit(groups') = Explicit(groups)
    /\ UNCHANGED <<inExplicit, openedBy>>
Begun ==
    /\ ~inExplicit /\ inExplicit' /\ openedBy' = Index
    /\ Explicit(groups') = Explicit(groups) /\ Blocks = Explicit(groups)
    /\ Blocks' = Explicit(groups) \cup {Block({}, Index, None, FALSE)}
Ended(how, chain) ==
    /\ inExplicit /\ Blocks = Explicit(groups) \cup {Now}
    /\ Explicit(groups') = Explicit(groups) \cup {Block(current, openedBy, Index, how = "rollback")}
    /\ inExplicit' = chain
    /\ \/ chain /\ openedBy' = Index
          /\ Blocks' = Explicit(groups') \cup {Block({}, Index, None, FALSE)}
       \/ ~chain /\ Blocks' = Explicit(groups')
Ran ==
    /\ inExplicit /\ Blocks = Explicit(groups) \cup {Now}
    /\ UNCHANGED <<inExplicit, openedBy>>
    /\ Explicit(groups') = Explicit(groups)
    /\ Blocks' = Explicit(groups) \cup {Block(current \cup {Index}, openedBy, None, FALSE)}

LEMMA BlocksNextAre ==
    ASSUME TypeOK'
    PROVE  Blocks' = Explicit(groups') \cup
                 IF inExplicit' THEN {Block(current', openedBy', None, FALSE)} ELSE {}
<1>1. inExplicit' \in BOOLEAN  BY DEF TypeOK
<1>2. CASE inExplicit' = TRUE  BY <1>2 DEF Blocks, Explicit, Block, Group
<1>3. CASE inExplicit' = FALSE  BY <1>3 DEF Blocks, Explicit
<1> QED BY <1>1, <1>2, <1>3

LEMMA BeginBlocks ==
    ASSUME TypeOK, TypeOK', ReadBegin
    PROVE  IF inExplicit THEN Ignored ELSE Begun
<1>1. CASE inExplicit
    <2>1. UNCHANGED <<groups, current, openedBy, inExplicit>>  BY <1>1 DEF ReadBegin
    <2> QED BY <1>1, <2>1, BlocksAre, BlocksNextAre DEF Ignored
<1>2. CASE ~inExplicit
    <2>1. groups' = Flushed(None, FALSE) /\ current' = {} /\ openedBy' = Index /\ inExplicit'
        BY <1>2 DEF ReadBegin
    <2>2. Explicit(groups') = Explicit(groups)  BY <1>2, <2>1, FlushBlocks
    <2> QED BY <1>2, <2>1, <2>2, BlocksAre, BlocksNextAre DEF Begun
<1> QED BY <1>1, <1>2

LEMMA EndBlocks ==
    ASSUME TypeOK, TypeOK', NEW how \in {"commit", "rollback"}, NEW chain \in BOOLEAN,
           ReadEnd(how, chain)
    PROVE  IF inExplicit THEN Ended(how, chain) ELSE Ignored
<1>1. CASE ~inExplicit
    <2>1. UNCHANGED <<groups, current, openedBy, inExplicit>>  BY <1>1 DEF ReadEnd
    <2> QED BY <1>1, <2>1, BlocksAre, BlocksNextAre DEF Ignored
<1>2. CASE inExplicit
    <2>1. /\ groups' = Flushed(Index, how = "rollback") /\ current' = {} /\ inExplicit' = chain
          /\ openedBy' = IF chain THEN Index ELSE None
        BY <1>2 DEF ReadEnd, StaysOpen
    <2>2. Index \in 1..MaxStatements
        BY ReadGrows DEF ReadEnd, Kinds
    <2>3. Explicit(groups') =
              Explicit(groups) \cup {Block(current, openedBy, Index, how = "rollback")}
        BY <1>2, <2>1, <2>2, FlushBlocks
    <2> QED BY <1>2, <2>1, <2>3, BlocksAre, BlocksNextAre DEF Ended, Now
<1> QED BY <1>1, <1>2

LEMMA OtherBlocks ==
    ASSUME TypeOK, TypeOK', ReadOther
    PROVE  IF inExplicit THEN Ran ELSE Ignored
<1>1. UNCHANGED <<groups, openedBy, inExplicit>> /\ current' = current \cup {Index}
    BY DEF ReadOther
<1> QED BY <1>1, BlocksAre, BlocksNextAre DEF Ignored, Ran, Now

LEMMA EndsBlocks ==
    ASSUME TypeOK, TypeOK', ReadEnds
    PROVE  Blocks' = Blocks /\ kinds' = kinds /\ done' /\ ~inExplicit'
<1>1. /\ groups' = Flushed(None, FALSE) /\ kinds' = kinds /\ done' = TRUE /\ inExplicit' = FALSE
    BY DEF ReadEnds
<1> QED BY <1>1, FlushBlocks, BlocksAre, BlocksNextAre

(***************************************************************************)
(* The blocks are of the file, apart from one another, and until the file  *)
(* is read only the one that is collected is open.                         *)
(***************************************************************************)
BlocksKnown ==
    /\ \A b \in Blocks :
          /\ b.openedBy \in Indices /\ b.closedBy \in {None} \cup Indices
          /\ b.members \subseteq Indices
    /\ Apart(Blocks)
    /\ done => ~inExplicit
    /\ ~done => \A b \in Explicit(groups) : b.closedBy # None

LEMMA KnownStep ==
    ASSUME TypeOK, TypeOK', BlocksKnown, [Next]_vars
    PROVE  BlocksKnown'
<1>0. /\ None = 0 /\ Len(kinds) \in Nat /\ Index = Len(kinds) + 1 /\ Indices = 1..Len(kinds)
      /\ Index \notin Indices
    BY DEF TypeOK, None, Index, Indices
<1>1. ASSUME NEW kind \in Kinds, Read(kind)
      PROVE  Indices' = Indices \cup {Index} /\ ~done /\ ~done'
    BY <1>1, ReadGrows
<1>2. ASSUME Ignored, Indices' = Indices \cup {Index}, ~done, ~done'
      PROVE  BlocksKnown'
    BY <1>2 DEF BlocksKnown, Ignored
<1>3. ASSUME Begun, Indices' = Indices \cup {Index}, ~done, ~done'
      PROVE  BlocksKnown'
    <2> DEFINE new == Block({}, Index, None, FALSE)
    <2>1. new.openedBy = Index /\ new.closedBy = None /\ new.members = {}  BY DEF Block
    <2> HIDE DEF new
    <2>2. Blocks' = Blocks \cup {new} /\ \A b \in Blocks : b.closedBy # None
        BY <1>3 DEF BlocksKnown, Begun, new
    <2>3. Apart(Blocks')  BY <1>0, <2>1, <2>2 DEF BlocksKnown, Apart
    <2>4. \A b \in Blocks' :
              /\ b.openedBy \in Indices' /\ b.closedBy \in {None} \cup Indices'
              /\ b.members \subseteq Indices'
        BY <1>3, <2>1, <2>2 DEF BlocksKnown
    <2> QED BY <1>3, <2>3, <2>4 DEF BlocksKnown, Begun
<1>4. ASSUME NEW how, NEW chain, Ended(how, chain), Indices' = Indices \cup {Index}, ~done, ~done'
      PROVE  BlocksKnown'
    <2> DEFINE new == Block({}, Index, None, FALSE)
               ended == Block(current, openedBy, Index, how = "rollback")
    <2>1. /\ new.openedBy = Index /\ new.closedBy = None /\ new.members = {}
          /\ ended.openedBy = openedBy /\ ended.closedBy = Index /\ ended.members = current
          /\ Now.openedBy = openedBy /\ Now.closedBy = None /\ Now.members = current
        BY DEF Block, Now
    <2> HIDE DEF new, ended
    <2>2. /\ Now \in Blocks /\ \A b \in Explicit(groups) : b.closedBy # None /\ b \in Blocks
          /\ Explicit(groups') = Explicit(groups) \cup {ended}
        BY <1>4 DEF BlocksKnown, Ended, ended
    <2>3. Blocks' = Explicit(groups') \cup {new} \/ Blocks' = Explicit(groups')
        BY <1>4 DEF Ended, new
    <2>4. \A b \in Explicit(groups) :
              /\ b.openedBy # openedBy /\ b.members \cap current = {}
              /\ b.openedBy # Index
        <3> SUFFICES ASSUME NEW b \in Explicit(groups)
                     PROVE  b.openedBy # openedBy /\ b.members \cap current = {} /\ b.openedBy # Index
            OBVIOUS
        <3>1. b # Now  BY <2>1, <2>2
        <3> QED BY <1>0, <2>1, <2>2, <3>1 DEF BlocksKnown, Apart
    <2>5. openedBy \in Indices /\ current \subseteq Indices  BY <2>1, <2>2 DEF BlocksKnown
    <2>6. Apart(Blocks')
        <3>1. Apart(Explicit(groups))  BY <2>2 DEF BlocksKnown, Apart
        <3>2. Apart(Explicit(groups'))  BY <1>0, <2>1, <2>2, <2>4, <3>1 DEF Apart
        <3>3. \A b \in Explicit(groups') : b.closedBy # None /\ b.openedBy # Index
            BY <1>0, <2>1, <2>2, <2>4, <2>5
        <3> QED BY <2>1, <2>3, <3>2, <3>3 DEF Apart
    <2>7. \A b \in Blocks' :
              /\ b.openedBy \in Indices' /\ b.closedBy \in {None} \cup Indices'
              /\ b.members \subseteq Indices'
        BY <1>4, <2>1, <2>2, <2>3, <2>5 DEF BlocksKnown
    <2> QED BY <1>0, <1>4, <2>1, <2>2, <2>6, <2>7 DEF BlocksKnown
<1>5. ASSUME Ran, Indices' = Indices \cup {Index}, ~done, ~done'
      PROVE  BlocksKnown'
    <2> DEFINE new == Block(current \cup {Index}, openedBy, None, FALSE)
    <2>1. /\ new.openedBy = openedBy /\ new.closedBy = None /\ new.members = current \cup {Index}
          /\ Now.openedBy = openedBy /\ Now.closedBy = None /\ Now.members = current
        BY DEF Block, Now
    <2> HIDE DEF new
    <2>2. /\ Now \in Blocks /\ \A b \in Explicit(groups) : b.closedBy # None /\ b \in Blocks
          /\ Explicit(groups') = Explicit(groups)
          /\ Blocks' = Explicit(groups) \cup {new}
        BY <1>5 DEF BlocksKnown, Ran, new
    <2>3. \A b \in Explicit(groups) : b.openedBy # openedBy /\ b.members \cap (current \cup {Index}) = {}
        <3> SUFFICES ASSUME NEW b \in Explicit(groups)
                     PROVE  b.openedBy # openedBy /\ b.members \cap (current \cup {Index}) = {}
            OBVIOUS
        <3>1. b # Now  BY <2>1, <2>2
        <3> QED BY <1>0, <2>1, <2>2, <3>1 DEF BlocksKnown, Apart
    <2>4. Apart(Blocks')
        <3>1. Apart(Explicit(groups))  BY <2>2 DEF BlocksKnown, Apart
        <3> QED BY <2>1, <2>2, <2>3, <3>1 DEF Apart
    <2>5. \A b \in Blocks' :
              /\ b.openedBy \in Indices' /\ b.closedBy \in {None} \cup Indices'
              /\ b.members \subseteq Indices'
        BY <1>5, <2>1, <2>2 DEF BlocksKnown
    <2> QED BY <1>5, <2>2, <2>4, <2>5 DEF BlocksKnown
<1>6. CASE ReadBegin
    <2>1. [op |-> "begin", chain |-> FALSE] \in Kinds  BY DEF Kinds
    <2> QED BY <1>1, <1>2, <1>3, <1>6, <2>1, BeginBlocks DEF ReadBegin
<1>7. ASSUME NEW op \in {"commit", "rollback"}, NEW chain \in BOOLEAN, ReadEnd(op, chain)
      PROVE  BlocksKnown'
    <2>1. [op |-> op, chain |-> chain] \in Kinds  BY DEF Kinds
    <2>2. Indices' = Indices \cup {Index} /\ ~done /\ ~done'  BY <1>1, <1>7, <2>1 DEF ReadEnd
    <2> QED BY <1>2, <1>4, <1>7, <2>2, EndBlocks
<1>8. CASE ReadOther
    <2>1. [op |-> "other", chain |-> FALSE] \in Kinds  BY DEF Kinds
    <2> QED BY <1>1, <1>2, <1>5, <1>8, <2>1, OtherBlocks DEF ReadOther
<1>9. CASE ReadEnds
    BY <1>9, EndsBlocks DEF BlocksKnown, Indices
<1>10. CASE UNCHANGED vars
    <2>1. Blocks' = Blocks  BY <1>10 DEF vars, Blocks, Group
    <2> QED BY <1>10, <2>1 DEF vars, BlocksKnown, Indices
<1> QED BY <1>6, <1>7, <1>8, <1>9, <1>10 DEF Next

-----------------------------------------------------------------------------
(***************************************************************************)
(* The variables of the session, and how they grow with the file.          *)
(***************************************************************************)
Members == [i \in Indices |-> BlockOf(i)]
Fates == [i \in Indices |-> FateAt(i)]

LEMMA GrowsByOne ==
    ASSUME NEW n \in Nat, NEW S, NEW s \in [1..n -> S], NEW t \in [1..(n + 1) -> S],
           \A i \in 1..n : t[i] = s[i]
    PROVE  t = Append(s, t[n + 1])
<1>1. s \in Seq(S) /\ t \in Seq(S) /\ t[n + 1] \in S  BY SeqDef
<1>2. Len(s) = n /\ Len(t) = n + 1  BY <1>1, LenProperties
<1>3. /\ Append(s, t[n + 1]) \in Seq(S) /\ Len(Append(s, t[n + 1])) = n + 1
      /\ \A i \in 1..n : Append(s, t[n + 1])[i] = s[i]
      /\ Append(s, t[n + 1])[n + 1] = t[n + 1]
    BY <1>1, <1>2, AppendProperties
<1>4. \A i \in 1..(n + 1) : i \in 1..n \/ i = n + 1  OBVIOUS
<1> QED BY <1>1, <1>2, <1>3, <1>4, SeqEqual

LEMMA SessionIs ==
    ASSUME BlocksKnown
    PROVE  /\ Members = [i \in Indices |-> BlockIn(Blocks, i)]
           /\ Fates = [i \in Indices |-> FateIn(Blocks, i)]
           /\ BlockOpen = OpenIn(Blocks)
           /\ Apart(Blocks)
BY DEF Members, Fates, BlockOf, FateAt, BlockOpen, BlockIn, FateIn, OpenIn, BlocksKnown

LEMMA SessionNextIs ==
    ASSUME BlocksKnown'
    PROVE  /\ Members' = [i \in Indices' |-> BlockIn(Blocks', i)]
           /\ Fates' = [i \in Indices' |-> FateIn(Blocks', i)]
           /\ BlockOpen' = OpenIn(Blocks')
           /\ Apart(Blocks')
BY DEF Members, Fates, BlockOf, FateAt, BlockOpen, BlockIn, FateIn, OpenIn, BlocksKnown

(* The statement that was read is in a block and opens one, or is not and  *)
(* does not; the others are where they were.                               *)
LEMMA SessionGrows ==
    ASSUME TypeOK, BlocksKnown, BlocksKnown', NEW kind \in Kinds, Read(kind),
           NEW in, NEW opens, NEW before,
           \A i \in Indices : BlockIn(Blocks', i) = BlockIn(Blocks, i),
           BlockIn(Blocks', Index) = in,
           before = [i \in Indices |-> FateIn(Blocks', i)],
           FateIn(Blocks', Index) = opens
    PROVE  Members' = Append(Members, in) /\ Fates' = Append(before, opens)
<1> DEFINE n == Len(kinds)
<1>1. n \in Nat /\ Indices = 1..n /\ Index = n + 1  BY DEF TypeOK, Indices, Index
<1>2. Indices' = 1..(n + 1)
    <2>1. Len(kinds') = n + 1  BY DEF Read, TypeOK
    <2> QED BY <2>1 DEF Indices
<1> HIDE DEF n
<1>3. \A i \in 1..n : i \in 1..(n + 1)  BY <1>1
<1>4. Members' = Append(Members, in)
    <2> DEFINE s == Members
               t == Members'
               S == {BlockIn(Blocks', i) : i \in 1..(n + 1)}
    <2>1. s = [i \in 1..n |-> BlockIn(Blocks', i)] /\ t = [i \in 1..(n + 1) |-> BlockIn(Blocks', i)]
        BY <1>1, <1>2, SessionIs, SessionNextIs
    <2>2. s \in [1..n -> S] /\ t \in [1..(n + 1) -> S]  BY <1>3, <2>1
    <2> HIDE DEF s, t, S
    <2>3. (\A i \in 1..n : t[i] = s[i]) /\ t[n + 1] = in  BY <1>1, <1>3, <2>1
    <2>4. t = Append(s, t[n + 1])  BY <1>1, <2>2, <2>3, GrowsByOne
    <2> QED BY <2>3, <2>4 DEF s, t
<1>5. Fates' = Append(before, opens)
    <2> DEFINE t == Fates'
               S == {FateIn(Blocks', i) : i \in 1..(n + 1)}
    <2>1. before = [i \in 1..n |-> FateIn(Blocks', i)] /\ t = [i \in 1..(n + 1) |-> FateIn(Blocks', i)]
        BY <1>1, <1>2, SessionNextIs
    <2>2. before \in [1..n -> S] /\ t \in [1..(n + 1) -> S]  BY <1>3, <2>1
    <2> HIDE DEF t, S
    <2>3. (\A i \in 1..n : t[i] = before[i]) /\ t[n + 1] = opens  BY <1>1, <1>3, <2>1
    <2>4. t = Append(before, t[n + 1])  BY <1>1, <2>2, <2>3, GrowsByOne
    <2> QED BY <2>3, <2>4 DEF t
<1> QED BY <1>4, <1>5

(***************************************************************************)
(* Every change of the blocks, as the session's variables show it.         *)
(***************************************************************************)
LEMMA FileIs ==
    ASSUME TypeOK, BlocksKnown
    PROVE  /\ None = 0 /\ Index \notin Indices /\ Index = Len(kinds) + 1 /\ Index # None
           /\ \A b \in Blocks : b.openedBy # Index /\ Index \notin b.members /\ b.openedBy # None
BY DEF TypeOK, BlocksKnown, None, Index, Indices

LEMMA IgnoredSession ==
    ASSUME TypeOK, BlocksKnown, BlocksKnown', NEW kind \in Kinds, Read(kind), Ignored
    PROVE  /\ Members' = Append(Members, None) /\ Fates' = Append(Fates, "none")
           /\ BlockOpen' = BlockOpen
<1>1. Blocks' = Blocks  BY DEF Ignored
<1>2. BlockIn(Blocks', Index) = None /\ FateIn(Blocks', Index) = "none"
    BY <1>1, FileIs, LookedUp, SessionIs
<1>3. Fates = [i \in Indices |-> FateIn(Blocks', i)]  BY <1>1, SessionIs
<1>4. BlockOpen' = BlockOpen  BY <1>1, SessionIs, SessionNextIs
<1> QED BY <1>1, <1>2, <1>3, <1>4, SessionGrows

LEMMA BegunSession ==
    ASSUME TypeOK, BlocksKnown, BlocksKnown', NEW kind \in Kinds, Read(kind), Begun
    PROVE  /\ Members' = Append(Members, None) /\ Fates' = Append(Fates, "open")
           /\ BlockOpen = None /\ BlockOpen' = Index
<1> DEFINE new == Block({}, Index, None, FALSE)
<1>1. new.openedBy = Index /\ new.closedBy = None /\ new.members = {} /\ FateOf(new) = "open"
    BY DEF Block, FateOf
<1> HIDE DEF new
<1>2. /\ Blocks' = Blocks \cup {new} /\ \A b \in Blocks : b.closedBy # None
    <2>1. ~done  BY DEF Read
    <2> QED BY <2>1 DEF BlocksKnown, Begun, new
<1>3. BlockOpen = None /\ BlockOpen' = Index
    BY <1>1, <1>2, SessionIs, SessionNextIs, LookedUp
<1>4. BlockIn(Blocks', Index) = None /\ FateIn(Blocks', Index) = "open"
    BY <1>1, <1>2, FileIs, SessionNextIs, LookedUp
<1>5. ASSUME NEW i \in Indices
      PROVE  BlockIn(Blocks', i) = BlockIn(Blocks, i) /\ FateIn(Blocks', i) = FateIn(Blocks, i)
    <2>1. i # Index /\ i \notin new.members  BY <1>1, FileIs
    <2>2. BlockIn(Blocks', i) = BlockIn(Blocks, i)
        <3>1. CASE \E b \in Blocks : i \in b.members
            BY <1>2, <3>1, SessionIs, SessionNextIs, LookedUp
        <3>2. CASE \A b \in Blocks : i \notin b.members
            BY <1>2, <2>1, <3>2, SessionIs, SessionNextIs, LookedUp
        <3> QED BY <3>1, <3>2
    <2>3. FateIn(Blocks', i) = FateIn(Blocks, i)
        <3>1. CASE \E b \in Blocks : b.openedBy = i
            BY <1>2, <3>1, SessionIs, SessionNextIs, LookedUp
        <3>2. CASE \A b \in Blocks : b.openedBy # i
            BY <1>1, <1>2, <2>1, <3>2, SessionIs, SessionNextIs, LookedUp
        <3> QED BY <3>1, <3>2
    <2> QED BY <2>2, <2>3
<1>6. Fates = [i \in Indices |-> FateIn(Blocks', i)]  BY <1>5, SessionIs
<1> QED BY <1>3, <1>4, <1>5, <1>6, SessionGrows

LEMMA EndedSession ==
    ASSUME TypeOK, BlocksKnown, BlocksKnown', NEW kind \in Kinds, Read(kind),
           NEW how \in {"commit", "rollback"}, NEW chain \in BOOLEAN, Ended(how, chain)
    PROVE  /\ Members' = Append(Members, None) /\ BlockOpen # None
           /\ Fates' = Append([Fates EXCEPT ![BlockOpen] = how], IF chain THEN "open" ELSE "none")
           /\ BlockOpen' = IF chain THEN Index ELSE None
<1> DEFINE new == Block({}, Index, None, FALSE)
           ended == Block(current, openedBy, Index, how = "rollback")
<1>1. /\ new.openedBy = Index /\ new.closedBy = None /\ new.members = {} /\ FateOf(new) = "open"
      /\ ended.openedBy = openedBy /\ ended.closedBy = Index /\ ended.members = current
      /\ Now.openedBy = openedBy /\ Now.closedBy = None /\ Now.members = current
    BY DEF Block, Now, FateOf
<1>2. FateOf(ended) = how  BY FileIs DEF Block, FateOf
<1> HIDE DEF new, ended
<1>3. /\ Blocks = Explicit(groups) \cup {Now} /\ Explicit(groups') = Explicit(groups) \cup {ended}
      /\ \A b \in Explicit(groups) : b.closedBy # None
      /\ Blocks' = Explicit(groups') \cup IF chain THEN {new} ELSE {}
    <2>1. ~done  BY DEF Read
    <2> QED BY <2>1 DEF BlocksKnown, Ended, new, ended
<1>4. BlockOpen = openedBy /\ openedBy # None /\ openedBy # Index
    BY <1>1, <1>3, FileIs, SessionIs, LookedUp
<1>5. BlockOpen' = IF chain THEN Index ELSE None
    <2>1. ended.closedBy # None  BY <1>1, FileIs
    <2>2. CASE chain
        <3>1. new \in Blocks'  BY <1>3, <2>2
        <3> QED BY <1>1, <2>2, <3>1, SessionNextIs, LookedUp
    <2>3. CASE ~chain
        <3>1. \A b \in Blocks' : b.closedBy # None  BY <1>3, <2>1, <2>3
        <3> QED BY <2>3, <3>1, SessionNextIs, LookedUp
    <2> QED BY <2>2, <2>3
<1>6. BlockIn(Blocks', Index) = None
    BY <1>1, <1>3, FileIs, SessionNextIs, LookedUp
<1>7. FateIn(Blocks', Index) = IF chain THEN "open" ELSE "none"
    BY <1>1, <1>3, <1>4, FileIs, SessionNextIs, LookedUp
<1>8. ASSUME NEW i \in Indices
      PROVE  /\ BlockIn(Blocks', i) = BlockIn(Blocks, i)
             /\ FateIn(Blocks', i) = IF i = openedBy THEN how ELSE FateIn(Blocks, i)
    <2>1. i # Index /\ i \notin new.members  BY <1>1, FileIs
    <2>2. BlockIn(Blocks', i) = BlockIn(Blocks, i)
        <3>1. ASSUME NEW b \in Explicit(groups), i \in b.members
              PROVE  BlockIn(Blocks', i) = BlockIn(Blocks, i)
            BY <1>3, <3>1, SessionIs, SessionNextIs, LookedUp
        <3>2. CASE i \in current
            <4>1. BlockIn(Blocks, i) = openedBy  BY <1>1, <1>3, <3>2, SessionIs, LookedUp
            <4>2. BlockIn(Blocks', i) = openedBy  BY <1>1, <1>3, <3>2, SessionNextIs, LookedUp
            <4> QED BY <4>1, <4>2
        <3>3. CASE i \notin current /\ \A b \in Explicit(groups) : i \notin b.members
            <4>1. BlockIn(Blocks, i) = None  BY <1>1, <1>3, <3>3, SessionIs, LookedUp
            <4>2. BlockIn(Blocks', i) = None
                BY <1>1, <1>3, <2>1, <3>3, SessionNextIs, LookedUp
            <4> QED BY <4>1, <4>2
        <3> QED BY <3>1, <3>2, <3>3
    <2>3. FateIn(Blocks', i) = IF i = openedBy THEN how ELSE FateIn(Blocks, i)
        <3>1. CASE i = openedBy
            BY <1>1, <1>2, <1>3, <3>1, SessionNextIs, LookedUp
        <3>2. ASSUME i # openedBy, NEW b \in Explicit(groups), b.openedBy = i
              PROVE  FateIn(Blocks', i) = FateIn(Blocks, i)
            BY <1>3, <3>2, SessionIs, SessionNextIs, LookedUp
        <3>3. CASE i # openedBy /\ \A b \in Explicit(groups) : b.openedBy # i
            <4>1. FateIn(Blocks, i) = "none"  BY <1>1, <1>3, <3>3, SessionIs, LookedUp
            <4>2. \A b \in Blocks' : b.openedBy # i
                BY <1>1, <1>3, <2>1, <3>3
            <4>3. FateIn(Blocks', i) = "none"  BY <4>2, SessionNextIs, LookedUp
            <4> QED BY <3>3, <4>1, <4>3
        <3> QED BY <3>1, <3>2, <3>3
    <2> QED BY <2>2, <2>3
<1>9. [Fates EXCEPT ![BlockOpen] = how] = [i \in Indices |-> FateIn(Blocks', i)]
    BY <1>4, <1>8, SessionIs
<1> QED BY <1>4, <1>5, <1>6, <1>7, <1>8, <1>9, SessionGrows

LEMMA RanSession ==
    ASSUME TypeOK, BlocksKnown, BlocksKnown', NEW kind \in Kinds, Read(kind), Ran
    PROVE  /\ Members' = Append(Members, BlockOpen) /\ Fates' = Append(Fates, "none")
           /\ BlockOpen' = BlockOpen
<1> DEFINE new == Block(current \cup {Index}, openedBy, None, FALSE)
<1>1. /\ new.openedBy = openedBy /\ new.closedBy = None /\ new.members = current \cup {Index}
      /\ Now.openedBy = openedBy /\ Now.closedBy = None /\ Now.members = current
      /\ FateOf(new) = FateOf(Now)
    BY DEF Block, Now, FateOf
<1> HIDE DEF new
<1>2. Blocks = Explicit(groups) \cup {Now} /\ Blocks' = Explicit(groups) \cup {new}
    BY DEF Ran, new
<1>3. BlockOpen = openedBy /\ BlockOpen' = openedBy /\ openedBy # Index
    BY <1>1, <1>2, FileIs, SessionIs, SessionNextIs, LookedUp
<1>4. BlockIn(Blocks', Index) = openedBy
    BY <1>1, <1>2, SessionNextIs, LookedUp
<1>5. FateIn(Blocks', Index) = "none"
    BY <1>1, <1>2, <1>3, FileIs, SessionNextIs, LookedUp
<1>6. ASSUME NEW i \in Indices
      PROVE  BlockIn(Blocks', i) = BlockIn(Blocks, i) /\ FateIn(Blocks', i) = FateIn(Blocks, i)
    <2>1. i # Index  BY FileIs
    <2>2. BlockIn(Blocks', i) = BlockIn(Blocks, i)
        <3>1. ASSUME NEW b \in Explicit(groups), i \in b.members
              PROVE  BlockIn(Blocks', i) = BlockIn(Blocks, i)
            BY <1>2, <3>1, SessionIs, SessionNextIs, LookedUp
        <3>2. CASE i \in current
            <4>1. BlockIn(Blocks, i) = openedBy  BY <1>1, <1>2, <3>2, SessionIs, LookedUp
            <4>2. BlockIn(Blocks', i) = openedBy  BY <1>1, <1>2, <3>2, SessionNextIs, LookedUp
            <4> QED BY <4>1, <4>2
        <3>3. CASE i \notin current /\ \A b \in Explicit(groups) : i \notin b.members
            <4>1. BlockIn(Blocks, i) = None  BY <1>1, <1>2, <3>3, SessionIs, LookedUp
            <4>2. BlockIn(Blocks', i) = None
                BY <1>1, <1>2, <2>1, <3>3, SessionNextIs, LookedUp
            <4> QED BY <4>1, <4>2
        <3> QED BY <3>1, <3>2, <3>3
    <2>3. FateIn(Blocks', i) = FateIn(Blocks, i)
        <3>1. CASE i = openedBy
            <4>1. FateIn(Blocks, i) = FateOf(Now)  BY <1>1, <1>2, <3>1, SessionIs, LookedUp
            <4>2. FateIn(Blocks', i) = FateOf(new)  BY <1>1, <1>2, <3>1, SessionNextIs, LookedUp
            <4> QED BY <1>1, <4>1, <4>2
        <3>2. ASSUME NEW b \in Explicit(groups), b.openedBy = i
              PROVE  FateIn(Blocks', i) = FateIn(Blocks, i)
            BY <1>2, <3>2, SessionIs, SessionNextIs, LookedUp
        <3>3. CASE i # openedBy /\ \A b \in Explicit(groups) : b.openedBy # i
            <4>1. FateIn(Blocks, i) = "none"  BY <1>1, <1>2, <3>3, SessionIs, LookedUp
            <4>2. FateIn(Blocks', i) = "none"  BY <1>1, <1>2, <3>3, SessionNextIs, LookedUp
            <4> QED BY <4>1, <4>2
        <3> QED BY <3>1, <3>2, <3>3
    <2> QED BY <2>2, <2>3
<1>7. Fates = [i \in Indices |-> FateIn(Blocks', i)]  BY <1>6, SessionIs
<1> QED BY <1>3, <1>4, <1>5, <1>6, <1>7, SessionGrows
-----------------------------------------------------------------------------
(***************************************************************************)
(* Every statement the parser reads is a step of the session.              *)
(***************************************************************************)
LEMMA SessionOpen ==
    ASSUME TypeOK, BlocksKnown, ~done
    PROVE  BlockOpen = openedBy
<1>1. CASE inExplicit
    <2>1. Now.openedBy = openedBy /\ Now.closedBy = None  BY DEF Now, Block
    <2>2. Now \in Blocks  BY <1>1, BlocksAre DEF Now
    <2> QED BY <2>1, <2>2, SessionIs, LookedUp
<1>2. CASE ~inExplicit
    <2>1. openedBy = None  BY <1>2 DEF TypeOK
    <2>2. \A b \in Blocks : b.closedBy # None  BY <1>2, BlocksAre DEF BlocksKnown
    <2> QED BY <2>1, <2>2, SessionIs, LookedUp
<1> QED BY <1>1, <1>2

LEMMA BeginIsBegin ==
    ASSUME TypeOK, TypeOK', BlocksKnown, BlocksKnown', ReadBegin
    PROVE  Session!Begin
<1> DEFINE kind == [op |-> "begin", chain |-> FALSE]
<1>1. kind \in Kinds /\ Read(kind)  BY DEF Kinds, ReadBegin
<1>2. /\ Len(kinds) < MaxStatements /\ kinds' = Append(kinds, kind) /\ ~done
      /\ Index = Len(kinds) + 1 /\ inExplicit = (openedBy # None)
    BY <1>1 DEF Read, Index, TypeOK
<1>3. BlockOpen = openedBy  BY <1>2, SessionOpen
<1>4. Members' = Append(Members, None)
    BY <1>1, BeginBlocks, IgnoredSession, BegunSession
<1>5. \/ BlockOpen = None /\ BlockOpen' = Index /\ Fates' = Append(Fates, "open")
      \/ BlockOpen # None /\ BlockOpen' = BlockOpen /\ Fates' = Append(Fates, "none")
    <2>1. CASE inExplicit  BY <1>1, <1>2, <1>3, <2>1, BeginBlocks, IgnoredSession
    <2>2. CASE ~inExplicit  BY <1>1, <2>2, BeginBlocks, BegunSession
    <2> QED BY <2>1, <2>2
<1> QED
    BY <1>2, <1>4, <1>5
    DEF Session!Begin, Session!Executed, Session!Opens, Session!NoBlock, None, Members, Fates

LEMMA EndIsEnd ==
    ASSUME TypeOK, TypeOK', BlocksKnown, BlocksKnown',
           NEW how \in {"commit", "rollback"}, NEW chain \in BOOLEAN, ReadEnd(how, chain)
    PROVE  Session!End(how, chain)
<1> DEFINE kind == [op |-> how, chain |-> chain]
<1>1. kind \in Kinds /\ Read(kind)  BY DEF Kinds, ReadEnd
<1>2. /\ Len(kinds) < MaxStatements /\ kinds' = Append(kinds, kind) /\ ~done
      /\ Index = Len(kinds) + 1 /\ inExplicit = (openedBy # None)
    BY <1>1 DEF Read, Index, TypeOK
<1>3. BlockOpen = openedBy  BY <1>2, SessionOpen
<1>4. Members' = Append(Members, None)
    BY <1>1, EndBlocks, IgnoredSession, EndedSession
<1>5. \/ BlockOpen = None /\ BlockOpen' = BlockOpen /\ Fates' = Append(Fates, "none")
      \/ /\ BlockOpen # None /\ chain /\ BlockOpen' = Index
         /\ Fates' = Append([Fates EXCEPT ![BlockOpen] = how], "open")
      \/ /\ BlockOpen # None /\ ~chain /\ BlockOpen' = None
         /\ Fates' = Append([Fates EXCEPT ![BlockOpen] = how], "none")
    <2>1. CASE ~inExplicit  BY <1>1, <1>2, <1>3, <2>1, EndBlocks, IgnoredSession
    <2>2. CASE inExplicit
        <3>1. /\ BlockOpen # None /\ BlockOpen' = IF chain THEN Index ELSE None
              /\ Fates' = Append([Fates EXCEPT ![BlockOpen] = how], IF chain THEN "open" ELSE "none")
            BY <1>1, <2>2, EndBlocks, EndedSession
        <3> QED BY <3>1
    <2> QED BY <2>1, <2>2
<1> QED
    BY <1>2, <1>4, <1>5
    DEF Session!End, Session!Executed, Session!Opens, Session!NoBlock, None, Members, Fates

LEMMA OtherIsExecute ==
    ASSUME TypeOK, TypeOK', BlocksKnown, BlocksKnown', ReadOther
    PROVE  Session!Execute
<1> DEFINE kind == [op |-> "other", chain |-> FALSE]
<1>1. kind \in Kinds /\ Read(kind)  BY DEF Kinds, ReadOther
<1>2. /\ Len(kinds) < MaxStatements /\ kinds' = Append(kinds, kind) /\ ~done
      /\ inExplicit = (openedBy # None)
    BY <1>1 DEF Read, TypeOK
<1>3. BlockOpen = openedBy  BY <1>2, SessionOpen
<1>4. /\ Members' = Append(Members, BlockOpen) /\ Fates' = Append(Fates, "none")
      /\ BlockOpen' = BlockOpen
    <2>1. CASE inExplicit  BY <1>1, <2>1, OtherBlocks, RanSession
    <2>2. CASE ~inExplicit
        <3>1. BlockOpen = None  BY <1>2, <1>3, <2>2
        <3> QED BY <1>1, <2>2, <3>1, OtherBlocks, IgnoredSession
    <2> QED BY <2>1, <2>2
<1> QED
    BY <1>2, <1>4 DEF Session!Execute, Session!Executed, Members, Fates

LEMMA SessionStep ==
    ASSUME TypeOK, TypeOK', BlocksKnown, BlocksKnown', [Next]_vars
    PROVE  [Session!NextBlocks]_Session!blockVars
<1>1. ASSUME Blocks' = Blocks, kinds' = kinds
      PROVE  UNCHANGED Session!blockVars
    <2>1. Members' = Members /\ Fates' = Fates /\ BlockOpen' = BlockOpen
        BY <1>1, SessionIs, SessionNextIs DEF Indices
    <2> QED BY <1>1, <2>1 DEF Session!blockVars, Members, Fates
<1>2. CASE ReadBegin  BY <1>2, BeginIsBegin DEF Session!NextBlocks
<1>3. ASSUME NEW how \in {"commit", "rollback"}, NEW chain \in BOOLEAN, ReadEnd(how, chain)
      PROVE  Session!NextBlocks
    BY <1>3, EndIsEnd DEF Session!NextBlocks
<1>4. CASE ReadOther  BY <1>4, OtherIsExecute DEF Session!NextBlocks
<1>5. CASE ReadEnds  BY <1>1, <1>5, EndsBlocks
<1>6. CASE UNCHANGED vars
    <2>1. Blocks' = Blocks /\ kinds' = kinds  BY <1>6 DEF vars, Blocks, Group
    <2> QED BY <1>1, <2>1
<1> QED BY <1>2, <1>3, <1>4, <1>5, <1>6 DEF Next

LEMMA KnownInit ==
    ASSUME Init
    PROVE  BlocksKnown /\ Blocks = {}
<1>1. Blocks = {} /\ Explicit(groups) = {}
    BY DEF Init, Blocks, Explicit
<1> QED BY <1>1 DEF Init, BlocksKnown, Apart

(***************************************************************************)
(* For files of every length the groups tell, at every statement, the      *)
(* blocks of the session that runs the file: each statement the parser     *)
(* reads is the session's step for that statement (_group_transactions).   *)
(***************************************************************************)
THEOREM ParserFollowsSession == Spec => GroupsFollowSession
<1>1. Init => BlocksKnown  BY KnownInit
<1>2. TypeOK /\ TypeOK' /\ BlocksKnown /\ [Next]_vars => BlocksKnown'  BY KnownStep
<1>3. Init => Session!InitBlocks
    <2> SUFFICES ASSUME Init PROVE Session!InitBlocks  OBVIOUS
    <2>1. kinds = <<>> /\ Indices = {}  BY DEF Init, Indices
    <2>2. BlockOpen = None  BY KnownInit DEF BlockOpen
    <2> QED BY <2>1, <2>2 DEF Session!InitBlocks, Session!NoBlock, None
<1>4. TypeOK /\ TypeOK' /\ BlocksKnown /\ BlocksKnown' /\ [Next]_vars
          => [Session!NextBlocks]_Session!blockVars
    BY SessionStep
<1> QED
    BY <1>1, <1>2, <1>3, <1>4, GroupsTyped, PTL DEF Spec, GroupsFollowSession, Session!SpecBlocks
-----------------------------------------------------------------------------
(***************************************************************************)
(* The warnings.  What is said of a statement does not change after it.    *)
(***************************************************************************)
Warned(bs, op, i) ==
    \/ op = "begin" /\ \E b \in bs : b.openedBy < i /\ (b.closedBy > i \/ b.closedBy = None)
    \/ op \in {"commit", "rollback"} /\ \A b \in bs : b.closedBy # i

Left(bs, i) == \E b \in bs : b.closedBy = None /\ b.openedBy = i

(* The warnings, with what is said of the statement that is read. *)
WarningsGrow(w) ==
    /\ \A i \in Indices : Warned(Blocks', kinds[i].op, i) <=> Warned(Blocks, kinds[i].op, i)
    /\ warnings' = warnings \cup IF w THEN {Index} ELSE {}

LEMMA WarningsAre ==
    ASSUME WarningsAreReal, ~done
    PROVE  \A i : i \in warnings <=> i \in Indices /\ Warned(Blocks, kinds[i].op, i)
BY DEF WarningsAreReal, Warned

LEMMA WarningsNextAre ==
    ASSUME \A i : i \in warnings' <=>
               i \in Indices' /\ (Warned(Blocks', kinds'[i].op, i) \/ (done' /\ Left(Blocks', i)))
    PROVE  WarningsAreReal'
<1> DEFINE W == {i \in Indices :
                    \/ /\ kinds[i].op = "begin"
                       /\ \E b \in Blocks : b.openedBy < i /\ (b.closedBy > i \/ b.closedBy = None)
                    \/ /\ kinds[i].op \in {"commit", "rollback"}
                       /\ \A b \in Blocks : b.closedBy # i
                    \/ done /\ \E b \in Blocks : b.closedBy = None /\ b.openedBy = i}'
<1>1. \A i : i \in W <=>
          i \in Indices' /\ (Warned(Blocks', kinds'[i].op, i) \/ (done' /\ Left(Blocks', i)))
    BY DEF Warned, Left
<1> HIDE DEF W
<1>2. warnings' = W  BY <1>1
<1> QED BY <1>2 DEF W, WarningsAreReal

LEMMA WarningsKept ==
    ASSUME TypeOK, WarningsAreReal, NEW kind \in Kinds, Read(kind), NEW w \in BOOLEAN,
           WarningsGrow(w), w <=> Warned(Blocks', kind.op, Index)
    PROVE  WarningsAreReal'
<1>1. /\ Indices' = Indices \cup {Index} /\ ~done /\ ~done'
      /\ \A i \in Indices : kinds'[i] = kinds[i]
      /\ kinds'[Index] = kind /\ Index \notin Indices
    BY ReadGrows DEF Read, TypeOK, Index, Indices
<1>2. ASSUME NEW i PROVE i \in warnings' <=> i \in Indices' /\ Warned(Blocks', kinds'[i].op, i)
    <2>1. CASE i \in Indices  BY <1>1, <2>1, WarningsAre DEF WarningsGrow
    <2>2. CASE i = Index  BY <1>1, <2>2, WarningsAre DEF WarningsGrow
    <2>3. CASE i \notin Indices /\ i # Index  BY <1>1, <2>3, WarningsAre DEF WarningsGrow
    <2> QED BY <2>1, <2>2, <2>3
<1> QED BY <1>1, <1>2, WarningsNextAre

LEMMA BlockTimes ==
    ASSUME TypeOK, BlocksKnown
    PROVE  /\ \A b \in Blocks : b.openedBy \in Nat /\ b.openedBy < Index
                 /\ b.closedBy \in Nat /\ b.closedBy < Index
           /\ None = 0 /\ Index \in Nat /\ Index > 0
           /\ \A i \in Indices : i \in Nat /\ i > 0 /\ i < Index
BY DEF TypeOK, BlocksKnown, None, Index, Indices

LEMMA WarnStep ==
    ASSUME TypeOK, TypeOK', BlocksKnown, WarningsAreReal, [Next]_vars
    PROVE  WarningsAreReal'
<1>1. CASE ReadBegin
    <2> DEFINE kind == [op |-> "begin", chain |-> FALSE]
    <2>1. kind \in Kinds /\ Read(kind) /\ kind.op = "begin"  BY <1>1 DEF Kinds, ReadBegin
    <2> HIDE DEF kind
    <2>2. CASE inExplicit
        <3>1. warnings' = warnings \cup {Index} /\ Blocks' = Blocks
            BY <1>1, <2>2, BeginBlocks DEF ReadBegin, Ignored
        <3>2. Now \in Blocks /\ Now.closedBy = None  BY <2>2, BlocksAre DEF Now, Block
        <3>3. Warned(Blocks', kind.op, Index)  BY <2>1, <3>1, <3>2, BlockTimes DEF Warned
        <3>4. WarningsGrow(TRUE)  BY <3>1 DEF WarningsGrow
        <3> QED BY <2>1, <3>3, <3>4, WarningsKept
    <2>3. CASE ~inExplicit
        <3> DEFINE new == Block({}, Index, None, FALSE)
        <3>1. new.openedBy = Index /\ new.closedBy = None  BY DEF Block
        <3> HIDE DEF new
        <3>2. /\ warnings' = warnings /\ Blocks' = Blocks \cup {new}
              /\ \A b \in Blocks : b.closedBy # None
            BY <1>1, <2>1, <2>3, BeginBlocks DEF ReadBegin, Begun, BlocksKnown, Read, new
        <3>3. ~Warned(Blocks', kind.op, Index)
            BY <2>1, <3>1, <3>2, BlockTimes DEF Warned
        <3>4. WarningsGrow(FALSE)
            BY <3>1, <3>2, BlockTimes DEF WarningsGrow, Warned
        <3> QED BY <2>1, <3>3, <3>4, WarningsKept
    <2> QED BY <2>2, <2>3
<1>2. ASSUME NEW how \in {"commit", "rollback"}, NEW chain \in BOOLEAN, ReadEnd(how, chain)
      PROVE  WarningsAreReal'
    <2> DEFINE kind == [op |-> how, chain |-> chain]
    <2>1. kind \in Kinds /\ Read(kind) /\ kind.op \in {"commit", "rollback"}
        BY <1>2 DEF Kinds, ReadEnd
    <2> HIDE DEF kind
    <2>2. CASE ~inExplicit
        <3>1. warnings' = warnings \cup {Index} /\ Blocks' = Blocks
            BY <1>2, <2>2, EndBlocks DEF ReadEnd, Ignored
        <3>2. Warned(Blocks', kind.op, Index)  BY <2>1, <3>1, BlockTimes DEF Warned
        <3>3. WarningsGrow(TRUE)  BY <3>1 DEF WarningsGrow
        <3> QED BY <2>1, <3>2, <3>3, WarningsKept
    <2>3. CASE inExplicit
        <3> DEFINE new == Block({}, Index, None, FALSE)
                   ended == Block(current, openedBy, Index, how = "rollback")
        <3>1. /\ new.openedBy = Index /\ new.closedBy = None
              /\ ended.openedBy = openedBy /\ ended.closedBy = Index
              /\ Now.openedBy = openedBy /\ Now.closedBy = None
            BY DEF Block, Now
        <3> HIDE DEF new, ended
        <3>2. /\ warnings' = warnings /\ Blocks = Explicit(groups) \cup {Now}
              /\ Explicit(groups') = Explicit(groups) \cup {ended}
              /\ Blocks' = Explicit(groups') \cup {new} \/ Blocks' = Explicit(groups')
            BY <1>2, <2>3, EndBlocks DEF ReadEnd, Ended, new, ended
        <3>3. ~Warned(Blocks', kind.op, Index)
            BY <2>1, <3>1, <3>2 DEF Warned
        <3>4. ASSUME NEW i \in Indices, NEW op PROVE Warned(Blocks', op, i) <=> Warned(Blocks, op, i)
            <4>1. \A b \in Explicit(groups) : b \in Blocks /\ b \in Blocks'  BY <3>2
            <4>2. Now \in Blocks /\ ended \in Blocks'  BY <3>2
            <4>3. (\A b \in Blocks' : b.closedBy # i) <=> (\A b \in Blocks : b.closedBy # i)
                BY <3>1, <3>2, BlockTimes
            <4>4. (\E b \in Blocks' : b.openedBy < i /\ (b.closedBy > i \/ b.closedBy = None))
                    <=> (\E b \in Blocks : b.openedBy < i /\ (b.closedBy > i \/ b.closedBy = None))
                BY <3>1, <3>2, <4>1, <4>2, BlockTimes
            <4> QED BY <4>3, <4>4 DEF Warned
        <3>5. WarningsGrow(FALSE)  BY <3>2, <3>4 DEF WarningsGrow
        <3> QED BY <2>1, <3>3, <3>5, WarningsKept
    <2> QED BY <2>2, <2>3
<1>3. CASE ReadOther
    <2> DEFINE kind == [op |-> "other", chain |-> FALSE]
    <2>1. kind \in Kinds /\ Read(kind) /\ kind.op = "other"  BY <1>3 DEF Kinds, ReadOther
    <2> HIDE DEF kind
    <2>2. ~Warned(Blocks', kind.op, Index) /\ warnings' = warnings
        BY <1>3, <2>1 DEF Warned, ReadOther
    <2>3. CASE inExplicit
        <3> DEFINE new == Block(current \cup {Index}, openedBy, None, FALSE)
        <3>1. new.openedBy = openedBy /\ new.closedBy = None
              /\ Now.openedBy = openedBy /\ Now.closedBy = None
            BY DEF Block, Now
        <3> HIDE DEF new
        <3>2. Blocks = Explicit(groups) \cup {Now} /\ Blocks' = Explicit(groups) \cup {new}
            BY <1>3, <2>3, OtherBlocks DEF Ran, new
        <3>3. WarningsGrow(FALSE)  BY <2>2, <3>1, <3>2 DEF WarningsGrow, Warned
        <3> QED BY <2>1, <2>2, <3>3, WarningsKept
    <2>4. CASE ~inExplicit
        <3>1. Blocks' = Blocks  BY <1>3, <2>4, OtherBlocks DEF Ignored
        <3>2. WarningsGrow(FALSE)  BY <2>2, <3>1 DEF WarningsGrow
        <3> QED BY <2>1, <2>2, <3>2, WarningsKept
    <2> QED BY <2>3, <2>4
<1>4. CASE ReadEnds
    <2>1. /\ Blocks' = Blocks /\ kinds' = kinds /\ ~done /\ done'
          /\ warnings' = IF inExplicit THEN warnings \cup {openedBy} ELSE warnings
        BY <1>4, EndsBlocks DEF ReadEnds
    <2>2. Indices' = Indices  BY <2>1 DEF Indices
    <2>3. \A i : Left(Blocks, i) <=> inExplicit /\ i = openedBy
        <3>1. Now.openedBy = openedBy /\ Now.closedBy = None  BY DEF Block, Now
        <3>2. Blocks = Explicit(groups) \cup IF inExplicit THEN {Now} ELSE {}
            BY BlocksAre DEF Now
        <3>3. \A b \in Explicit(groups) : b.closedBy # None  BY <2>1 DEF BlocksKnown
        <3> QED BY <3>1, <3>2, <3>3 DEF Left
    <2>4. inExplicit => openedBy \in Indices  BY DEF TypeOK
    <2>5. \A i : i \in warnings' <=>
              i \in Indices /\ (Warned(Blocks, kinds[i].op, i) \/ Left(Blocks, i))
        BY <2>1, <2>3, <2>4, WarningsAre
    <2> QED BY <2>1, <2>2, <2>5, WarningsNextAre
<1>5. CASE UNCHANGED vars
    <2>1. Blocks' = Blocks /\ Indices' = Indices  BY <1>5 DEF vars, Blocks, Group, Indices
    <2>2. \A i : i \in warnings <=>
              i \in Indices /\ (Warned(Blocks, kinds[i].op, i) \/ (done /\ Left(Blocks, i)))
        BY DEF WarningsAreReal, Warned, Left
    <2>3. warnings' = warnings /\ kinds' = kinds /\ done' = done  BY <1>5 DEF vars
    <2> QED BY <2>1, <2>2, <2>3, WarningsNextAre
<1> QED BY <1>1, <1>2, <1>3, <1>4, <1>5 DEF Next

(***************************************************************************)
(* For files of every length the warnings are of exactly the commands the  *)
(* session warns of or does nothing for, and of the block left open        *)
(* (_group_transactions).                                                  *)
(***************************************************************************)
THEOREM ParserWarnsTruly == Spec => []WarningsAreReal
<1>1. Init => BlocksKnown /\ WarningsAreReal
    <2> SUFFICES ASSUME Init PROVE WarningsAreReal  BY KnownInit
    <2>1. warnings = {} /\ Indices = {}  BY DEF Init, Indices
    <2> QED BY <2>1 DEF WarningsAreReal
<1>2. TypeOK /\ TypeOK' /\ BlocksKnown /\ WarningsAreReal /\ [Next]_vars
          => BlocksKnown' /\ WarningsAreReal'
    BY KnownStep, WarnStep
<1> QED BY <1>1, <1>2, GroupsTyped, PTL DEF Spec
=============================================================================
