------------------------------ MODULE Snapshot ------------------------------
(***************************************************************************)
(* The live snapshot (live/introspect.py, capture_snapshot): its queries,  *)
(* all in one READ ONLY transaction at READ COMMITTED, so that each        *)
(* sees what is committed when it runs.  Between any two of them the       *)
(* sessions of the database take locks, wait, commit and go idle, and the  *)
(* relations asked about are altered, dropped, renamed and created.        *)
(*                                                                         *)
(* A query runs in a savepoint: when it fails, the facts it was asked for  *)
(* are marked unavailable and the next one runs.  The connection may be    *)
(* lost at any time.                                                       *)
(*                                                                         *)
(* A relation is a name.  What it is under that name is an oid and a       *)
(* shape, which stands for its columns, indexes, constraints, partitions   *)
(* and sizes alike.  Locks are ACCESS EXCLUSIVE.                           *)
(***************************************************************************)
EXTENDS Naturals, FiniteSets

CONSTANTS
    Relations,     \* the relations asked about, in the order of their labels
    Partitioned,   \* those of them that are partitioned
    Sessions,      \* other sessions of the database
    Servers,       \* what the server and the role may be
    MaxEvents      \* bound on what happens to the capture: steps of the other
                   \* sessions, queries that fail of their own accord, and the
                   \* loss of its connection

\* As it was, altered, or another relation altogether.
Shapes == {"old", "new", "other"}
Oids == 1..(Cardinality(Relations) + MaxEvents)
Server == [version : Nat, readOnly : BOOLEAN, superuser : BOOLEAN, creates : BOOLEAN,
           writes : BOOLEAN, readsStats : BOOLEAN, replicas : BOOLEAN, analyzed : BOOLEAN,
           overloads : SUBSET {"i", "s", "v"}]

ASSUME RelationsAssumption ==
    Relations # {} /\ IsFiniteSet(Relations) /\ Relations = 1..Cardinality(Relations)
ASSUME SessionsAssumption == Sessions \subseteq Nat
ASSUME PartitionedAssumption == Partitioned \subseteq Relations
ASSUME ServersAssumption == Servers \subseteq Server
ASSUME MaxEventsAssumption == MaxEvents \in Nat

VARIABLES
    \* the database
    server,     \* one of Servers
    db,         \* what is committed under the name of each relation
    nextOid,
    sessions,   \* the other sessions: the oid they lock or wait for
    \* the capture
    at, on,     \* the next query, and the relation it is for
    conn,       \* the connection: open or lost
    relation,   \* facts per relation
    facts,      \* the other facts
    seen,       \* what the lock queries returned so far
    result,
    events,
    \* what the capture does not know, for the properties
    failed,     \* queries that failed of their own accord
    touched,    \* relations that changed during the capture
    met, moved  \* who waited for whom when that was asked, and whether the
                \* sessions moved before the last of the lock queries

database == <<server, db, nextOid, sessions>>
vars == <<database, at, on, conn, relation, facts, seen, result, events, failed, touched, met, moved>>

Unavailable == [available |-> FALSE]
Of(v) == [available |-> TRUE, value |-> v]
Fact(S) == {Unavailable} \cup [available : {TRUE}, value : S]

Absent == 0
NoSession == [oid |-> Absent, granted |-> FALSE, state |-> "none"]
NothingSeen == [blocked |-> {}, held |-> {}]

RelationFacts ==
    [exists : Fact(BOOLEAN), oid : Oids \cup {Absent}, reltuples : Fact(Shapes),
     statistics : Fact(Shapes), partitions : Fact(Shapes \cup {"zero"}),
     indexes : Fact(Shapes \cup {"empty"}), columns : Fact(Shapes \cup {"empty"}),
     dropped : Fact(Shapes \cup {"zero"}), constraints : Fact(Shapes \cup {"empty"}),
     size : Fact(Shapes), partitionsSize : Fact(Shapes \cup {"zero"}),
     indexSizes : Fact(Shapes \cup {"empty"})]
NoFacts ==
    [exists |-> Unavailable, oid |-> Absent, reltuples |-> Unavailable,
     statistics |-> Unavailable, partitions |-> Unavailable, indexes |-> Unavailable,
     columns |-> Unavailable, dropped |-> Unavailable, constraints |-> Unavailable,
     size |-> Unavailable, partitionsSize |-> Unavailable, indexSizes |-> Unavailable]

Waiters ==
    [relation : Relations, pid : Sessions, blockers : SUBSET Sessions,
     modes : BOOLEAN, since : BOOLEAN, idle : Fact(BOOLEAN)]
OtherFacts ==
    [settings : Fact(BOOLEAN), volatility : Fact({"i", "s", "v"}), type : Fact(BOOLEAN),
     change : Fact(Shapes), waiters : Fact(SUBSET Waiters), transactions : Fact(SUBSET Sessions),
     connections : Fact(BOOLEAN), hasReplicas : Fact(BOOLEAN), synchronous : Fact(BOOLEAN),
     replicas : Fact(BOOLEAN), calibration : Fact(BOOLEAN)]
NoOtherFacts ==
    [settings |-> Unavailable, volatility |-> Unavailable, type |-> Unavailable,
     change |-> Unavailable, waiters |-> Unavailable, transactions |-> Unavailable,
     connections |-> Unavailable, hasReplicas |-> Unavailable, synchronous |-> Unavailable,
     replicas |-> Unavailable, calibration |-> Unavailable]

Steps ==
    {"connect", "identity", "attributes", "privileges", "warnings", "server", "settings", "resolve",
     "statistics", "partitions", "indexes", "columns", "dropped", "constraints",
     "function", "type", "change", "blocked", "holders", "states", "transactions",
     "connections", "sizes", "partitionsSize", "indexSizes", "replicas",
     "synchronous", "replicaDetails", "calibration", "commit", "over"}

-----------------------------------------------------------------------------
(* What the queries return.                                                *)

\* The name a relation has now, if the oid is still one.
NamesNow(oid) == {r \in Relations : db[r].oid = oid}

ShapeOf(oid) == db[CHOOSE r \in Relations : db[r].oid = oid].shape

\* Slip: the rows are asked for by name.
RowsOfName(oid, none) == IF db[on].oid = Absent THEN none ELSE db[on].shape

\* Slip: the rows of the first relation, for each of them.
RowsOfFirst(oid, none) ==
    LET first == relation[CHOOSE r \in Relations : \A q \in Relations : r <= q].oid
    IN  IF NamesNow(first) = {} THEN none ELSE ShapeOf(first)

\* A query for the rows of an oid: no relation, no rows.
RowsOf(oid, none) == IF NamesNow(oid) = {} THEN none ELSE ShapeOf(oid)

\* Slip: the NULL is recorded as a value.
RowOfNull(oid) == Of(RowsOf(oid, "null"))

\* A query for the one row, or the size, of an oid: of one that is gone there
\* is no row, or a NULL, and no fact.
RowOf(oid) == IF NamesNow(oid) = {} THEN Unavailable ELSE Of(ShapeOf(oid))

Holders(oid) == {s \in Sessions : sessions[s].oid = oid /\ sessions[s].granted}
Queued(oid) == {s \in Sessions : sessions[s].oid = oid}

\* _gather_relation_static asks about the oid that was resolved, under
\* whatever name it goes by now.
ResolvedOids == {relation[r].oid : r \in Relations} \ {Absent}

\* oids[reloid]: of two names that were resolved to one oid, the last.
NameOf(oid) == CHOOSE r \in Relations :
    relation[r].oid = oid /\ \A q \in Relations : relation[q].oid = oid => q <= r

\* pg_locks, with pg_blocking_pids.
BlockedRows ==
    {[pid |-> s, oid |-> sessions[s].oid, blockers |-> Holders(sessions[s].oid)] :
        s \in {t \in Sessions : sessions[t].oid \in ResolvedOids /\ ~sessions[t].granted}}
HeldRows ==
    {[pid |-> s, oid |-> sessions[s].oid] :
        s \in {t \in Sessions : sessions[t].oid \in ResolvedOids /\ sessions[t].granted}}

\* pg_stat_activity.state: NULL for a role that may not read it, no row for a
\* backend that has ended.
StateOf(s) ==
    IF ~server.readsStats \/ sessions[s].state = "none" THEN "unknown" ELSE sessions[s].state

-----------------------------------------------------------------------------
(* How a query is asked.                                                   *)

\* Slip: no savepoint, a failure aborts the transaction the later ones run in.
AskInTransaction(q, answer, hidden) ==
    /\ at = q
    /\ \/ conn = "open" /\ failed = {} /\ answer /\ UNCHANGED <<failed, events>>
       \/ conn = "open" /\ events < MaxEvents /\ hidden
          /\ failed' = failed \cup {<<q, on>>} /\ events' = events + 1
       \/ (conn = "lost" \/ failed # {}) /\ hidden /\ UNCHANGED <<failed, events>>
    /\ UNCHANGED <<database, conn, touched, moved>>

\* _query: one query in a savepoint of its own.
Ask(q, answer, hidden) ==
    /\ at = q
    /\ \/ conn = "open" /\ answer /\ UNCHANGED <<failed, events>>
       \/ conn = "open" /\ events < MaxEvents /\ hidden
          /\ failed' = failed \cup {<<q, on>>} /\ events' = events + 1
       \/ conn = "lost" /\ hidden /\ UNCHANGED <<failed, events>>
    /\ UNCHANGED <<database, conn, touched, moved>>

Record(field, fact) == relation' = [relation EXCEPT ![on][field] = fact]
Learn(field, fact) == facts' = [facts EXCEPT ![field] = fact]

Then(q) == at' = q /\ UNCHANGED <<on, result>>

First == CHOOSE r \in Relations : \A q \in Relations : r <= q
Later == {r \in Relations : r > on}

\* The loop over the relations: the next one, or what comes after the loop.
NextRelation(first, done) ==
    /\ \/ /\ Later # {}
          /\ at' = first
          /\ on' \in {r \in Later : \A q \in Later : r <= q}
       \/ /\ Later = {}
          /\ at' = done
          /\ on' = First
    /\ UNCHANGED result

\* LiveIntrospectionError, WritableRoleError: no snapshot.
Refuse == at' = "over" /\ result' = "error" /\ UNCHANGED on

-----------------------------------------------------------------------------
(* The gate: who the capture is, and what the server is.                   *)

gathered == <<relation, facts, seen, met>>

Connect ==
    /\ at = "connect"
    /\ \/ Then("identity")
       \/ Refuse
    /\ UNCHANGED <<database, conn, gathered, failed, events, touched, moved>>

\* _guard_role, one query after the other; one that fails ends the capture.
Identity ==
    /\ Ask("identity",
           IF ~server.readOnly \/ server.superuser THEN Refuse ELSE Then("attributes"),
           Refuse)
    /\ UNCHANGED gathered

Attributes ==
    /\ Ask("attributes", IF server.creates THEN Refuse ELSE Then("privileges"), Refuse)
    /\ UNCHANGED gathered

Privileges ==
    /\ Ask("privileges", IF server.writes THEN Refuse ELSE Then("warnings"), Refuse)
    /\ UNCHANGED gathered

Warnings ==
    /\ Ask("warnings", Then("server"), Refuse)
    /\ UNCHANGED gathered

\* _gather_server; without a version, or with one older than 10, there is
\* nothing to look up.
ServerVersion ==
    /\ Ask("server", IF server.version < 10 THEN Refuse ELSE Then("settings"), Refuse)
    /\ UNCHANGED gathered

Settings ==
    /\ Ask("settings", Learn("settings", Of(TRUE)), UNCHANGED facts)
    /\ Then("resolve")
    /\ UNCHANGED <<relation, seen, met>>

-----------------------------------------------------------------------------
(* The relations: catalogs and statistics, which lock none of them.        *)

\* _resolve_relation.
Resolve ==
    /\ Ask("resolve",
           IF db[on].oid = Absent
           THEN Record("exists", Of(FALSE))
           ELSE relation' = [relation EXCEPT
                    ![on].exists = Of(TRUE),
                    ![on].oid = db[on].oid,
                    ![on].reltuples = IF server.analyzed THEN Of(db[on].shape) ELSE Unavailable],
           UNCHANGED relation)
    /\ NextRelation("resolve", "statistics")
    /\ UNCHANGED <<facts, seen, met>>

\* A relation that was not resolved: everything about it is unavailable.
PassOver ==
    /\ at \in {"statistics", "sizes"}
    /\ relation[on].oid = Absent
    /\ IF at = "statistics" THEN NextRelation("statistics", "function")
                            ELSE NextRelation("sizes", "replicas")
    /\ UNCHANGED <<database, conn, gathered, failed, events, touched, moved>>

\* A relation that is gone has no row, and no row is not a statistic.
Statistics ==
    /\ relation[on].oid # Absent
    /\ Ask("statistics", Record("statistics", RowOf(relation[on].oid)), UNCHANGED relation)
    /\ Then("partitions")
    /\ UNCHANGED <<facts, seen, met>>

Partitions ==
    /\ \/ /\ on \in Partitioned
          /\ Ask("partitions", Record("partitions", Of(RowsOf(relation[on].oid, "zero"))),
                 UNCHANGED relation)
       \/ /\ on \notin Partitioned
          /\ at = "partitions"
          /\ Record("partitions", Of("zero"))
          /\ UNCHANGED <<database, conn, failed, events, touched, moved>>
    /\ Then("indexes")
    /\ UNCHANGED <<facts, seen, met>>

Indexes ==
    /\ Ask("indexes", Record("indexes", Of(RowsOf(relation[on].oid, "empty"))), UNCHANGED relation)
    /\ Then("columns")
    /\ UNCHANGED <<facts, seen, met>>

\* _gather_columns: without the columns the dropped ones are not counted.
Columns ==
    /\ Ask("columns",
           Record("columns", Of(RowsOf(relation[on].oid, "empty"))) /\ Then("dropped"),
           UNCHANGED relation /\ Then("constraints"))
    /\ UNCHANGED <<facts, seen, met>>

DroppedColumns ==
    /\ Ask("dropped", Record("dropped", Of(RowsOf(relation[on].oid, "zero"))), UNCHANGED relation)
    /\ Then("constraints")
    /\ UNCHANGED <<facts, seen, met>>

Constraints ==
    /\ Ask("constraints", Record("constraints", Of(RowsOf(relation[on].oid, "empty"))),
           UNCHANGED relation)
    /\ NextRelation("statistics", "function")
    /\ UNCHANGED <<facts, seen, met>>

\* _gather_function: overloads that disagree decide nothing.
Function ==
    /\ Ask("function",
           Learn("volatility",
                 IF Cardinality(server.overloads) = 1
                 THEN Of(CHOOSE v \in server.overloads : TRUE)
                 ELSE Unavailable),
           UNCHANGED facts)
    /\ Then("type")
    /\ UNCHANGED <<relation, seen, met>>

Type ==
    /\ Ask("type", Learn("type", Of(TRUE)), UNCHANGED facts)
    /\ Then("change")
    /\ UNCHANGED <<relation, seen, met>>

\* _gather_type_change looks its relation up once more, by name.
TypeChange ==
    /\ Ask("change",
           IF db[First].oid = Absent THEN UNCHANGED facts ELSE Learn("change", Of(db[First].shape)),
           UNCHANGED facts)
    /\ Then("blocked")
    /\ UNCHANGED <<relation, seen, met>>

-----------------------------------------------------------------------------
(* The locks.  _gather_waiters asks three times: who waits, who holds, and *)
(* what the blockers are doing.                                            *)

Blockers == UNION {row.blockers : row \in seen.blocked}

\* Slip: a state that could not be read is taken for idle.
AllIdleOrUnknown(blockers, stateOf) ==
    IF blockers = {} THEN Unavailable
    ELSE Of(\A s \in blockers : stateOf[s] \in {"idle", "unknown"})

\* _blockers_all_idle: an unknown holder cannot be assumed idle.
AllIdle(blockers, stateOf) ==
    IF blockers = {} \/ \E s \in blockers : stateOf[s] = "unknown" THEN Unavailable
    ELSE Of(\A s \in blockers : stateOf[s] = "idle")

WaitersOf(blocked, held, stateOf) ==
    {[relation |-> NameOf(row.oid), pid |-> row.pid, blockers |-> row.blockers,
      modes |-> \E h \in held : h.oid = row.oid /\ h.pid \in row.blockers,
      since |-> server.version >= 14,
      idle |-> AllIdle(row.blockers, stateOf)] : row \in blocked}

States == [s \in Sessions |-> StateOf(s)]

\* Who waits for whom, as it is.
Waiting ==
    {[pid |-> row.pid, blockers |-> row.blockers,
      idle |-> \A s \in row.blockers : sessions[s].state = "idle"] : row \in BlockedRows}

Done(waiters) == Learn("waiters", waiters) /\ seen' = NothingSeen /\ Then("transactions")

BlockedQuery ==
    /\ \/ /\ ResolvedOids = {}
          /\ at = "blocked"
          /\ Done(Of({}))
          /\ UNCHANGED <<met, database, conn, failed, events, touched, moved>>
       \/ /\ ResolvedOids # {}
          /\ Ask("blocked",
                 /\ seen' = [seen EXCEPT !.blocked = BlockedRows]
                 /\ met' = Waiting
                 /\ Then("holders")
                 /\ UNCHANGED facts,
                 Done(Unavailable) /\ UNCHANGED met)
    /\ UNCHANGED relation

HoldersQuery ==
    /\ Ask("holders",
           IF Blockers = {}
           THEN Done(Of(WaitersOf(seen.blocked, HeldRows, States)))
           ELSE seen' = [seen EXCEPT !.held = HeldRows] /\ Then("states") /\ UNCHANGED facts,
           Done(Unavailable))
    /\ UNCHANGED <<relation, met>>

StatesQuery ==
    /\ Ask("states", Done(Of(WaitersOf(seen.blocked, seen.held, States))), Done(Unavailable))
    /\ UNCHANGED <<relation, met>>

\* _gather_long_transactions: masked rows would look like none.
Transactions ==
    /\ \/ /\ server.readsStats
          /\ Ask("transactions",
                 Learn("transactions", Of({s \in Sessions : sessions[s].state # "none"})),
                 UNCHANGED facts)
       \/ /\ ~server.readsStats
          /\ at = "transactions"
          /\ UNCHANGED <<facts, database, conn, failed, events, touched, moved>>
    /\ Then("connections")
    /\ UNCHANGED <<relation, seen, met>>

Connections ==
    /\ Ask("connections",
           IF server.readsStats THEN Learn("connections", Of(TRUE)) ELSE UNCHANGED facts,
           UNCHANGED facts)
    /\ Then("sizes")
    /\ UNCHANGED <<relation, seen, met>>

-----------------------------------------------------------------------------
(* The sizes, which open the relation and so queue behind its locks.       *)

\* Slip: the session's timeouts are not set.
TimesOutNever(oid) == FALSE

\* SET lock_timeout, statement_timeout: a queue is not waited in for ever.
TimesOut(oid) == Queued(oid) # {}

\* _finish_relation.
Sizes ==
    /\ relation[on].oid # Absent
    /\ \/ /\ Queued(relation[on].oid) = {}
          /\ Ask("sizes", Record("size", RowOf(relation[on].oid)), UNCHANGED relation)
       \/ /\ Queued(relation[on].oid) # {} /\ at = "sizes"
          /\ conn = "lost" \/ TimesOut(relation[on].oid)
          /\ UNCHANGED <<relation, database, conn, failed, events, touched, moved>>
    /\ Then("partitionsSize")
    /\ UNCHANGED <<facts, seen, met>>

\* The sum of no partitions is zero.
PartitionsSize ==
    /\ \/ /\ on \in Partitioned
          /\ Ask("partitionsSize", Record("partitionsSize", Of(RowsOf(relation[on].oid, "zero"))),
                 UNCHANGED relation)
       \/ /\ on \notin Partitioned
          /\ at = "partitionsSize"
          /\ Record("partitionsSize", Of("zero"))
          /\ UNCHANGED <<database, conn, failed, events, touched, moved>>
    /\ Then("indexSizes")
    /\ UNCHANGED <<facts, seen, met>>

\* One query per index that was listed.
IndexSizes ==
    /\ \/ /\ relation[on].indexes \in {Of(sh) : sh \in Shapes}
          /\ Ask("indexSizes", Record("indexSizes", RowOf(relation[on].oid)), UNCHANGED relation)
       \/ /\ relation[on].indexes \notin {Of(sh) : sh \in Shapes}
          /\ at = "indexSizes"
          /\ Record("indexSizes", relation[on].indexes)
          /\ UNCHANGED <<database, conn, failed, events, touched, moved>>
    /\ NextRelation("sizes", "replicas")
    /\ UNCHANGED <<facts, seen, met>>

-----------------------------------------------------------------------------
(* Replication, calibration, the end.                                      *)

Replicas ==
    /\ Ask("replicas", Learn("hasReplicas", Of(server.replicas)), UNCHANGED facts)
    /\ Then("synchronous")
    /\ UNCHANGED <<relation, seen, met>>

Synchronous ==
    /\ Ask("synchronous", Learn("synchronous", Of(TRUE)), UNCHANGED facts)
    /\ Then("replicaDetails")
    /\ UNCHANGED <<relation, seen, met>>

ReplicaDetails ==
    /\ \/ /\ facts.hasReplicas = Of(TRUE) /\ server.readsStats
          /\ Ask("replicaDetails", Learn("replicas", Of(TRUE)), UNCHANGED facts)
       \/ /\ at = "replicaDetails"
          /\ ~(facts.hasReplicas = Of(TRUE) /\ server.readsStats)
          /\ IF facts.hasReplicas = Of(FALSE) THEN Learn("replicas", Of(FALSE)) ELSE UNCHANGED facts
          /\ UNCHANGED <<database, conn, failed, events, touched, moved>>
    /\ Then("calibration")
    /\ UNCHANGED <<relation, seen, met>>

Calibration ==
    /\ Ask("calibration", Learn("calibration", Of(TRUE)), UNCHANGED facts)
    /\ Then("commit")
    /\ UNCHANGED <<relation, seen, met>>

\* Leaving the transaction of a connection that is gone may raise: the driver
\* decides.
Commit ==
    /\ at = "commit"
    /\ at' = "over"
    /\ \/ result' = "snapshot"
       \/ conn = "lost" /\ result' = "error"
    /\ UNCHANGED <<on, gathered, database, conn, failed, events, touched, moved>>

Gate ==
    Connect \/ Identity \/ Attributes \/ Privileges \/ Warnings \/ ServerVersion \/ Settings
Statics ==
    Resolve \/ PassOver \/ Statistics \/ Partitions \/ Indexes \/ Columns \/ DroppedColumns
    \/ Constraints \/ Function \/ Type \/ TypeChange
Concurrency == BlockedQuery \/ HoldersQuery \/ StatesQuery \/ Transactions \/ Connections
Finish ==
    Sizes \/ PartitionsSize \/ IndexSizes \/ Replicas \/ Synchronous \/ ReplicaDetails
    \/ Calibration \/ Commit
Capture == Gate \/ Statics \/ Concurrency \/ Finish

-----------------------------------------------------------------------------
(* The others.  What they do before the first relation is looked up is     *)
(* another initial state, and after the last size nothing of it is read.   *)

captured == <<at, on, gathered, result, failed>>
Watched ==
    {"resolve", "statistics", "partitions", "indexes", "columns", "dropped", "constraints",
     "function", "type", "change", "blocked", "holders", "states", "transactions",
     "connections", "sizes", "partitionsSize", "indexSizes"}

LoseConnection ==
    /\ conn = "open"
    /\ at \notin {"connect", "over"}
    /\ events < MaxEvents
    /\ events' = events + 1
    /\ conn' = "lost"
    /\ UNCHANGED <<database, captured, touched, moved>>

Move(s) ==
    /\ at \in Watched
    /\ events < MaxEvents
    /\ events' = events + 1
    /\ moved' = (moved \/ at \in {"holders", "states"})
    /\ UNCHANGED <<server, captured, conn>>

\* A session opens a transaction and asks for the lock of a relation.
Lock(s, r) ==
    /\ Move(s)
    /\ sessions[s] = NoSession
    /\ db[r].oid # Absent
    /\ sessions' = [sessions EXCEPT ![s] =
           [oid |-> db[r].oid, granted |-> Queued(db[r].oid) = {}, state |-> "active"]]
    /\ UNCHANGED <<db, nextOid, touched>>

\* The lock is free: a waiter gets it, or finds its relation gone and ends.
Grant(s) ==
    /\ Move(s)
    /\ sessions[s].oid # Absent /\ ~sessions[s].granted
    /\ Holders(sessions[s].oid) = {}
    /\ sessions' = [sessions EXCEPT ![s] =
           IF NamesNow(sessions[s].oid) = {} THEN NoSession ELSE [@ EXCEPT !.granted = TRUE]]
    /\ UNCHANGED <<db, nextOid, touched>>

\* A holder's client pauses between its statements, or goes on.
Pause(s) ==
    /\ Move(s)
    /\ sessions[s].granted
    /\ sessions' = [sessions EXCEPT ![s].state = IF @ = "active" THEN "idle" ELSE "active"]
    /\ UNCHANGED <<db, nextOid, touched>>

\* A holder commits: it altered its relation, dropped it, put another one in
\* its place, renamed it, or none of these.
Finished(s) == sessions' = [sessions EXCEPT ![s] = NoSession]
Release(s) ==
    /\ Move(s)
    /\ sessions[s].granted
    /\ Finished(s)
    /\ UNCHANGED <<db, nextOid, touched>>
Change(s) ==
    /\ Move(s)
    /\ sessions[s].granted
    /\ Finished(s)
    /\ \E r \in NamesNow(sessions[s].oid) :
          /\ \/ db' = [db EXCEPT ![r].shape = IF @ = "old" THEN "new" ELSE @]
             \/ db' = [db EXCEPT ![r].oid = Absent]
             \/ db' = [db EXCEPT ![r] = [oid |-> nextOid, shape |-> "other"]]
             \/ \E q \in Relations :
                   /\ db[q].oid = Absent
                   /\ db' = [db EXCEPT ![r].oid = Absent, ![q] = db[r]]
          /\ touched' = touched \cup {x \in Relations : db'[x] # db[x]}
    /\ nextOid' = nextOid + 1

Others ==
    \E s \in Sessions :
        Grant(s) \/ Pause(s) \/ Release(s) \/ Change(s) \/ \E r \in Relations : Lock(s, r)

\* When the capture begins only the first relation is locked, by the first
\* session, and the others wait or do not.
Init ==
    /\ server \in Servers
    /\ db \in [Relations -> {[oid |-> o, shape |-> "old"] : o \in Relations \cup {Absent}}]
    /\ \A r \in Relations : db[r].oid \in {r, Absent}
    /\ nextOid = Cardinality(Relations) + 1
    /\ sessions \in [Sessions ->
           {NoSession} \cup [oid : {db[First].oid} \ {Absent}, granted : BOOLEAN,
                             state : {"active", "idle"}]]
    /\ \A s, t \in Sessions : sessions[s].oid # Absent =>
          /\ sessions[s].granted <=> \A u \in Sessions : s <= u
          /\ sessions[s].granted \/ sessions[s].state = "active"
          /\ t < s => sessions[t].oid # Absent
    /\ events = 0
    /\ at = "connect" /\ on = First /\ conn = "open" /\ result = "pending"
    /\ relation = [r \in Relations |-> NoFacts]
    /\ facts = NoOtherFacts
    /\ seen = NothingSeen
    /\ failed = {} /\ touched = {} /\ met = {} /\ moved = FALSE

Next == Capture \/ LoseConnection \/ Others

\* The capture's queries return: the server answers, refuses, or stops
\* answering, in which case the timeouts set on the session end the query.
Spec == Init /\ [][Next]_vars /\ WF_vars(Capture)

-----------------------------------------------------------------------------
(* Properties.                                                             *)

\* Every variable has a value of its type, whatever the queries returned.
TypeOK ==
    /\ server \in Servers
    /\ db \in [Relations -> [oid : Oids \cup {Absent}, shape : Shapes]]
    /\ sessions \in [Sessions -> [oid : Oids \cup {Absent}, granted : BOOLEAN,
                                  state : {"none", "active", "idle"}]]
    /\ events \in 0..MaxEvents /\ nextOid \in Nat
    /\ at \in Steps /\ on \in Relations /\ conn \in {"open", "lost"}
    /\ relation \in [Relations -> RelationFacts]
    /\ facts \in OtherFacts
    /\ result \in {"pending", "snapshot", "error"}
    /\ failed \subseteq Steps \X Relations /\ touched \subseteq Relations /\ moved \in BOOLEAN

Fields == {"columns", "constraints", "indexes", "statistics", "size"}
Told(r) == {relation[r][f].value : f \in {g \in Fields : relation[r][g].available}}

\* What a snapshot says of a relation that was left alone while it was taken
\* is so: its facts are unavailable or those of that relation, and it exists
\* when it does (introspect.py:156: per-field unavailable markers).
StableFactsTrue ==
    result = "snapshot" => \A r \in Relations \ touched :
        /\ relation[r].exists \in {Unavailable, Of(db[r].oid # Absent)}
        /\ Told(r) \subseteq {db[r].shape}
        /\ relation[r].oid # Absent => Told(r) \subseteq {ShapeOf(relation[r].oid)}

\* The facts of one relation are about one relation: a table dropped and
\* created again under its name between two queries never lends the new one's
\* columns to the old one (introspect.py:870, queries by oid).  One that
\* vanished leaves empty lists, which look like those of a table without
\* columns or indexes: then its size, asked for last, is never a number.
OneRelation ==
    \A r \in Relations :
        /\ "other" \in Told(r) => Told(r) \subseteq {"other", "empty"}
        /\ result = "snapshot" /\ "empty" \in Told(r) => ~relation[r].size.available

\* The waiters of a snapshot are those that were waiting when that was asked,
\* with their blockers; and a waiter's blockers are said to be all idle, which
\* the engine takes for a short wait, only if they were, unless the sessions
\* moved between the three queries (introspect.py:1492).
WaitersTrue ==
    result = "snapshot" /\ facts.waiters.available =>
        /\ {<<w.pid, w.blockers>> : w \in facts.waiters.value} = {<<m.pid, m.blockers>> : m \in met}
        /\ ~moved => \A w \in facts.waiters.value, m \in met :
              w.pid = m.pid /\ w.idle.available => w.idle.value = m.idle

\* A query that fails hides what it was asked for and nothing else: the
\* savepoint keeps the later ones going (introspect.py:294).
FailuresStayLocal ==
    result = "snapshot" /\ conn = "open" =>
        /\ \A r \in Relations : ~relation[r].exists.available => <<"resolve", r>> \in failed
        /\ \A r \in Relations \ touched : relation[r].oid # Absent =>
              \A f \in {"columns", "constraints", "indexes", "statistics"} :
                 ~relation[r][f].available => <<f, r>> \in failed
        /\ ~facts.type.available => <<"type", First>> \in failed
        /\ ~facts.synchronous.available => <<"synchronous", First>> \in failed
        /\ ~facts.calibration.available => <<"calibration", First>> \in failed

\* However long the others hold their locks, the capture ends
\* (introspect.py:198, the timeouts of the session).
CaptureEnds == <>(result # "pending")
=============================================================================
