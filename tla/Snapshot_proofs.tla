---------------------------- MODULE Snapshot_proofs ----------------------------
(***************************************************************************)
(* Proofs about Snapshot, for any relations and sessions, any server, and  *)
(* any number of events around the capture.                                *)
(*                                                                         *)
(* What a step of the capture does is said once, in the lemmas of the      *)
(* first part: where it goes, what may fail, and what it writes about the  *)
(* relations, the waiters and the rest.  The invariants are proved from    *)
(* these, and from what the steps of the others do to the database.        *)
(***************************************************************************)
EXTENDS Snapshot, Numbers, FiniteSetTheorems, TLAPS

N == Cardinality(Relations)

LEMMA RelationsAre == N \in Nat /\ Relations = 1..N /\ Relations \subseteq Nat
<1>1. N \in Nat /\ Relations = 1..N
    BY RelationsAssumption, FS_CardinalityType DEF N
<1> QED BY <1>1

LEMMA FirstIsOne == First \in Relations /\ \A q \in Relations : First <= q
<1>1. PICK r \in Relations : \A q \in Relations : r <= q
    BY RelationsAssumption, RelationsAre, LeastNumber
<1> QED BY <1>1 DEF First

(***************************************************************************)
(* The name an oid was resolved under, and the shape of what has one.      *)
(***************************************************************************)
LEMMA NameOfIsOne ==
    ASSUME NEW oid \in ResolvedOids
    PROVE  NameOf(oid) \in Relations /\ relation[NameOf(oid)].oid = oid
<1> DEFINE S == {r \in Relations : relation[r].oid = oid}
<1>1. S \in SUBSET (0..N) /\ S # {}  BY RelationsAre DEF ResolvedOids
<1>2. PICK r \in S : \A q \in S : q <= r  BY <1>1, RelationsAre, GreatestNumber
<1> QED BY <1>2 DEF NameOf

LEMMA ShapeOfIsOne ==
    ASSUME NEW oid, NamesNow(oid) # {},
           \A r \in Relations : db[r].shape \in Shapes
    PROVE  ShapeOf(oid) \in Shapes
BY DEF ShapeOf, NamesNow

LEMMA RowsTyped ==
    ASSUME NEW oid, NEW none, \A r \in Relations : db[r].shape \in Shapes
    PROVE  /\ Of(RowsOf(oid, none)) \in Fact(Shapes \cup {none})
           /\ RowOf(oid) \in Fact(Shapes)
<1>1. CASE NamesNow(oid) = {}  BY <1>1 DEF RowsOf, RowOf, Of, Fact
<1>2. CASE NamesNow(oid) # {}  BY <1>2, ShapeOfIsOne DEF RowsOf, RowOf, Of, Fact
<1> QED BY <1>1, <1>2

-----------------------------------------------------------------------------
(* What a step of the capture does.                                        *)

(***************************************************************************)
(* It leaves the database to the others, and at most one query fails.      *)
(***************************************************************************)
Early == {"connect", "identity", "attributes", "privileges", "warnings", "server", "settings"}
Gathering == {"statistics", "partitions", "indexes", "columns", "dropped", "constraints"}
Sizing == {"sizes", "partitionsSize", "indexSizes"}

Tries ==
    /\ UNCHANGED <<database, conn, touched, moved>>
    /\ \/ UNCHANGED <<failed, events>>
       \/ /\ failed' = failed \cup {<<at, on>>} /\ events' = events + 1
          /\ events < MaxEvents

LEMMA CaptureTries == Capture => Tries
<1>1. Gate => Tries
    BY DEF Gate, Connect, Identity, Attributes, Privileges, Warnings, ServerVersion, Settings,
           Ask, Tries
<1>2. Statics => Tries
    BY DEF Statics, Resolve, PassOver, Statistics, Partitions, Indexes, Columns, DroppedColumns,
           Constraints, Function, Type, TypeChange, Ask, Tries
<1>3. Concurrency => Tries
    BY DEF Concurrency, BlockedQuery, HoldersQuery, StatesQuery, Transactions, Connections,
           Ask, Tries
<1>4. Finish => Tries
    BY DEF Finish, Sizes, PartitionsSize, IndexSizes, Replicas, Synchronous, ReplicaDetails,
           Calibration, Commit, Ask, Tries
<1> QED BY <1>1, <1>2, <1>3, <1>4 DEF Capture

(***************************************************************************)
(* Where it goes: refused, to the end, from one query to another for the   *)
(* same relation, or to the next relation of a loop.                       *)
(***************************************************************************)
Route ==
    {<<"connect", "identity">>, <<"identity", "attributes">>, <<"attributes", "privileges">>,
     <<"privileges", "warnings">>, <<"warnings", "server">>, <<"server", "settings">>,
     <<"settings", "resolve">>,
     <<"statistics", "partitions">>, <<"partitions", "indexes">>, <<"indexes", "columns">>,
     <<"columns", "dropped">>, <<"columns", "constraints">>, <<"dropped", "constraints">>,
     <<"function", "type">>, <<"type", "change">>, <<"change", "blocked">>,
     <<"blocked", "holders">>, <<"blocked", "transactions">>, <<"holders", "states">>,
     <<"holders", "transactions">>, <<"states", "transactions">>,
     <<"transactions", "connections">>, <<"connections", "sizes">>,
     <<"sizes", "partitionsSize">>, <<"partitionsSize", "indexSizes">>,
     <<"replicas", "synchronous">>, <<"synchronous", "replicaDetails">>,
     <<"replicaDetails", "calibration">>, <<"calibration", "commit">>}

Refused == at \in Early /\ Refuse
Concluded == at = "commit" /\ at' = "over" /\ on' = on /\ result' \in {"snapshot", "error"}
Onward ==
    /\ <<at, at'>> \in Route /\ UNCHANGED <<on, result>>
    /\ at \in {"statistics", "sizes"} => relation[on].oid # Absent
Looped ==
    \/ at = "resolve" /\ NextRelation("resolve", "statistics")
    \/ /\ at \in {"statistics", "constraints"}
       /\ at = "statistics" => relation[on].oid = Absent
       /\ NextRelation("statistics", "function")
    \/ /\ at \in {"sizes", "indexSizes"}
       /\ at = "sizes" => relation[on].oid = Absent
       /\ NextRelation("sizes", "replicas")
Goes == Refused \/ Concluded \/ Onward \/ Looped

LEMMA CaptureGoes == Capture => Goes
<1>1. Gate => Refused \/ Onward
    BY DEF Gate, Connect, Identity, Attributes, Privileges, Warnings, ServerVersion, Settings,
           Ask, Then, Refused, Refuse, Onward, Route, Early, Gathering, Sizing
<1>2. Statics => Looped \/ Onward
    <2>1. Resolve => Looped  BY DEF Resolve, Ask, Looped
    <2>2. PassOver => Looped  BY DEF PassOver, Looped
    <2>3. Constraints => Looped  BY DEF Constraints, Ask, Looped
    <2>4. Statistics \/ Partitions \/ Indexes \/ Columns \/ DroppedColumns => Onward
        BY DEF Statistics, Partitions, Indexes, Columns, DroppedColumns, Ask, Then, Onward, Route,
               Gathering, Sizing
    <2>5. Function \/ Type \/ TypeChange => Onward
        BY DEF Function, Type, TypeChange, Ask, Then, Onward, Route, Gathering, Sizing
    <2> QED BY <2>1, <2>2, <2>3, <2>4, <2>5 DEF Statics
<1>3. Concurrency => Onward
    BY DEF Concurrency, BlockedQuery, HoldersQuery, StatesQuery, Transactions, Connections,
           Ask, Done, Then, Onward, Route, Gathering, Sizing
<1>4. Finish => Concluded \/ Looped \/ Onward
    <2>1. IndexSizes => Looped  BY DEF IndexSizes, Ask, Looped
    <2>2. Commit => Concluded  BY DEF Commit, Concluded
    <2>3. Sizes \/ PartitionsSize \/ Replicas \/ Synchronous \/ ReplicaDetails \/ Calibration => Onward
        BY DEF Sizes, PartitionsSize, Replicas, Synchronous, ReplicaDetails, Calibration,
               Ask, Then, Onward, Route, Gathering, Sizing
    <2> QED BY <2>1, <2>2, <2>3 DEF Finish
<1> QED BY <1>1, <1>2, <1>3, <1>4 DEF Capture, Goes

(***************************************************************************)
(* What it writes about the relation it is at.  When a query of those that *)
(* FailuresStayLocal is about writes nothing, it failed.                   *)
(***************************************************************************)
Failing == conn = "open" => <<at, on>> \in failed'

Records ==
    \/ /\ UNCHANGED relation
       /\ at \in {"resolve", "indexes", "columns", "constraints"} => Failing
       /\ at = "statistics" => Failing \/ relation[on].oid = Absent
    \/ at = "resolve" /\ db[on].oid = Absent /\ Record("exists", Of(FALSE))
    \/ /\ at = "resolve" /\ db[on].oid # Absent
       /\ \E rows \in Fact(Shapes) :
             relation' = [relation EXCEPT ![on].exists = Of(TRUE), ![on].oid = db[on].oid,
                                          ![on].reltuples = rows]
    \/ /\ at \in {"statistics", "sizes"} /\ relation[on].oid # Absent
       /\ Record(IF at = "sizes" THEN "size" ELSE at, RowOf(relation[on].oid))
    \/ /\ at \in {"indexes", "columns", "constraints"}
       /\ Record(at, Of(RowsOf(relation[on].oid, "empty")))
    \/ /\ at \in {"partitions", "dropped", "partitionsSize"}
       /\ \E fact \in Fact(Shapes \cup {"zero"}) : Record(at, fact)
    \/ at = "indexSizes" /\ \E fact \in Fact(Shapes \cup {"empty"}) : Record("indexSizes", fact)

LEMMA CaptureRecords == TypeOK /\ Capture => Records
<1> SUFFICES ASSUME TypeOK, Capture PROVE Records  OBVIOUS
<1>1. /\ relation[on].indexes \in Fact(Shapes \cup {"empty"})
      /\ \A r \in Relations : db[r].shape \in Shapes
    BY DEF TypeOK, RelationFacts
<1>2. \A oid, none : /\ Of(RowsOf(oid, none)) \in Fact(Shapes \cup {none})
                     /\ RowOf(oid) \in Fact(Shapes)
    BY <1>1, RowsTyped
<1>3. Of("zero") \in Fact(Shapes \cup {"zero"}) /\ RowOf(relation[on].oid) \in Fact(Shapes \cup {"empty"})
    BY <1>2 DEF Fact, Of
<1>4. CASE Gate
    BY <1>4 DEF Gate, Connect, Identity, Attributes, Privileges, Warnings, ServerVersion, Settings,
                Ask, gathered, Records
<1>5. CASE Statics
    <2>1. CASE Resolve
        <3>1. (IF server.analyzed THEN Of(db[on].shape) ELSE Unavailable) \in Fact(Shapes)
            BY <1>1 DEF Fact, Of, TypeOK
        <3> QED BY <2>1, <3>1 DEF Resolve, Ask, Records, Failing
    <2>2. CASE PassOver  BY <2>2 DEF PassOver, gathered, Records
    <2>3. CASE Statistics  BY <2>3 DEF Statistics, Ask, Records, Failing
    <2>4. CASE Partitions  BY <1>2, <1>3, <2>4 DEF Partitions, Ask, Records, Failing
    <2>5. CASE Indexes  BY <2>5 DEF Indexes, Ask, Records, Failing
    <2>6. CASE Columns  BY <2>6 DEF Columns, Ask, Records, Failing
    <2>7. CASE DroppedColumns  BY <1>2, <2>7 DEF DroppedColumns, Ask, Records, Failing
    <2>8. CASE Constraints  BY <2>8 DEF Constraints, Ask, Records, Failing
    <2>9. CASE Function \/ Type \/ TypeChange
        BY <2>9 DEF Function, Type, TypeChange, Ask, Records
    <2> QED BY <1>5, <2>1, <2>2, <2>3, <2>4, <2>5, <2>6, <2>7, <2>8, <2>9 DEF Statics
<1>6. CASE Concurrency
    BY <1>6 DEF Concurrency, BlockedQuery, HoldersQuery, StatesQuery, Transactions, Connections,
                Ask, Records
<1>7. CASE Finish
    <2>1. CASE Sizes  BY <2>1 DEF Sizes, Ask, Records, Failing
    <2>2. CASE PartitionsSize  BY <1>2, <1>3, <2>2 DEF PartitionsSize, Ask, Records, Failing
    <2>3. CASE IndexSizes  BY <1>1, <1>3, <2>3 DEF IndexSizes, Ask, Records, Failing
    <2>4. CASE Replicas \/ Synchronous \/ ReplicaDetails \/ Calibration \/ Commit
        BY <2>4 DEF Replicas, Synchronous, ReplicaDetails, Calibration, Commit, Ask, gathered,
                    Records
    <2> QED BY <1>7, <2>1, <2>2, <2>3, <2>4 DEF Finish
<1> QED BY <1>4, <1>5, <1>6, <1>7 DEF Capture

(***************************************************************************)
(* What it learns otherwise, and from the three queries for the waiters.   *)
(***************************************************************************)
Learns ==
    \/ UNCHANGED facts /\ (at \in {"type", "synchronous", "calibration"} => Failing)
    \/ at \in {"settings", "type", "connections", "synchronous", "calibration"} /\ Learn(at, Of(TRUE))
    \/ at = "function" /\ \E fact \in Fact({"i", "s", "v"}) : Learn("volatility", fact)
    \/ at = "change" /\ \E fact \in Fact(Shapes) : Learn("change", fact)
    \/ at = "transactions" /\ \E fact \in Fact(SUBSET Sessions) : Learn("transactions", fact)
    \/ at = "replicas" /\ \E fact \in Fact(BOOLEAN) : Learn("hasReplicas", fact)
    \/ at = "replicaDetails" /\ \E fact \in Fact(BOOLEAN) : Learn("replicas", fact)
    \/ at \in {"blocked", "holders", "states"}

Asking == {"blocked", "holders", "states"}
Waits ==
    \/ at \notin Asking /\ UNCHANGED <<seen, met>>
    \/ at = "blocked" /\ ResolvedOids = {} /\ Done(Of({})) /\ UNCHANGED met
    \/ /\ at = "blocked" /\ at' = "holders" /\ UNCHANGED facts
       /\ seen' = [seen EXCEPT !.blocked = BlockedRows] /\ met' = Waiting
    \/ /\ at = "holders" /\ at' = "states" /\ UNCHANGED <<facts, met>>
       /\ seen' = [seen EXCEPT !.held = HeldRows]
    \/ /\ at \in {"holders", "states"} /\ UNCHANGED met
       /\ \E held : Done(Of(WaitersOf(seen.blocked, held, States)))
    \/ at \in Asking /\ Done(Unavailable) /\ UNCHANGED met

LEMMA CaptureLearns == TypeOK /\ Capture => Learns
<1> SUFFICES ASSUME TypeOK, Capture PROVE Learns  OBVIOUS
<1>1. CASE Gate
    BY <1>1 DEF Gate, Connect, Identity, Attributes, Privileges, Warnings, ServerVersion, Settings,
                Ask, gathered, Learns
<1>2. CASE Statics
    <2>1. CASE Function
        <3>1. server \in Server  BY ServersAssumption DEF TypeOK
        <3>2. (IF Cardinality(server.overloads) = 1
               THEN Of(CHOOSE v \in server.overloads : TRUE) ELSE Unavailable)
              \in Fact({"i", "s", "v"})
            <4>1. CASE server.overloads = {}
                <5>1. Cardinality({}) = 0  BY FS_EmptySet
                <5>2. Cardinality(server.overloads) # 1  BY <4>1, <5>1
                <5> QED BY <5>2 DEF Fact
            <4>2. CASE server.overloads # {}  BY <3>1, <4>2 DEF Server, Fact, Of
            <4> QED BY <4>1, <4>2
        <3> QED BY <2>1, <3>2 DEF Function, Ask, Learns
    <2>2. CASE TypeChange
        <3>1. Of(db[First].shape) \in Fact(Shapes)  BY FirstIsOne DEF TypeOK, Fact, Of
        <3> QED BY <2>2, <3>1 DEF TypeChange, Ask, Learns
    <2>3. CASE ~(Function \/ TypeChange)
        BY <1>2, <2>3 DEF Statics, Resolve, PassOver, Statistics, Partitions, Indexes, Columns,
                          DroppedColumns, Constraints, Type, Ask, gathered, Learns, Failing
    <2> QED BY <2>1, <2>2, <2>3
<1>3. CASE Concurrency
    <2>1. Of({s \in Sessions : sessions[s].state # "none"}) \in Fact(SUBSET Sessions)
        BY DEF Fact, Of
    <2> QED BY <1>3, <2>1 DEF Concurrency, BlockedQuery, HoldersQuery, StatesQuery, Transactions,
                              Connections, Ask, Learns
<1>4. CASE Finish
    <2>1. /\ Of(server.replicas) \in Fact(BOOLEAN)
          /\ Of(TRUE) \in Fact(BOOLEAN) /\ Of(FALSE) \in Fact(BOOLEAN)
        BY ServersAssumption DEF TypeOK, Server, Fact, Of
    <2> QED BY <1>4, <2>1 DEF Finish, Sizes, PartitionsSize, IndexSizes, Replicas, Synchronous,
                              ReplicaDetails, Calibration, Commit, Ask, gathered, Learns, Failing
<1> QED BY <1>1, <1>2, <1>3, <1>4 DEF Capture

LEMMA CaptureWaits == Capture => Waits
<1>1. CASE Gate
    BY <1>1 DEF Gate, Connect, Identity, Attributes, Privileges, Warnings, ServerVersion, Settings,
                Ask, gathered, Waits, Asking
<1>2. CASE Statics
    BY <1>2 DEF Statics, Resolve, PassOver, Statistics, Partitions, Indexes, Columns,
                DroppedColumns, Constraints, Function, Type, TypeChange, Ask, gathered, Waits, Asking
<1>3. CASE Concurrency
    BY <1>3 DEF Concurrency, BlockedQuery, HoldersQuery, StatesQuery, Transactions,
                Connections, Ask, Then, Waits, Asking
<1>4. CASE Finish
    BY <1>4 DEF Finish, Sizes, PartitionsSize, IndexSizes, Replicas, Synchronous,
                ReplicaDetails, Calibration, Commit, Ask, gathered, Waits, Asking
<1> QED BY <1>1, <1>2, <1>3, <1>4 DEF Capture

-----------------------------------------------------------------------------
(* What a step of the others does.                                         *)

(***************************************************************************)
(* They leave the capture alone.  What is under the names stays, or it     *)
(* changes under one: it is altered, dropped, replaced by another          *)
(* relation, or renamed.                                                   *)
(***************************************************************************)
Moves ==
    /\ UNCHANGED <<server, captured, conn>> /\ events' = events + 1 /\ events < MaxEvents
    /\ moved' = (moved \/ at \in {"holders", "states"})

Becomes(r) ==
    \/ db' = [db EXCEPT ![r].shape = IF @ = "old" THEN "new" ELSE @]
    \/ db' = [db EXCEPT ![r].oid = Absent]
    \/ db' = [db EXCEPT ![r] = [oid |-> nextOid, shape |-> "other"]]
    \/ \E q \in Relations :
          /\ db[q].oid = Absent
          /\ db' = [db EXCEPT ![r].oid = Absent, ![q] = db[r]]

Changes ==
    \/ UNCHANGED <<db, nextOid, touched>>
    \/ /\ \E r \in Relations : Becomes(r)
       /\ touched' = touched \cup {x \in Relations : db'[x] # db[x]}
       /\ nextOid' = nextOid + 1

LEMMA OthersMove == Others => Moves /\ Changes
<1> SUFFICES ASSUME NEW s \in Sessions,
                    Grant(s) \/ Pause(s) \/ Release(s) \/ Change(s) \/ \E r \in Relations : Lock(s, r)
             PROVE  Moves /\ Changes
    BY DEF Others
<1>1. CASE Grant(s) \/ Pause(s) \/ Release(s) \/ \E r \in Relations : Lock(s, r)
    BY <1>1 DEF Grant, Pause, Release, Lock, Move, Moves, Changes
<1>2. CASE Change(s)
    BY <1>2 DEF Change, Move, Moves, Changes, Becomes, NamesNow
<1> QED BY <1>1, <1>2

LEMMA LosingMoves ==
    LoseConnection => /\ UNCHANGED <<database, captured, touched, moved>>
                      /\ events' = events + 1 /\ events < MaxEvents /\ conn' = "lost"
BY DEF LoseConnection

-----------------------------------------------------------------------------
(* Types.                                                                  *)

(***************************************************************************)
(* New oids are few: each takes an event.  What the lock queries returned  *)
(* is about relations that were resolved, and forgotten with the last.     *)
(***************************************************************************)
Grounds ==
    /\ nextOid \in (N + 1)..(N + 1 + events)
    /\ seen \in [blocked : SUBSET [pid : Sessions, oid : ResolvedOids, blockers : SUBSET Sessions],
                 held : SUBSET [pid : Sessions, oid : ResolvedOids]]
    /\ at \notin {"holders", "states"} => seen = NothingSeen

LEMMA TypeInit == Init => TypeOK /\ Grounds
<1> SUFFICES ASSUME Init PROVE TypeOK /\ Grounds  OBVIOUS
<1> USE RelationsAre, FirstIsOne
<1>1. \A r \in Relations : r \in Oids  BY MaxEventsAssumption DEF Oids, N
<1>2. db \in [Relations -> [oid : Oids \cup {Absent}, shape : Shapes]]
    BY <1>1 DEF Init, Shapes
<1>3. db[First].oid \in Oids \cup {Absent}  BY <1>2
<1>4. sessions \in [Sessions -> [oid : Oids \cup {Absent}, granted : BOOLEAN,
                                 state : {"none", "active", "idle"}]]
    <2>1. NoSession \in [oid : Oids \cup {Absent}, granted : BOOLEAN,
                         state : {"none", "active", "idle"}]
        BY DEF NoSession
    <2>2. [oid : {db[First].oid} \ {Absent}, granted : BOOLEAN, state : {"active", "idle"}]
          \subseteq [oid : Oids \cup {Absent}, granted : BOOLEAN,
                     state : {"none", "active", "idle"}]
        BY <1>3
    <2> QED BY <2>1, <2>2 DEF Init
<1>5. relation \in [Relations -> RelationFacts]
    <2>1. NoFacts \in RelationFacts  BY DEF NoFacts, RelationFacts, Fact
    <2> QED BY <2>1 DEF Init
<1>6. facts \in OtherFacts  BY DEF Init, NoOtherFacts, OtherFacts, Fact
<1>7. TypeOK
    <2>1. events \in 0..MaxEvents /\ nextOid \in Nat  BY MaxEventsAssumption DEF Init, N
    <2>2. /\ server \in Servers /\ at \in Steps /\ on \in Relations /\ conn \in {"open", "lost"}
          /\ result \in {"pending", "snapshot", "error"}
          /\ failed \subseteq Steps \X Relations /\ touched \subseteq Relations /\ moved \in BOOLEAN
        BY DEF Init, Steps
    <2> QED BY <1>2, <1>4, <1>5, <1>6, <2>1, <2>2 DEF TypeOK
<1>8. Grounds  BY DEF Init, Grounds, NothingSeen, N
<1> QED BY <1>7, <1>8

(***************************************************************************)
(* Recording one fact changes that fact only.                              *)
(***************************************************************************)
FactNames ==
    {"exists", "reltuples", "statistics", "partitions", "indexes", "columns", "dropped",
     "constraints", "size", "partitionsSize", "indexSizes"}

LEMMA Recorded ==
    ASSUME relation \in [Relations -> RelationFacts], on \in Relations,
           NEW f \in FactNames, NEW fact, Record(f, fact)
    PROVE  \A r \in Relations : \A g \in FactNames \cup {"oid"} :
              relation'[r][g] = IF r = on /\ g = f THEN fact ELSE relation[r][g]
<1>1. DOMAIN relation[on] = FactNames \cup {"oid"}  BY DEF RelationFacts, FactNames
<1> QED BY <1>1 DEF Record, FactNames

LEMMA RecordsTyped ==
    ASSUME TypeOK, Records
    PROVE  relation' \in [Relations -> RelationFacts]
<1> USE DEF TypeOK
<1>1. \A none : /\ Of(RowsOf(relation[on].oid, none)) \in Fact(Shapes \cup {none})
                /\ RowOf(relation[on].oid) \in Fact(Shapes)
    <2>1. \A r \in Relations : db[r].shape \in Shapes  OBVIOUS
    <2> QED BY <2>1, RowsTyped
<1>2. relation[on] \in RelationFacts  OBVIOUS
<1>3. \A new \in RelationFacts : [relation EXCEPT ![on] = new] \in [Relations -> RelationFacts]
    OBVIOUS
<1>4. CASE at = "resolve" /\ Record("exists", Of(FALSE))
    <2>1. Of(FALSE) \in Fact(BOOLEAN)  BY DEF Fact, Of
    <2>2. [relation[on] EXCEPT !["exists"] = Of(FALSE)] \in RelationFacts
        BY <1>2, <2>1 DEF RelationFacts
    <2> QED BY <1>3, <1>4, <2>2 DEF Record
<1>5. ASSUME NEW rows \in Fact(Shapes), db[on].oid # Absent,
             relation' = [relation EXCEPT ![on].exists = Of(TRUE), ![on].oid = db[on].oid,
                                          ![on].reltuples = rows]
      PROVE  relation' \in [Relations -> RelationFacts]
    <2> DEFINE new == [relation[on] EXCEPT !.exists = Of(TRUE), !.oid = db[on].oid,
                                           !.reltuples = rows]
    <2>1. Of(TRUE) \in Fact(BOOLEAN) /\ db[on].oid \in Oids \cup {Absent}  BY DEF Fact, Of
    <2>2. new \in RelationFacts  BY <1>2, <2>1 DEF RelationFacts
    <2>3. relation' = [relation EXCEPT ![on] = new]  BY <1>5
    <2> QED BY <1>3, <2>2, <2>3
<1>6. ASSUME NEW f \in {"statistics", "size"}, NEW fact \in Fact(Shapes), Record(f, fact)
      PROVE  relation' \in [Relations -> RelationFacts]
    <2>1. [relation[on] EXCEPT ![f] = fact] \in RelationFacts  BY <1>2 DEF RelationFacts
    <2> QED BY <1>3, <1>6, <2>1 DEF Record
<1>7. ASSUME NEW f \in {"indexes", "columns", "constraints", "indexSizes"},
             NEW fact \in Fact(Shapes \cup {"empty"}), Record(f, fact)
      PROVE  relation' \in [Relations -> RelationFacts]
    <2>1. [relation[on] EXCEPT ![f] = fact] \in RelationFacts  BY <1>2 DEF RelationFacts
    <2> QED BY <1>3, <1>7, <2>1 DEF Record
<1>8. ASSUME NEW f \in {"partitions", "dropped", "partitionsSize"},
             NEW fact \in Fact(Shapes \cup {"zero"}), Record(f, fact)
      PROVE  relation' \in [Relations -> RelationFacts]
    <2>1. [relation[on] EXCEPT ![f] = fact] \in RelationFacts  BY <1>2 DEF RelationFacts
    <2> QED BY <1>3, <1>8, <2>1 DEF Record
<1> HIDE DEF TypeOK
<1> QED BY <1>1, <1>4, <1>5, <1>6, <1>7, <1>8 DEF Records, TypeOK

(***************************************************************************)
(* The waiters of the lock queries are typed, and so are all facts.        *)
(***************************************************************************)
LEMMA WaitersTyped ==
    ASSUME TypeOK, Grounds, NEW held
    PROVE  Of(WaitersOf(seen.blocked, held, States)) \in Fact(SUBSET Waiters)
<1>1. ASSUME NEW row \in seen.blocked
      PROVE  /\ row.pid \in Sessions /\ row.blockers \in SUBSET Sessions
             /\ NameOf(row.oid) \in Relations
             /\ AllIdle(row.blockers, States) \in Fact(BOOLEAN)
    <2>1. row \in [pid : Sessions, oid : ResolvedOids, blockers : SUBSET Sessions]
        BY DEF Grounds
    <2>2. AllIdle(row.blockers, States) \in Fact(BOOLEAN)  BY DEF AllIdle, Fact, Of
    <2> QED BY <2>1, <2>2, NameOfIsOne
<1>2. ASSUME NEW w \in WaitersOf(seen.blocked, held, States)
      PROVE  w \in Waiters
    <2>1. PICK row \in seen.blocked :
              w = [relation |-> NameOf(row.oid), pid |-> row.pid, blockers |-> row.blockers,
                   modes |-> \E h \in held : h.oid = row.oid /\ h.pid \in row.blockers,
                   since |-> server.version >= 14, idle |-> AllIdle(row.blockers, States)]
        BY DEF WaitersOf
    <2>2. /\ (\E h \in held : h.oid = row.oid /\ h.pid \in row.blockers) \in BOOLEAN
          /\ (server.version >= 14) \in BOOLEAN
        OBVIOUS
    <2> QED BY <1>1, <2>1, <2>2 DEF Waiters
<1> HIDE DEF Waiters
<1>3. WaitersOf(seen.blocked, held, States) \in SUBSET Waiters  BY <1>2
<1> QED BY <1>3 DEF Fact, Of

LEMMA LearnsTyped ==
    ASSUME TypeOK, Grounds, Learns, Waits
    PROVE  facts' \in OtherFacts
<1> USE DEF OtherFacts
<1>1. facts \in OtherFacts  BY DEF TypeOK
<1>2. Of(TRUE) \in Fact(BOOLEAN)  BY DEF Fact, Of
<1>3. ASSUME NEW f \in {"settings", "type", "connections", "synchronous", "calibration",
                        "hasReplicas", "replicas"},
             NEW fact \in Fact(BOOLEAN), Learn(f, fact)
      PROVE  facts' \in OtherFacts
    BY <1>1, <1>3 DEF Learn
<1>4. ASSUME NEW fact \in Fact({"i", "s", "v"}), Learn("volatility", fact)
      PROVE  facts' \in OtherFacts
    BY <1>1, <1>4 DEF Learn
<1>5. ASSUME NEW fact \in Fact(Shapes), Learn("change", fact)
      PROVE  facts' \in OtherFacts
    BY <1>1, <1>5 DEF Learn
<1>6. ASSUME NEW fact \in Fact(SUBSET Sessions), Learn("transactions", fact)
      PROVE  facts' \in OtherFacts
    BY <1>1, <1>6 DEF Learn
<1>7. CASE at \in {"blocked", "holders", "states"}
    <2>1. ASSUME NEW fact \in Fact(SUBSET Waiters), Done(fact) PROVE facts' \in OtherFacts
        BY <1>1, <2>1 DEF Done, Learn
    <2>2. Of({}) \in Fact(SUBSET Waiters) /\ Unavailable \in Fact(SUBSET Waiters)
        BY DEF Fact, Of
    <2>3. \A held : Of(WaitersOf(seen.blocked, held, States)) \in Fact(SUBSET Waiters)
        BY WaitersTyped
    <2>4. CASE UNCHANGED facts  BY <1>1, <2>4
    <2> HIDE DEF OtherFacts
    <2> QED BY <1>7, <2>1, <2>2, <2>3, <2>4 DEF Waits, Asking
<1> HIDE DEF OtherFacts
<1>8. CASE UNCHANGED facts  BY <1>1, <1>8
<1> QED BY <1>2, <1>3, <1>4, <1>5, <1>6, <1>7, <1>8 DEF Learns

LEMMA CaptureTyped == TypeOK /\ Grounds /\ Capture => TypeOK' /\ Grounds'
<1> SUFFICES ASSUME TypeOK, Grounds, Capture PROVE TypeOK' /\ Grounds'  OBVIOUS
<1>1. Tries /\ Goes /\ Records /\ Learns /\ Waits
    BY CaptureTries, CaptureGoes, CaptureRecords, CaptureLearns, CaptureWaits
<1>2. relation' \in [Relations -> RelationFacts] /\ facts' \in OtherFacts
    BY <1>1, RecordsTyped, LearnsTyped
<1>3. at' \in Steps /\ on' \in Relations /\ result' \in {"pending", "snapshot", "error"}
    <2>1. on \in Relations /\ result \in {"pending", "snapshot", "error"}  BY DEF TypeOK
    <2>2. CASE Refused  BY <2>1, <2>2 DEF Refused, Refuse, Steps
    <2>3. CASE Concluded  BY <2>1, <2>3 DEF Concluded, Steps
    <2>4. CASE Onward  BY <2>1, <2>4 DEF Onward, Route, Steps
    <2>5. CASE Looped  BY <2>1, <2>5, FirstIsOne DEF Looped, NextRelation, Later, Steps
    <2> QED BY <1>1, <2>2, <2>3, <2>4, <2>5 DEF Goes
<1>4. /\ events' \in 0..MaxEvents /\ failed' \subseteq Steps \X Relations
      /\ nextOid' \in Nat /\ nextOid' \in (N + 1)..(N + 1 + events')
    <2>1. /\ events \in 0..MaxEvents /\ MaxEvents \in Nat /\ nextOid \in (N + 1)..(N + 1 + events)
          /\ failed \subseteq Steps \X Relations /\ <<at, on>> \in Steps \X Relations
        BY MaxEventsAssumption DEF TypeOK, Grounds
    <2>2. nextOid' = nextOid  BY <1>1 DEF Tries, database
    <2>3. events' \in {events, events + 1} /\ events' <= MaxEvents
        BY <1>1, <2>1 DEF Tries
    <2>4. failed' \subseteq Steps \X Relations  BY <1>1, <2>1 DEF Tries
    <2>5. events' \in 0..MaxEvents /\ events <= events'  BY <2>1, <2>3
    <2>6. N \in Nat /\ nextOid \in Nat /\ events \in Nat /\ events' \in Nat
        BY <2>1, <2>5, RelationsAre
    <2>7. nextOid \in (N + 1)..(N + 1 + events')
        <3>1. N + 1 <= nextOid /\ nextOid <= N + 1 + events  BY <2>6 DEF Grounds
        <3>2. nextOid <= N + 1 + events'
            <4>1. \A n, o, e, f \in Nat : o <= n + 1 + e /\ e <= f => o <= n + 1 + f
                OBVIOUS
            <4> QED BY <2>5, <2>6, <3>1, <4>1
        <3>3. nextOid \in Int /\ N + 1 \in Int /\ N + 1 + events' \in Int  BY <2>6
        <3> QED BY <3>1, <3>2, <3>3
    <2> QED BY <2>2, <2>4, <2>5, <2>6, <2>7
<1>5. TypeOK'
    <2>1. UNCHANGED <<server, db, sessions, conn, touched, moved, nextOid>>
        BY <1>1 DEF Tries, database
    <2> QED BY <1>2, <1>3, <1>4, <2>1 DEF TypeOK
<1>6. /\ seen' \in [blocked : SUBSET [pid : Sessions, oid : ResolvedOids', blockers : SUBSET Sessions],
                    held : SUBSET [pid : Sessions, oid : ResolvedOids']]
      /\ at' \notin {"holders", "states"} => seen' = NothingSeen
    <2>1. CASE Done(Unavailable) \/ \E v : Done(Of(v))
        <3>1. seen' = NothingSeen  BY <2>1 DEF Done
        <3> QED BY <3>1 DEF NothingSeen
    <2>2. CASE at \notin Asking /\ UNCHANGED <<seen, met>>
        <3>1. seen = NothingSeen  BY <2>2 DEF Grounds, Asking
        <3> QED BY <2>2, <3>1 DEF NothingSeen
    <2>3. CASE at \in Asking /\ at' \in {"holders", "states"} /\ (seen' = [seen EXCEPT !.blocked = BlockedRows]
                                                \/ seen' = [seen EXCEPT !.held = HeldRows])
        <3>1. UNCHANGED relation  BY <1>1, <2>3 DEF Records, Asking
        <3>2. ResolvedOids' = ResolvedOids  BY <3>1 DEF ResolvedOids
        <3>3. BlockedRows \subseteq [pid : Sessions, oid : ResolvedOids, blockers : SUBSET Sessions]
            BY DEF BlockedRows, Holders
        <3>4. HeldRows \subseteq [pid : Sessions, oid : ResolvedOids]  BY DEF HeldRows
        <3> QED BY <2>3, <3>2, <3>3, <3>4 DEF Grounds
    <2> QED BY <1>1, <2>1, <2>2, <2>3 DEF Waits, Asking
<1> QED BY <1>4, <1>5, <1>6 DEF Grounds

LEMMA OthersTyped == TypeOK /\ Grounds /\ Others => TypeOK' /\ Grounds'
<1> SUFFICES ASSUME TypeOK, Grounds, Others PROVE TypeOK' /\ Grounds'  OBVIOUS
<1>1. Moves /\ Changes  BY OthersMove
<1>2. /\ events \in 0..MaxEvents /\ nextOid \in (N + 1)..(N + 1 + events)
      /\ N \in Nat /\ MaxEvents \in Nat
    BY MaxEventsAssumption, RelationsAre DEF TypeOK, Grounds
<1>3. events' \in 0..MaxEvents /\ events' = events + 1 /\ events < MaxEvents
    BY <1>1, <1>2 DEF Moves
<1>4. nextOid' \in Nat /\ nextOid' \in (N + 1)..(N + 1 + events')
    <2>1. nextOid' \in {nextOid, nextOid + 1}  BY <1>1 DEF Changes
    <2> QED BY <1>2, <1>3, <2>1
<1>5. /\ db \in [Relations -> [oid : Oids \cup {Absent}, shape : Shapes]]
      /\ sessions \in [Sessions -> [oid : Oids \cup {Absent}, granted : BOOLEAN,
                                    state : {"none", "active", "idle"}]]
    BY DEF TypeOK
<1>6. db' \in [Relations -> [oid : Oids \cup {Absent}, shape : Shapes]]
    <2>1. nextOid \in Oids  BY <1>2, <1>3 DEF Oids, N
    <2>2. ASSUME NEW r \in Relations, Becomes(r)
          PROVE  db' \in [Relations -> [oid : Oids \cup {Absent}, shape : Shapes]]
        <3>1. CASE db' = [db EXCEPT ![r].shape = IF @ = "old" THEN "new" ELSE @]
            BY <1>5, <3>1 DEF Shapes
        <3>2. CASE db' = [db EXCEPT ![r].oid = Absent]
            BY <1>5, <3>2
        <3>3. CASE db' = [db EXCEPT ![r] = [oid |-> nextOid, shape |-> "other"]]
            BY <1>5, <2>1, <3>3 DEF Shapes
        <3>4. ASSUME NEW q \in Relations, db' = [db EXCEPT ![r].oid = Absent, ![q] = db[r]]
              PROVE  db' \in [Relations -> [oid : Oids \cup {Absent}, shape : Shapes]]
            BY <1>5, <3>4
        <3> QED BY <2>2, <3>1, <3>2, <3>3, <3>4 DEF Becomes
    <2> QED BY <1>1, <1>5, <2>2 DEF Changes
<1>7. sessions' \in [Sessions -> [oid : Oids \cup {Absent}, granted : BOOLEAN,
                                  state : {"none", "active", "idle"}]]
    <2> DEFINE Held == [oid : Oids \cup {Absent}, granted : BOOLEAN,
                        state : {"none", "active", "idle"}]
    <2>0. NoSession \in Held  BY DEF NoSession
    <2>1. PICK s \in Sessions :
              Grant(s) \/ Pause(s) \/ Release(s) \/ Change(s) \/ \E r \in Relations : Lock(s, r)
        BY DEF Others
    <2>2. CASE Grant(s)
        <3>1. [sessions[s] EXCEPT !.granted = TRUE] \in Held  BY <1>5
        <3>2. sessions' = [sessions EXCEPT ![s] = NoSession]
              \/ sessions' = [sessions EXCEPT ![s] = [sessions[s] EXCEPT !.granted = TRUE]]
            BY <2>2 DEF Grant
        <3> QED BY <1>5, <2>0, <3>1, <3>2
    <2>3. CASE Pause(s)  BY <1>5, <2>3 DEF Pause
    <2>4. CASE Release(s) \/ Change(s)
        <3>1. sessions' = [sessions EXCEPT ![s] = NoSession]
            BY <2>4 DEF Release, Change, Finished
        <3> QED BY <1>5, <2>0, <3>1
    <2>5. ASSUME NEW r \in Relations, Lock(s, r) PROVE sessions' \in [Sessions -> Held]
        <3> DEFINE new == [oid |-> db[r].oid, granted |-> Queued(db[r].oid) = {},
                           state |-> "active"]
        <3>1. new \in Held  BY <1>5
        <3>2. sessions' = [sessions EXCEPT ![s] = new]  BY <2>5 DEF Lock
        <3> QED BY <1>5, <3>1, <3>2
    <2> QED BY <2>1, <2>2, <2>3, <2>4, <2>5
<1>8. /\ UNCHANGED <<server, at, on, relation, facts, seen, met, result, failed, conn>>
      /\ touched' \subseteq Relations /\ moved' \in BOOLEAN
    BY <1>1 DEF Moves, Changes, captured, gathered, TypeOK
<1>9. ResolvedOids' = ResolvedOids  BY <1>8 DEF ResolvedOids
<1>10. TypeOK'  BY <1>3, <1>4, <1>6, <1>7, <1>8 DEF TypeOK
<1> QED BY <1>4, <1>8, <1>9, <1>10 DEF Grounds, NothingSeen

LEMMA LosingTyped == TypeOK /\ Grounds /\ LoseConnection => TypeOK' /\ Grounds'
<1> SUFFICES ASSUME TypeOK, Grounds, LoseConnection PROVE TypeOK' /\ Grounds'  OBVIOUS
<1>1. /\ UNCHANGED <<server, db, nextOid, sessions, at, on, relation, facts, seen, met, result,
                     failed, touched, moved>>
      /\ events' = events + 1 /\ events < MaxEvents /\ conn' = "lost"
    BY LosingMoves DEF database, captured, gathered
<1>2. events' \in 0..MaxEvents /\ nextOid \in (N + 1)..(N + 1 + events')
    BY <1>1, MaxEventsAssumption, RelationsAre DEF TypeOK, Grounds
<1>3. ResolvedOids' = ResolvedOids  BY <1>1 DEF ResolvedOids
<1>4. TypeOK'  BY <1>1, <1>2 DEF TypeOK
<1> QED BY <1>1, <1>2, <1>3, <1>4 DEF Grounds, NothingSeen

LEMMA IdleTyped == TypeOK /\ Grounds /\ UNCHANGED vars => TypeOK' /\ Grounds'
BY DEF vars, database, TypeOK, Grounds, ResolvedOids, NothingSeen

(***************************************************************************)
(* Every variable has a value of its type, for any relations, sessions     *)
(* and servers, whatever fails and whatever the others do: in particular   *)
(* every waiter of the snapshot waits for a relation that was asked about  *)
(* (_gather_waiters, introspect.py:1492).                                  *)
(***************************************************************************)
THEOREM SnapshotTyped == Spec => []TypeOK
<1>1. TypeOK /\ Grounds /\ [Next]_vars => TypeOK' /\ Grounds'
    BY CaptureTyped, OthersTyped, LosingTyped, IdleTyped DEF Next
<1> QED BY TypeInit, <1>1, PTL DEF Spec

-----------------------------------------------------------------------------
(* Which relation the facts are about.                                     *)

(***************************************************************************)
(* An oid is never used again, it is under one name at a time, and a       *)
(* relation that took the place of another has an oid of its own.          *)
(***************************************************************************)
Distinct ==
    /\ \A r \in Relations : db[r].oid < nextOid
    /\ \A r, q \in Relations : db[r].oid = db[q].oid /\ db[r].oid # Absent => r = q
    /\ \A r \in Relations : db[r].oid # Absent => (db[r].shape = "other" <=> db[r].oid > N)

LEMMA BecomesDistinct ==
    ASSUME TypeOK, Grounds, Distinct, NEW r \in Relations, Becomes(r), nextOid' = nextOid + 1
    PROVE  /\ Distinct'
           /\ \A x \in Relations :
                 \/ db'[x].oid \in {Absent, nextOid}
                 \/ \E y \in Relations : db'[x].oid = db[y].oid
<1>1. /\ db \in [Relations -> [oid : Oids \cup {Absent}, shape : Shapes]]
      /\ nextOid \in Nat /\ N \in Nat /\ N < nextOid
      /\ Oids \cup {Absent} \subseteq Nat
    BY RelationsAre DEF TypeOK, Grounds, Oids, Absent
<1>2. /\ \A x \in Relations : db[x].oid \in Nat /\ db[x].oid < nextOid
      /\ nextOid # Absent /\ nextOid > N
      /\ Absent < nextOid' /\ nextOid < nextOid' /\ N' = N
      /\ \A x \in Relations : db[x].oid < nextOid'
    BY <1>1 DEF Distinct, Absent, N
<1>3. CASE db' = [db EXCEPT ![r].shape = IF @ = "old" THEN "new" ELSE @]
    <2>1. \A x \in Relations : /\ db'[x].oid = db[x].oid
                               /\ db'[x].shape = "other" <=> db[x].shape = "other"
        BY <1>1, <1>3
    <2> QED BY <1>1, <1>2, <2>1 DEF Distinct
<1>4. CASE db' = [db EXCEPT ![r].oid = Absent]
    <2>1. \A x \in Relations : /\ db'[x].oid = IF x = r THEN Absent ELSE db[x].oid
                               /\ db'[x].shape = db[x].shape
        BY <1>1, <1>4
    <2> QED BY <1>1, <1>2, <2>1 DEF Distinct
<1>5. CASE db' = [db EXCEPT ![r] = [oid |-> nextOid, shape |-> "other"]]
    <2>1. /\ \A x \in Relations \ {r} : db'[x] = db[x]
          /\ db'[r].oid = nextOid /\ db'[r].shape = "other"
        BY <1>1, <1>5
    <2>2. \A x \in Relations : db'[x].oid < nextOid'  BY <1>2, <2>1
    <2>3. \A x \in Relations \ {r} : db'[x].oid # nextOid  BY <1>2, <2>1
    <2>4. \A x, y \in Relations : db'[x].oid = db'[y].oid /\ db'[x].oid # Absent => x = y
        BY <2>1, <2>3 DEF Distinct
    <2>5. \A x \in Relations : db'[x].oid # Absent => (db'[x].shape = "other" <=> db'[x].oid > N)
        BY <1>2, <2>1 DEF Distinct
    <2> QED BY <1>2, <2>1, <2>2, <2>4, <2>5 DEF Distinct
<1>6. ASSUME NEW q \in Relations, db[q].oid = Absent,
             db' = [db EXCEPT ![r].oid = Absent, ![q] = db[r]]
      PROVE  /\ Distinct'
             /\ \A x \in Relations :
                   \/ db'[x].oid \in {Absent, nextOid}
                   \/ \E y \in Relations : db'[x].oid = db[y].oid
    <2>1. \A x \in Relations \ {r, q} : db'[x] = db[x]  BY <1>1, <1>6
    <2>2. db'[q] = db[r] /\ (r # q => db'[r].oid = Absent)  BY <1>1, <1>6
    <2> DEFINE Source(x) == IF x = q THEN r ELSE x
    <2>3. \A x \in Relations :
             Source(x) \in Relations /\ (db'[x].oid # Absent => db'[x] = db[Source(x)])
        BY <2>1, <2>2
    <2>4. \A x, y \in Relations :
             db'[x].oid # Absent /\ db'[y].oid # Absent /\ Source(x) = Source(y) => x = y
        BY <1>6, <2>2
    <2> HIDE DEF Source
    <2>5. \A x \in Relations : db'[x].oid < nextOid'  BY <1>2, <2>3
    <2>6. \A x, y \in Relations : db'[x].oid = db'[y].oid /\ db'[x].oid # Absent => x = y
        BY <2>3, <2>4 DEF Distinct
    <2>7. \A x \in Relations : db'[x].oid # Absent => (db'[x].shape = "other" <=> db'[x].oid > N)
        BY <2>3 DEF Distinct
    <2>8. \A x \in Relations : db'[x].oid = Absent \/ \E y \in Relations : db'[x].oid = db[y].oid
        BY <2>3
    <2>9. N' = N  BY DEF N
    <2> QED BY <2>5, <2>6, <2>7, <2>8, <2>9 DEF Distinct
<1> QED BY <1>3, <1>4, <1>5, <1>6 DEF Becomes

LEMMA DistinctInit == Init => Distinct
<1> SUFFICES ASSUME Init PROVE Distinct  OBVIOUS
<1>1. /\ \A r \in Relations : db[r].oid \in {r, Absent} /\ db[r].shape = "old"
      /\ nextOid = N + 1 /\ N \in Nat /\ Relations = 1..N
    BY RelationsAre DEF Init, N
<1> QED BY <1>1 DEF Distinct, Absent

LEMMA DistinctStep ==
    ASSUME TypeOK, Grounds, Distinct, Changes
    PROVE  /\ Distinct'
           /\ \A oid : /\ oid # Absent /\ oid < nextOid /\ NamesNow(oid) = {}
                       => NamesNow(oid)' = {}
<1>1. CASE UNCHANGED <<db, nextOid, touched>>  BY <1>1 DEF Distinct, NamesNow
<1>2. ASSUME NEW r \in Relations, Becomes(r), nextOid' = nextOid + 1
      PROVE  /\ Distinct'
             /\ \A oid : /\ oid # Absent /\ oid < nextOid /\ NamesNow(oid) = {}
                         => NamesNow(oid)' = {}
    <2>1. nextOid \in Nat  BY DEF TypeOK
    <2>2. /\ Distinct'
          /\ \A x \in Relations : \/ db'[x].oid \in {Absent, nextOid}
                                  \/ \E y \in Relations : db'[x].oid = db[y].oid
        BY <1>2, BecomesDistinct
    <2> QED BY <2>1, <2>2 DEF NamesNow
<1> QED BY <1>1, <1>2 DEF Changes

(***************************************************************************)
(* The shape of an oid is that of the name it is under.                    *)
(***************************************************************************)
LEMMA ShapeOfIs ==
    ASSUME Distinct, NEW r \in Relations, db[r].oid # Absent
    PROVE  NamesNow(db[r].oid) = {r} /\ ShapeOf(db[r].oid) = db[r].shape
<1>1. \A q \in Relations : db[q].oid = db[r].oid <=> q = r  BY DEF Distinct
<1> QED BY <1>1 DEF NamesNow, ShapeOf

(***************************************************************************)
(* What was told of a relation that was left alone is so.  What was told   *)
(* of any relation is about the one its name was resolved to: the shapes   *)
(* are that one's, and where it had no rows it was gone, for good, before  *)
(* its size was asked for.                                                 *)
(***************************************************************************)
Stable(r) ==
    r \notin touched =>
        /\ relation[r].oid # Absent => relation[r].oid = db[r].oid
        /\ relation[r].exists \in {Unavailable, Of(db[r].oid # Absent)}
        /\ Told(r) \subseteq {db[r].shape}

Single(r) ==
    /\ relation[r].oid < nextOid
    /\ relation[r].oid = Absent => Told(r) = {}
    /\ \A v \in Told(r) : v # "empty" => (v = "other" <=> relation[r].oid > N)
    /\ "empty" \in Told(r) => NamesNow(relation[r].oid) = {} /\ ~relation[r].size.available

Middle == {"function", "type", "change", "blocked", "holders", "states", "transactions", "connections"}
Ordered ==
    /\ at \in Early \cup {"resolve"} => \A r \in Relations : Told(r) = {}
    /\ at \in Early \cup {"resolve"} \cup Gathering \cup Middle =>
          \A r \in Relations : ~relation[r].size.available
    /\ at \in (Gathering \ {"statistics"}) \cup {"partitionsSize", "indexSizes"} =>
          relation[on].oid # Absent

Known == Distinct /\ Ordered /\ \A r \in Relations : Stable(r) /\ Single(r)

LEMMA KnownInit == Init => Known
<1> SUFFICES ASSUME Init PROVE Known  OBVIOUS
<1>1. Distinct  BY DistinctInit
<1>2. \A r \in Relations : relation[r] = NoFacts  BY DEF Init
<1>3. /\ NoFacts.oid = Absent /\ NoFacts.exists = Unavailable /\ NoFacts.size = Unavailable
      /\ \A f \in Fields : NoFacts[f] = Unavailable
    BY DEF NoFacts, Fields
<1>4. ~Unavailable.available  BY DEF Unavailable
<1>5. \A r \in Relations : Told(r) = {}
    <2>1. \A r \in Relations, f \in Fields : ~relation[r][f].available
        BY <1>2, <1>3, <1>4
    <2> QED BY <2>1 DEF Told
<1>6. Absent < nextOid  BY RelationsAre DEF Init, Absent, N
<1>7. Ordered  BY <1>2, <1>3, <1>4, <1>5 DEF Init, Ordered, Early, Gathering
<1> QED BY <1>1, <1>2, <1>3, <1>4, <1>5, <1>6, <1>7 DEF Known, Stable, Single

(***************************************************************************)
(* Recording a fact tells at most what it says.                            *)
(***************************************************************************)
LEMMA ToldAfter ==
    ASSUME relation \in [Relations -> RelationFacts], on \in Relations,
           NEW f \in FactNames, NEW fact, Record(f, fact), NEW r \in Relations
    PROVE  /\ \A g \in FactNames \cup {"oid"} :
                 relation'[r][g] = IF r = on /\ g = f THEN fact ELSE relation[r][g]
           /\ \A v \in Told(r)' :
                 v \in Told(r) \/ (r = on /\ f \in Fields /\ fact.available /\ v = fact.value)
<1>1. \A g \in FactNames \cup {"oid"} :
         relation'[r][g] = IF r = on /\ g = f THEN fact ELSE relation[r][g]
    BY Recorded
<1>2. Fields \subseteq FactNames  BY DEF Fields, FactNames
<1>3. ASSUME NEW v \in Told(r)'
      PROVE  v \in Told(r) \/ (r = on /\ f \in Fields /\ fact.available /\ v = fact.value)
    <2>1. PICK g \in Fields : relation'[r][g].available /\ v = relation'[r][g].value
        BY DEF Told
    <2>2. CASE r = on /\ g = f  BY <1>1, <1>2, <2>1, <2>2
    <2>3. CASE ~(r = on /\ g = f)
        <3>1. relation'[r][g] = relation[r][g]  BY <1>1, <1>2, <2>3
        <3> QED BY <2>1, <3>1 DEF Told
    <2> QED BY <2>2, <2>3
<1> QED BY <1>1, <1>3

(***************************************************************************)
(* What a query for the rows of a resolved relation says of it.            *)
(***************************************************************************)
Says(fact) ==
    fact.available =>
        \/ fact.value = "empty" /\ NamesNow(relation[on].oid) = {}
        \/ /\ NamesNow(relation[on].oid) # {} /\ fact.value # "empty"
           /\ fact.value = "other" <=> relation[on].oid > N
           /\ Stable(on) /\ on \notin touched => fact.value = db[on].shape

LEMMA RowsSay ==
    ASSUME TypeOK, Distinct, relation[on].oid # Absent
    PROVE  /\ Says(RowOf(relation[on].oid)) /\ Says(Of(RowsOf(relation[on].oid, "empty")))
           /\ NamesNow(relation[on].oid) = {} => ~RowOf(relation[on].oid).available
<1> DEFINE oid == relation[on].oid
<1>1. CASE NamesNow(oid) = {}
    BY <1>1 DEF Says, RowOf, RowsOf, Of, Unavailable
<1>2. CASE NamesNow(oid) # {}
    <2>1. PICK q \in Relations : db[q].oid = oid  BY <1>2 DEF NamesNow
    <2>2. NamesNow(oid) = {q} /\ ShapeOf(oid) = db[q].shape  BY <2>1, ShapeOfIs
    <2>3. db[q].shape # "empty"  BY DEF TypeOK, Shapes
    <2>4. db[q].shape = "other" <=> oid > N  BY <2>1 DEF Distinct
    <2>5. on \notin touched /\ Stable(on) => q = on  BY <2>1, <2>2 DEF Stable, Distinct, TypeOK
    <2>6. RowOf(oid) = Of(db[q].shape) /\ Of(RowsOf(oid, "empty")) = Of(db[q].shape)
        BY <1>2, <2>2 DEF RowOf, RowsOf
    <2> HIDE DEF oid
    <2>7. Of(db[q].shape).value = db[q].shape  BY DEF Of
    <2> USE DEF oid
    <2> QED BY <1>2, <2>3, <2>4, <2>5, <2>6, <2>7 DEF Says
<1>3. NamesNow(oid) = {} => ~RowOf(oid).available  BY DEF RowOf, Unavailable
<1> QED BY <1>1, <1>2, <1>3

LEMMA KnownRecorded ==
    ASSUME TypeOK, Known, Tries, NEW f \in Fields, NEW fact, Says(fact), Record(f, fact),
           relation[on].oid # Absent,
           IF f = "size" THEN NamesNow(relation[on].oid) = {} => ~fact.available
                         ELSE ~relation[on].size.available,
           NEW r \in Relations
    PROVE  Stable(r)' /\ Single(r)'
<1>1. f \in FactNames  BY DEF Fields, FactNames
<1>2. /\ relation'[r].oid = relation[r].oid
      /\ relation'[r].exists = relation[r].exists
      /\ relation'[r].size = IF r = on /\ f = "size" THEN fact ELSE relation[r].size
      /\ \A v \in Told(r)' : v \in Told(r) \/ (r = on /\ fact.available /\ v = fact.value)
    <2>1. /\ \A g \in FactNames \cup {"oid"} :
                relation'[r][g] = IF r = on /\ g = f THEN fact ELSE relation[r][g]
          /\ \A v \in Told(r)' :
                v \in Told(r) \/ (r = on /\ f \in Fields /\ fact.available /\ v = fact.value)
        BY <1>1, ToldAfter DEF TypeOK
    <2> QED BY <2>1 DEF FactNames, Fields
<1>3. UNCHANGED <<db, nextOid, touched>> /\ \A oid : NamesNow(oid)' = NamesNow(oid)
    BY DEF Tries, database, NamesNow
<1>4. Stable(r) /\ Single(r)  BY DEF Known
<1>5. Stable(r)'
    <2>1. r \notin touched /\ r = on /\ fact.available => fact.value = db[r].shape
        <3>1. r \notin touched /\ r = on => r \in NamesNow(relation[r].oid)
            BY <1>4 DEF Stable, NamesNow
        <3> QED BY <1>4, <3>1 DEF Says
    <2> QED BY <1>2, <1>3, <1>4, <2>1 DEF Stable
<1>6. Single(r)'
    <2>1. /\ relation'[r].oid < nextOid'
          /\ relation'[r].oid = Absent => Told(r)' = {}
        BY <1>2, <1>3, <1>4 DEF Single
    <2>2. \A v \in Told(r)' : v # "empty" => (v = "other" <=> relation'[r].oid > N)
        BY <1>2, <1>4 DEF Single, Says
    <2>3. "empty" \in Told(r)' => NamesNow(relation[r].oid) = {}
        BY <1>2, <1>4 DEF Single, Says
    <2>4. "empty" \in Told(r)' => ~relation'[r].size.available
        <3>1. CASE r = on  BY <1>2, <1>4, <2>3, <3>1 DEF Single
        <3>2. CASE r # on  BY <1>2, <1>4, <3>2 DEF Single
        <3> QED BY <3>1, <3>2
    <2>5. N' = N  BY DEF N
    <2> QED BY <1>2, <1>3, <2>1, <2>2, <2>3, <2>4, <2>5 DEF Single
<1> QED BY <1>5, <1>6

LEMMA KnownResolved ==
    ASSUME TypeOK, Known, Tries, NEW here \in BOOLEAN, NEW r \in Relations,
           Told(r)' \subseteq Told(r), Told(r) = {},
           relation'[r].oid = IF r = on /\ here THEN db[on].oid ELSE relation[r].oid,
           relation'[r].exists = IF r = on THEN Of(here) ELSE relation[r].exists,
           here <=> db[on].oid # Absent
    PROVE  Stable(r)' /\ Single(r)'
<1>1. UNCHANGED <<db, nextOid, touched>>  BY DEF Tries, database
<1>2. Stable(r) /\ Single(r) /\ db[r].oid < nextOid  BY DEF Known, Distinct
<1>3. Stable(r)'  BY <1>1, <1>2 DEF Stable
<1>4. Single(r)'  BY <1>1, <1>2 DEF Single
<1> QED BY <1>3, <1>4

LEMMA ElsewhereKnown ==
    ASSUME TypeOK, Known, Tries,
           NEW f \in FactNames \ (Fields \cup {"exists"}), NEW fact, Record(f, fact),
           NEW r \in Relations
    PROVE  /\ Stable(r)' /\ Single(r)' /\ Told(r)' \subseteq Told(r)
           /\ relation'[r].oid = relation[r].oid /\ relation'[r].size = relation[r].size
<1>1. UNCHANGED <<db, nextOid, touched>> /\ \A oid : NamesNow(oid)' = NamesNow(oid)
    BY DEF Tries, database, NamesNow
<1>2. /\ relation'[r].oid = relation[r].oid /\ relation'[r].size = relation[r].size
      /\ relation'[r].exists = relation[r].exists
      /\ Told(r)' \subseteq Told(r)
    <2>1. /\ \A g \in FactNames \cup {"oid"} :
                relation'[r][g] = IF r = on /\ g = f THEN fact ELSE relation[r][g]
          /\ \A v \in Told(r)' :
                v \in Told(r) \/ (r = on /\ f \in Fields /\ fact.available /\ v = fact.value)
        BY ToldAfter DEF TypeOK
    <2> QED BY <2>1 DEF FactNames, Fields
<1>3. Stable(r) /\ Single(r) /\ N' = N  BY DEF Known, N
<1>4. Stable(r)'  BY <1>1, <1>2, <1>3 DEF Stable
<1>5. Single(r)'  BY <1>1, <1>2, <1>3 DEF Single
<1> QED BY <1>2, <1>4, <1>5

LEMMA RecordsKnown ==
    ASSUME TypeOK, Known, Tries, Goes, Records, NEW r \in Relations
    PROVE  /\ Stable(r)' /\ Single(r)'
           /\ at \in Early \cup {"resolve"} => Told(r)' \subseteq Told(r)
           /\ at # "resolve" => relation'[r].oid = relation[r].oid
           /\ at # "sizes" => relation'[r].size = relation[r].size
<1>1. UNCHANGED <<db, nextOid, touched>> /\ \A oid : NamesNow(oid)' = NamesNow(oid)
    BY DEF Tries, database, NamesNow
<1>2. Stable(r) /\ Single(r) /\ Distinct /\ Ordered /\ N' = N /\ on \in Relations
    BY DEF Known, N, TypeOK
<1>3. CASE UNCHANGED relation
    <2>1. Told(r)' = Told(r)  BY <1>3 DEF Told
    <2>2. Stable(r)'  BY <1>1, <1>2, <1>3, <2>1 DEF Stable
    <2>3. Single(r)'  BY <1>1, <1>2, <1>3, <2>1 DEF Single
    <2> QED BY <1>3, <2>1, <2>2, <2>3
<1>4. CASE at = "resolve" /\ db[on].oid = Absent /\ Record("exists", Of(FALSE))
    <2>1. /\ \A g \in FactNames \cup {"oid"} :
                relation'[r][g] = IF r = on /\ g = "exists" THEN Of(FALSE) ELSE relation[r][g]
          /\ Told(r)' \subseteq Told(r)
        <3>1. "exists" \in FactNames /\ "exists" \notin Fields  BY DEF FactNames, Fields
        <3>2. /\ \A g \in FactNames \cup {"oid"} :
                    relation'[r][g] = IF r = on /\ g = "exists" THEN Of(FALSE) ELSE relation[r][g]
              /\ \A v \in Told(r)' :
                    \/ v \in Told(r)
                    \/ r = on /\ "exists" \in Fields /\ Of(FALSE).available /\ v = Of(FALSE).value
            BY <1>4, <3>1, ToldAfter DEF TypeOK
        <3> QED BY <3>1, <3>2
    <2>2. /\ relation'[r].oid = relation[r].oid /\ relation'[r].size = relation[r].size
          /\ relation'[r].exists = IF r = on THEN Of(FALSE) ELSE relation[r].exists
        BY <2>1 DEF FactNames
    <2>3. Told(r) = {}  BY <1>2, <1>4 DEF Ordered
    <2>4. Stable(r)' /\ Single(r)'  BY <1>4, <2>1, <2>2, <2>3, KnownResolved
    <2> QED BY <1>4, <2>1, <2>2, <2>4
<1>5. ASSUME at = "resolve", db[on].oid # Absent, NEW rows \in Fact(Shapes),
             relation' = [relation EXCEPT ![on].exists = Of(TRUE), ![on].oid = db[on].oid,
                                          ![on].reltuples = rows]
      PROVE  Stable(r)' /\ Single(r)' /\ Told(r)' \subseteq Told(r)
             /\ relation'[r].size = relation[r].size
    <2>1. DOMAIN relation[on] = FactNames \cup {"oid"} /\ DOMAIN relation = Relations
        BY <1>2 DEF TypeOK, RelationFacts, FactNames
    <2>2. /\ relation'[r].oid = IF r = on THEN db[on].oid ELSE relation[r].oid
          /\ relation'[r].exists = IF r = on THEN Of(TRUE) ELSE relation[r].exists
          /\ relation'[r].size = relation[r].size
          /\ \A f \in Fields : relation'[r][f] = relation[r][f]
        BY <1>2, <1>5, <2>1 DEF FactNames, Fields
    <2>3. Told(r)' \subseteq Told(r)  BY <2>2 DEF Told
    <2>4. Told(r) = {}  BY <1>2, <1>5 DEF Ordered
    <2>5. Stable(r)' /\ Single(r)'  BY <1>5, <2>2, <2>3, <2>4, KnownResolved
    <2> QED BY <2>2, <2>3, <2>5
<1>6. ASSUME at \in {"statistics", "indexes", "columns", "constraints", "sizes"},
             NEW f \in Fields, f = (IF at = "sizes" THEN "size" ELSE at),
             NEW fact \in {RowOf(relation[on].oid), Of(RowsOf(relation[on].oid, "empty"))},
             f = "size" => fact = RowOf(relation[on].oid),
             Record(f, fact),
             relation[on].oid # Absent
      PROVE  /\ Stable(r)' /\ Single(r)' /\ relation'[r].oid = relation[r].oid
             /\ at # "sizes" => relation'[r].size = relation[r].size
    <2>1. Says(fact) /\ (f = "size" => (NamesNow(relation[on].oid) = {} => ~fact.available))
        BY <1>2, <1>6, RowsSay
    <2>2. f # "size" => ~relation[on].size.available
        BY <1>2, <1>6 DEF Ordered, Gathering
    <2>3. Stable(r)' /\ Single(r)'  BY <1>6, <2>1, <2>2, KnownRecorded
    <2>4. f \in FactNames  BY DEF Fields, FactNames
    <2>5. \A g \in FactNames \cup {"oid"} :
             relation'[r][g] = IF r = on /\ g = f THEN fact ELSE relation[r][g]
        BY <1>6, <2>4, ToldAfter DEF TypeOK
    <2> QED BY <1>6, <2>3, <2>5 DEF FactNames, Fields
<1>7. ASSUME NEW f \in {"partitions", "dropped", "partitionsSize", "indexSizes"}, NEW fact,
             Record(f, fact)
      PROVE  /\ Stable(r)' /\ Single(r)' /\ Told(r)' \subseteq Told(r)
             /\ relation'[r].oid = relation[r].oid /\ relation'[r].size = relation[r].size
    <2>1. f \in FactNames \ (Fields \cup {"exists"})  BY DEF FactNames, Fields
    <2> QED BY <1>7, <2>1, ElsewhereKnown
<1>8. CASE at \in {"statistics", "sizes"} /\ relation[on].oid # Absent
           /\ Record(IF at = "sizes" THEN "size" ELSE at, RowOf(relation[on].oid))
    <2> DEFINE f == IF at = "sizes" THEN "size" ELSE at
    <2>1. f \in Fields  BY <1>8 DEF Fields
    <2>2. /\ Stable(r)' /\ Single(r)' /\ relation'[r].oid = relation[r].oid
          /\ at # "sizes" => relation'[r].size = relation[r].size
        BY <1>6, <1>8, <2>1
    <2> QED BY <1>8, <2>2 DEF Early
<1>9. CASE /\ at \in {"indexes", "columns", "constraints"}
           /\ Record(at, Of(RowsOf(relation[on].oid, "empty")))
    <2>1. at \in Fields /\ relation[on].oid # Absent
        BY <1>2, <1>9 DEF Fields, Ordered, Gathering
    <2>2. /\ Stable(r)' /\ Single(r)' /\ relation'[r].oid = relation[r].oid
          /\ at # "sizes" => relation'[r].size = relation[r].size
        BY <1>6, <1>9, <2>1
    <2> QED BY <1>9, <2>2 DEF Early
<1> QED BY <1>3, <1>4, <1>5, <1>7, <1>8, <1>9 DEF Records

LEMMA CaptureKnown ==
    ASSUME TypeOK, Known, Capture
    PROVE  Known'
<1>1. Tries /\ Goes /\ Records  BY CaptureTries, CaptureGoes, CaptureRecords
<1>2. \A r \in Relations :
          /\ Stable(r)' /\ Single(r)'
          /\ at \in Early \cup {"resolve"} => Told(r)' \subseteq Told(r)
          /\ at # "resolve" => relation'[r].oid = relation[r].oid
          /\ at # "sizes" => relation'[r].size = relation[r].size
    BY <1>1, RecordsKnown
<1>3. Distinct'  BY <1>1 DEF Tries, database, Known, Distinct
<1>4. Ordered /\ on \in Relations  BY DEF Known, TypeOK
<1>5. Ordered'
    <2>1. CASE Refused  BY <2>1 DEF Refused, Refuse, Ordered, Early, Gathering, Middle
    <2>2. CASE Concluded  BY <2>2 DEF Concluded, Ordered, Early, Gathering, Middle
    <2>3. CASE Onward
        <3>1. at' \in Early \cup {"resolve"} => at \in Early  BY <2>3 DEF Onward, Route, Early
        <3>2. at' \in Early \cup {"resolve"} \cup Gathering \cup Middle =>
                  at \in (Early \cup Gathering \cup Middle)
            BY <2>3 DEF Onward, Route, Early, Gathering, Middle
        <3>3. at' \in (Gathering \ {"statistics"}) \cup {"partitionsSize", "indexSizes"} =>
                  relation[on].oid # Absent /\ on' = on /\ at # "resolve"
            BY <1>4, <2>3 DEF Onward, Route, Gathering, Ordered
        <3>4. "sizes" \notin (Early \cup Gathering \cup Middle) /\ "resolve" \notin Early
            BY DEF Early, Gathering, Middle
        <3>5. \A r \in Relations : at' \in Early \cup {"resolve"} => Told(r)' = {}
            BY <1>2, <1>4, <3>1 DEF Ordered
        <3>6. \A r \in Relations : at' \in Early \cup {"resolve"} \cup Gathering \cup Middle =>
                  ~relation'[r].size.available
            BY <1>2, <1>4, <3>2, <3>4 DEF Ordered
        <3>7. at' \in (Gathering \ {"statistics"}) \cup {"partitionsSize", "indexSizes"} =>
                  relation'[on'].oid # Absent
            BY <1>2, <1>4, <3>3
        <3> QED BY <3>5, <3>6, <3>7 DEF Ordered
    <2>4. CASE Looped
        <3>1. /\ at' = "resolve" => at = "resolve"
              /\ at' \in {"resolve", "statistics", "function", "sizes", "replicas"}
              /\ at' \in {"resolve", "statistics", "function"} =>
                    at \in {"resolve", "statistics", "constraints"}
            BY <2>4 DEF Looped, NextRelation
        <3>2. \A r \in Relations : at' = "resolve" => Told(r)' = {}
            BY <1>2, <1>4, <3>1 DEF Ordered
        <3>3. \A r \in Relations : at' \in {"resolve", "statistics", "function"} =>
                  ~relation'[r].size.available
            BY <1>2, <1>4, <3>1 DEF Ordered, Gathering
        <3> QED BY <3>1, <3>2, <3>3 DEF Ordered, Early, Gathering, Middle
    <2> QED BY <1>1, <2>1, <2>2, <2>3, <2>4 DEF Goes
<1> QED BY <1>2, <1>3, <1>5 DEF Known

LEMMA OthersKnown ==
    ASSUME TypeOK, Grounds, Known, Moves, Changes
    PROVE  Known'
<1>1. /\ Distinct'
      /\ \A oid : oid # Absent /\ oid < nextOid /\ NamesNow(oid) = {} => NamesNow(oid)' = {}
    BY DistinctStep DEF Known
<1>2. UNCHANGED <<relation, at, on>> /\ N' = N /\ \A r \in Relations : Told(r)' = Told(r)
    BY DEF Moves, captured, gathered, Told, N
<1>3. Ordered'  BY <1>2 DEF Known, Ordered
<1>4. ASSUME NEW r \in Relations PROVE Stable(r)' /\ Single(r)'
    <2>1. Stable(r) /\ Single(r)  BY DEF Known
    <2>2. r \notin touched' => r \notin touched /\ db'[r] = db[r]  BY DEF Changes
    <2>3. nextOid \in Nat /\ relation[r].oid \in Nat
        BY DEF TypeOK, RelationFacts, Oids, Absent
    <2>4. relation[r].oid < nextOid'
        <3>1. nextOid' = nextOid \/ nextOid' = nextOid + 1  BY DEF Changes
        <3>2. relation[r].oid < nextOid  BY <2>1 DEF Single
        <3> QED BY <2>3, <3>1, <3>2
    <2>5. Stable(r)'  BY <1>2, <2>1, <2>2 DEF Stable
    <2>6. "empty" \in Told(r) => NamesNow(relation[r].oid)' = {}
        <3>1. "empty" \in Told(r) => /\ relation[r].oid # Absent /\ relation[r].oid < nextOid
                                     /\ NamesNow(relation[r].oid) = {}
            BY <2>1 DEF Single
        <3>2. NamesNow(relation[r].oid)' = {x \in Relations : db'[x].oid = relation[r].oid}
            BY <1>2 DEF NamesNow
        <3>3. \A oid : NamesNow(oid)' = {x \in Relations : db'[x].oid = oid}  BY DEF NamesNow
        <3> QED BY <1>1, <3>1, <3>2, <3>3
    <2>7. Single(r)'  BY <1>2, <2>1, <2>4, <2>6 DEF Single
    <2> QED BY <2>5, <2>7
<1> QED BY <1>1, <1>3, <1>4 DEF Known

LEMMA StillKnown ==
    ASSUME Known, UNCHANGED <<db, nextOid, relation, touched, at, on>>
    PROVE  Known'
<1>1. /\ N' = N /\ \A r \in Relations : Told(r)' = Told(r)
      /\ \A oid : NamesNow(oid)' = NamesNow(oid)
    BY DEF Told, NamesNow, N
<1>2. Distinct' /\ Ordered'  BY <1>1 DEF Known, Distinct, Ordered
<1>3. \A r \in Relations : Stable(r)' /\ Single(r)'  BY <1>1 DEF Known, Stable, Single
<1> QED BY <1>2, <1>3 DEF Known

LEMMA KnownStep == TypeOK /\ Grounds /\ Known /\ [Next]_vars => Known'
<1> SUFFICES ASSUME TypeOK, Grounds, Known, [Next]_vars PROVE Known'  OBVIOUS
<1>1. CASE Capture  BY <1>1, CaptureKnown
<1>2. CASE Others  BY <1>2, OthersMove, OthersKnown
<1>3. CASE LoseConnection \/ UNCHANGED vars
    <2>1. UNCHANGED <<db, nextOid, relation, touched, at, on>>
        BY <1>3, LosingMoves DEF vars, database, captured, gathered
    <2> QED BY <2>1, StillKnown
<1> QED BY <1>1, <1>2, <1>3 DEF Next

LEMMA AlwaysKnown == Spec => [](TypeOK /\ Grounds /\ Known)
<1>1. TypeOK /\ Grounds /\ [Next]_vars => TypeOK' /\ Grounds'
    BY CaptureTyped, OthersTyped, LosingTyped, IdleTyped DEF Next
<1> QED BY TypeInit, KnownInit, <1>1, KnownStep, PTL DEF Spec

(***************************************************************************)
(* What a snapshot says of a relation that was left alone while it was     *)
(* taken is so, whatever the sessions did to the others                    *)
(* (capture_snapshot, introspect.py:156).                                  *)
(***************************************************************************)
THEOREM LeftAloneIsTrue == Spec => []StableFactsTrue
<1>1. ASSUME TypeOK, Known, NEW r \in Relations \ touched
      PROVE  /\ relation[r].exists \in {Unavailable, Of(db[r].oid # Absent)}
             /\ Told(r) \subseteq {db[r].shape}
             /\ relation[r].oid # Absent => Told(r) \subseteq {ShapeOf(relation[r].oid)}
    <2>1. Stable(r) /\ Distinct  BY <1>1 DEF Known
    <2>2. relation[r].oid # Absent => ShapeOf(relation[r].oid) = db[r].shape
        BY <2>1, ShapeOfIs DEF Stable
    <2> QED BY <2>1, <2>2 DEF Stable
<1>2. TypeOK /\ Known => StableFactsTrue  BY <1>1 DEF StableFactsTrue
<1> QED BY <1>2, AlwaysKnown, PTL

(***************************************************************************)
(* The facts of a relation are about one relation, and one that vanished   *)
(* has no size: the queries go by the oid the name was resolved to         *)
(* (_gather_relation_static, introspect.py:628, _finish_relation).         *)
(***************************************************************************)
THEOREM FactsOfOne == Spec => []OneRelation
<1>1. ASSUME Known, NEW r \in Relations
      PROVE  /\ "other" \in Told(r) => Told(r) \subseteq {"other", "empty"}
             /\ "empty" \in Told(r) => ~relation[r].size.available
    BY <1>1 DEF Known, Single
<1>2. Known => OneRelation  BY <1>1 DEF OneRelation
<1> QED BY <1>2, AlwaysKnown, PTL

-----------------------------------------------------------------------------
(* What failed.                                                            *)

(***************************************************************************)
(* The facts whose queries the capture is past were asked for.  After(f)   *)
(* is the rest of the loop's body after the query for f.                   *)
(***************************************************************************)
After(f) ==
    CASE f = "statistics"  -> Gathering \ {"statistics"}
      [] f = "indexes"     -> {"columns", "dropped", "constraints"}
      [] f = "columns"     -> {"dropped", "constraints"}
      [] f = "constraints" -> {}

PastLookup(r) == at \notin Early /\ (at = "resolve" => r < on)
Past(f, r) ==
    /\ at \notin Early \cup {"resolve"}
    /\ at \in Gathering => r < on \/ (r = on /\ at \in After(f))
PastOther(f) ==
    CASE f = "type"        -> at \notin Early \cup {"resolve", "function", "type"} \cup Gathering
      [] f = "synchronous" -> at \in {"replicaDetails", "calibration", "commit", "over"}
      [] f = "calibration" -> at \in {"commit", "over"}

Gathered == {"statistics", "indexes", "columns", "constraints"}
Queries == {"type", "synchronous", "calibration"}

Local ==
    /\ at \notin Gathering \cup Sizing \cup {"resolve"} => on = First
    /\ at # "over" => result = "pending"
    /\ conn = "open" /\ result # "error" =>
          /\ \A r \in Relations :
                PastLookup(r) /\ ~relation[r].exists.available => <<"resolve", r>> \in failed
          /\ \A r \in Relations \ touched, f \in Gathered :
                Past(f, r) /\ relation[r].oid # Absent /\ ~relation[r][f].available
                => <<f, r>> \in failed
          /\ \A f \in Queries :
                PastOther(f) /\ ~facts[f].available => <<f, First>> \in failed

LEMMA LocalInit == Init => Local
BY DEF Init, Local, PastLookup, Past, PastOther, Early, Queries

(***************************************************************************)
(* A step gets past the query it is at, and past no other that is asked.   *)
(***************************************************************************)
LEMMA PastStep ==
    ASSUME TypeOK, Goes, result' # "error", at \in Early => on = First, NEW r \in Relations
    PROVE  /\ PastLookup(r)' => PastLookup(r) \/ (at = "resolve" /\ r = on)
           /\ \A f \in Gathered : Past(f, r)' =>
                 \/ Past(f, r)
                 \/ at = f /\ r = on
                 \/ at = "statistics" /\ r = on /\ relation[on].oid = Absent
           /\ \A f \in Queries : PastOther(f)' => PastOther(f) \/ at = f
           /\ at' \notin Gathering \cup Sizing \cup {"resolve"} =>
                 on' = First \/ (on' = on /\ at \notin Gathering \cup Sizing \cup {"resolve"})
<1>1. Concluded \/ Onward \/ Looped  BY DEF Goes, Refused, Refuse
<1>2. CASE Concluded
    BY <1>2 DEF Concluded, PastLookup, Past, PastOther, Early, Gathering, Sizing, Queries
<1>3. CASE Onward
    <2>1. <<at, at'>> \in Route /\ on' = on /\ (at = "statistics" => relation[on].oid # Absent)
        BY <1>3 DEF Onward
    <2>2. PastLookup(r)' => PastLookup(r)
        <3>1. ~(r < First)  BY FirstIsOne, RelationsAre
        <3> QED BY <2>1, <3>1 DEF Route, PastLookup, Early
    <2>3. ASSUME NEW f \in Gathered, Past(f, r)' PROVE Past(f, r) \/ (at = f /\ r = on)
        BY <2>1, <2>3 DEF Route, Past, Gathered, After, Early, Gathering
    <2>4. ASSUME NEW f \in Queries, PastOther(f)' PROVE PastOther(f) \/ at = f
        BY <2>1, <2>4 DEF Route, PastOther, Queries, Early, Gathering
    <2>5. at' \notin Gathering \cup Sizing \cup {"resolve"} => at \notin Gathering \cup Sizing \cup {"resolve"}
        BY <2>1 DEF Route, Gathering, Sizing
    <2> QED BY <2>1, <2>2, <2>3, <2>4, <2>5
<1>4. CASE Looped
    <2>1. on \in Nat /\ r \in Nat  BY RelationsAre DEF TypeOK
    <2>2. ASSUME Later # {}, on' \in Later, \A q \in Later : on' <= q
          PROVE  r < on' => r < on \/ r = on
        <3>1. on' \in Nat  BY <2>2, RelationsAre DEF Later
        <3>2. r > on => on' <= r  BY <2>2 DEF Later
        <3> QED BY <2>1, <3>1, <3>2
    <2>3. Later = {} => r < on \/ r = on  BY <2>1 DEF Later
    <2>4. ~(r < First)  BY FirstIsOne, RelationsAre
    <2>5. \A f \in Gathered : "statistics" \notin After(f)  BY DEF Gathered, After, Gathering
    <2>6. \A f \in Gathered \ {"constraints"} : "constraints" \in After(f)
        BY DEF Gathered, After, Gathering
    <2>7. CASE at = "resolve" /\ NextRelation("resolve", "statistics")
        <3>1. at' \in {"resolve", "statistics"} /\ (at' = "statistics" => on' = First)
              /\ (at' = "resolve" => (r < on' => r < on \/ r = on))
              /\ (at' = "statistics" => r < on \/ r = on)
            BY <2>2, <2>3, <2>7 DEF NextRelation
        <3> QED BY <2>4, <2>5, <2>7, <3>1 DEF PastLookup, Past, PastOther, Early, Gathering, Queries
    <2>8. CASE /\ at \in {"statistics", "constraints"}
               /\ at = "statistics" => relation[on].oid = Absent
               /\ NextRelation("statistics", "function")
        <3>1. /\ at' \in {"statistics", "function"} /\ (at' = "function" => on' = First)
              /\ at' = "statistics" => (r < on' => r < on \/ r = on)
              /\ at' = "function" => r < on \/ r = on
            BY <2>2, <2>3, <2>8 DEF NextRelation
        <3>2. PastLookup(r)  BY <2>8 DEF PastLookup, Early
        <3>3. \A f \in Gathered : Past(f, r)' =>
                 \/ Past(f, r)
                 \/ at = f /\ r = on
                 \/ at = "statistics" /\ r = on /\ relation[on].oid = Absent
            BY <2>5, <2>6, <2>8, <3>1 DEF Past, Early, Gathering
        <3>4. \A f \in Queries : ~PastOther(f)'
            BY <3>1 DEF PastOther, Queries, Gathering
        <3> QED BY <3>1, <3>2, <3>3, <3>4 DEF Gathering
    <2>9. CASE at \in {"sizes", "indexSizes"} /\ NextRelation("sizes", "replicas")
        <3>1. at' \in {"sizes", "replicas"} /\ (at' = "replicas" => on' = First)
            BY <2>9 DEF NextRelation
        <3> QED BY <2>9, <3>1 DEF PastLookup, Past, PastOther, Early, Gathering, Sizing, Queries
    <2> QED BY <1>4, <2>7, <2>8, <2>9 DEF Looped
<1> QED BY <1>1, <1>2, <1>3, <1>4

LEMMA RecordsLocal ==
    ASSUME TypeOK, Known, Records, conn = "open", NEW r \in Relations
    PROVE  /\ relation'[r].exists = relation[r].exists \/ relation'[r].exists.available
           /\ at = "resolve" /\ r = on => relation'[r].exists.available \/ <<"resolve", r>> \in failed'
           /\ \A f \in Gathered : relation'[r][f] = relation[r][f] \/ (at = f /\ r = on)
           /\ \A f \in Gathered : at = f /\ r = on /\ r \notin touched /\ relation[r].oid # Absent =>
                 relation'[r][f].available \/ <<f, r>> \in failed'
<1>1. relation \in [Relations -> RelationFacts] /\ on \in Relations  BY DEF TypeOK
<1>2. Gathered \subseteq FactNames /\ "exists" \in FactNames /\ "exists" \notin Gathered
    BY DEF Gathered, FactNames
<1>3. \A v : Of(v).available  BY DEF Of
<1>4. CASE UNCHANGED relation /\ (at \in {"resolve", "indexes", "columns", "constraints"} => Failing)
           /\ (at = "statistics" => Failing \/ relation[on].oid = Absent)
    BY <1>4 DEF Failing, Gathered
<1>5. CASE at = "resolve" /\ Record("exists", Of(FALSE))
    <2>1. \A g \in FactNames \cup {"oid"} :
             relation'[r][g] = IF r = on /\ g = "exists" THEN Of(FALSE) ELSE relation[r][g]
        BY <1>1, <1>2, <1>5, Recorded
    <2>2. relation'[r].exists = IF r = on THEN Of(FALSE) ELSE relation[r].exists
        BY <1>2, <2>1
    <2>3. \A f \in Gathered : relation'[r][f] = relation[r][f]  BY <1>2, <2>1
    <2> QED BY <1>3, <1>5, <2>2, <2>3 DEF Gathered
<1>6. ASSUME at = "resolve", NEW rows,
             relation' = [relation EXCEPT ![on].exists = Of(TRUE), ![on].oid = db[on].oid,
                                          ![on].reltuples = rows]
      PROVE  /\ relation'[r].exists = IF r = on THEN Of(TRUE) ELSE relation[r].exists
             /\ \A f \in Gathered : relation'[r][f] = relation[r][f]
    <2>1. DOMAIN relation[on] = FactNames \cup {"oid"} /\ DOMAIN relation = Relations
        BY <1>1 DEF RelationFacts, FactNames
    <2> QED BY <1>1, <1>6, <2>1 DEF FactNames, Gathered
<1>7. ASSUME NEW f \in FactNames \ {"exists"}, NEW fact, Record(f, fact),
             f \in Gathered => at = f
      PROVE  /\ relation'[r].exists = relation[r].exists
             /\ \A g \in Gathered : relation'[r][g] = relation[r][g] \/ (at = g /\ r = on)
             /\ r = on => relation'[r][f] = fact
    <2>1. \A g \in FactNames \cup {"oid"} :
             relation'[r][g] = IF r = on /\ g = f THEN fact ELSE relation[r][g]
        BY <1>1, <1>7, Recorded
    <2> QED BY <1>2, <1>7, <2>1
<1>8. CASE /\ at \in {"statistics", "sizes"} /\ relation[on].oid # Absent
           /\ Record(IF at = "sizes" THEN "size" ELSE at, RowOf(relation[on].oid))
    <2> DEFINE f == IF at = "sizes" THEN "size" ELSE at
    <2>1. f \in FactNames \ {"exists"} /\ (f \in Gathered => at = f) /\ (f = at \/ at \notin Gathered)
        BY <1>8 DEF FactNames, Gathered
    <2>2. on \notin touched => RowOf(relation[on].oid).available
        <3>1. on \notin touched => on \in NamesNow(relation[on].oid)
            BY <1>1, <1>8 DEF Known, Stable, NamesNow
        <3> QED BY <1>3, <3>1 DEF RowOf
    <2>3. /\ relation'[r].exists = relation[r].exists
          /\ \A g \in Gathered : relation'[r][g] = relation[r][g] \/ (at = g /\ r = on)
          /\ r = on => relation'[r][f] = RowOf(relation[on].oid)
        BY <1>7, <1>8, <2>1
    <2> QED BY <1>8, <2>1, <2>2, <2>3
<1>9. CASE /\ at \in {"indexes", "columns", "constraints"}
           /\ Record(at, Of(RowsOf(relation[on].oid, "empty")))
    <2>1. at \in FactNames \ {"exists"}  BY <1>9 DEF FactNames
    <2>2. /\ relation'[r].exists = relation[r].exists
          /\ \A g \in Gathered : relation'[r][g] = relation[r][g] \/ (at = g /\ r = on)
          /\ r = on => relation'[r][at] = Of(RowsOf(relation[on].oid, "empty"))
        BY <1>7, <1>9, <2>1
    <2> QED BY <1>3, <1>9, <2>2
<1>10. ASSUME at \in {"partitions", "dropped", "partitionsSize", "indexSizes"}, NEW fact,
              Record(at, fact)
       PROVE  /\ relation'[r].exists = relation[r].exists
              /\ \A g \in Gathered : relation'[r][g] = relation[r][g] \/ (at = g /\ r = on)
    <2>1. at \in FactNames \ {"exists"}  BY <1>10 DEF FactNames
    <2> QED BY <1>7, <1>10, <2>1
<1>11. CASE at \in {"partitions", "dropped", "partitionsSize", "indexSizes"}
            /\ \E fact : Record(at, fact)
    BY <1>10, <1>11 DEF Gathered
<1>12. CASE at = "resolve" /\ \E rows :
                relation' = [relation EXCEPT ![on].exists = Of(TRUE), ![on].oid = db[on].oid,
                                             ![on].reltuples = rows]
    BY <1>3, <1>6, <1>12 DEF Gathered
<1> QED BY <1>4, <1>5, <1>8, <1>9, <1>11, <1>12 DEF Records

LEMMA LearnsLocal ==
    ASSUME TypeOK, Learns, Waits, conn = "open", NEW f \in Queries
    PROVE  /\ facts'[f] = facts[f] \/ at = f
           /\ at = f => facts'[f].available \/ <<f, on>> \in failed'
<1>1. DOMAIN facts = {"settings", "volatility", "type", "change", "waiters", "transactions",
                      "connections", "hasReplicas", "synchronous", "replicas", "calibration"}
    BY DEF TypeOK, OtherFacts
<1>2. ASSUME NEW g, NEW fact, Learn(g, fact), g # f PROVE facts'[f] = facts[f]
    BY <1>1, <1>2 DEF Learn, Queries
<1>3. CASE UNCHANGED facts /\ (at \in {"type", "synchronous", "calibration"} => Failing)
    BY <1>3 DEF Failing, Queries
<1>4. CASE at \in {"settings", "type", "connections", "synchronous", "calibration"}
           /\ Learn(at, Of(TRUE))
    <2>1. facts'[at] = Of(TRUE)  BY <1>1, <1>4 DEF Learn
    <2> QED BY <1>2, <1>4, <2>1 DEF Of
<1>5. ASSUME NEW g \in {"volatility", "change", "transactions", "hasReplicas", "replicas"},
             at \notin Queries, \E fact : Learn(g, fact)
      PROVE  facts'[f] = facts[f] /\ at # f
    BY <1>2, <1>5 DEF Queries
<1>6. CASE at \in {"blocked", "holders", "states"}
    <2>1. UNCHANGED facts \/ \E fact : Learn("waiters", fact)  BY <1>6 DEF Waits, Done, Asking
    <2> QED BY <1>2, <1>6, <2>1 DEF Queries
<1>7. CASE \/ at = "function" /\ \E fact : Learn("volatility", fact)
           \/ at = "change" /\ \E fact : Learn("change", fact)
           \/ at = "transactions" /\ \E fact : Learn("transactions", fact)
           \/ at = "replicas" /\ \E fact : Learn("hasReplicas", fact)
           \/ at = "replicaDetails" /\ \E fact : Learn("replicas", fact)
    BY <1>5, <1>7 DEF Queries
<1> QED BY <1>3, <1>4, <1>6, <1>7 DEF Learns

LEMMA CaptureLocal ==
    ASSUME TypeOK, Known, Local, Capture
    PROVE  Local'
<1>1. Tries /\ Goes /\ Records /\ Learns /\ Waits
    BY CaptureTries, CaptureGoes, CaptureRecords, CaptureLearns, CaptureWaits
<1>2. UNCHANGED <<conn, touched>> /\ failed \subseteq failed'  BY <1>1 DEF Tries
<1>3. /\ at' # "over" => result' = "pending"
      /\ result' # "error" => at' # "over" \/ Concluded
      /\ result' # "error" => result # "error"
    <2>1. at # "over"  BY <1>1 DEF Goes, Refused, Early, Concluded, Onward, Route, Looped
    <2>2. result = "pending"  BY <2>1 DEF Local
    <2> QED BY <1>1, <2>2 DEF Goes, Refused, Refuse, Concluded, Onward, Route, Looped, NextRelation
<1>4. at \in Early => on = First  BY DEF Local, Early, Gathering, Sizing
<1>5. at' \notin Gathering \cup Sizing \cup {"resolve"} => on' = First
    <2>1. CASE result' # "error"
        BY <1>1, <1>4, <2>1, FirstIsOne, PastStep DEF Local
    <2>2. CASE result' = "error" /\ (Refused \/ Concluded)
        BY <1>4, <2>2 DEF Refused, Refuse, Concluded, Local, Gathering, Sizing
    <2>3. CASE result' = "error" /\ (Onward \/ Looped)
        BY <1>3, <2>3 DEF Onward, Looped, NextRelation, Route
    <2> QED BY <1>1, <2>1, <2>2, <2>3 DEF Goes
<1>6. SUFFICES ASSUME conn' = "open", result' # "error"
      PROVE  /\ \A r \in Relations :
                   PastLookup(r)' /\ ~relation'[r].exists.available => <<"resolve", r>> \in failed'
             /\ \A r \in Relations \ touched', f \in Gathered :
                   Past(f, r)' /\ relation'[r].oid # Absent /\ ~relation'[r][f].available
                   => <<f, r>> \in failed'
             /\ \A f \in Queries :
                   PastOther(f)' /\ ~facts'[f].available => <<f, First>> \in failed'
    BY <1>3, <1>5 DEF Local
<1>7. conn = "open" /\ result # "error"  BY <1>2, <1>3, <1>6
<1>8. ASSUME NEW r \in Relations, PastLookup(r)', ~relation'[r].exists.available
      PROVE  <<"resolve", r>> \in failed'
    <2>1. PastLookup(r) \/ (at = "resolve" /\ r = on)  BY <1>1, <1>4, <1>6, <1>8, PastStep
    <2>2. /\ relation'[r].exists = relation[r].exists
          /\ at = "resolve" /\ r = on => <<"resolve", r>> \in failed'
        BY <1>1, <1>7, <1>8, RecordsLocal
    <2> QED BY <1>2, <1>7, <1>8, <2>1, <2>2 DEF Local
<1>9. ASSUME NEW r \in Relations \ touched', NEW f \in Gathered,
             Past(f, r)', relation'[r].oid # Absent, ~relation'[r][f].available
      PROVE  <<f, r>> \in failed'
    <2>1. \/ Past(f, r)
          \/ at = f /\ r = on
          \/ at = "statistics" /\ r = on /\ relation[on].oid = Absent
        BY <1>1, <1>4, <1>6, <1>9, PastStep
    <2>2. at # "resolve"  BY <2>1 DEF Past, Gathered
    <2>3. relation'[r].oid = relation[r].oid  BY <1>1, <2>2, RecordsKnown
    <2>4. /\ relation'[r][f] = relation[r][f] \/ (at = f /\ r = on)
          /\ at = f /\ r = on => <<f, r>> \in failed'
        BY <1>1, <1>2, <1>7, <1>9, <2>3, RecordsLocal
    <2> QED BY <1>2, <1>7, <1>9, <2>1, <2>3, <2>4 DEF Local
<1>10. ASSUME NEW f \in Queries, PastOther(f)', ~facts'[f].available
       PROVE  <<f, First>> \in failed'
    <2>1. PastOther(f) \/ at = f  BY <1>1, <1>4, <1>6, <1>10, FirstIsOne, PastStep
    <2>2. /\ facts'[f] = facts[f] \/ at = f
          /\ at = f => <<f, on>> \in failed'
        BY <1>1, <1>7, <1>10, LearnsLocal
    <2>3. at = f => on = First  BY DEF Local, Queries, Gathering, Sizing
    <2> QED BY <1>2, <1>7, <1>10, <2>1, <2>2, <2>3 DEF Local
<1> QED BY <1>8, <1>9, <1>10

LEMMA LocalStep == TypeOK /\ Grounds /\ Known /\ Local /\ [Next]_vars => Local'
<1> SUFFICES ASSUME TypeOK, Grounds, Known, Local, [Next]_vars PROVE Local'  OBVIOUS
<1>1. CASE Capture  BY <1>1, CaptureLocal
<1>2. CASE Others \/ LoseConnection \/ UNCHANGED vars
    <2>1. /\ UNCHANGED <<at, on, relation, facts, result, failed>>
          /\ conn' = "open" => conn = "open"
          /\ touched \subseteq touched'
        BY <1>2, OthersMove, LosingMoves DEF Moves, Changes, captured, gathered, vars
    <2>2. /\ \A r \in Relations : PastLookup(r)' = PastLookup(r)
          /\ \A r \in Relations, f \in Gathered : Past(f, r)' = Past(f, r)
          /\ \A f \in Queries : PastOther(f)' = PastOther(f)
        BY <2>1 DEF PastLookup, Past, PastOther
    <2> QED BY <2>1, <2>2 DEF Local
<1> QED BY <1>1, <1>2 DEF Next

(***************************************************************************)
(* In a snapshot taken over a connection that lasted, every fact that is   *)
(* unavailable about a relation that was left alone has a query of its own *)
(* that failed: the savepoint of each keeps the others going (_query,      *)
(* introspect.py:294).                                                     *)
(***************************************************************************)
THEOREM FailingStaysLocal == Spec => []FailuresStayLocal
<1>1. TypeOK /\ Local => FailuresStayLocal
    <2> SUFFICES ASSUME TypeOK, Local, result = "snapshot", conn = "open"
        PROVE  /\ \A r \in Relations : ~relation[r].exists.available => <<"resolve", r>> \in failed
               /\ \A r \in Relations \ touched : relation[r].oid # Absent =>
                     \A f \in {"columns", "constraints", "indexes", "statistics"} :
                        ~relation[r][f].available => <<f, r>> \in failed
               /\ ~facts.type.available => <<"type", First>> \in failed
               /\ ~facts.synchronous.available => <<"synchronous", First>> \in failed
               /\ ~facts.calibration.available => <<"calibration", First>> \in failed
        BY DEF FailuresStayLocal
    <2>1. at = "over"  BY DEF Local
    <2>2. /\ \A r \in Relations : PastLookup(r)
          /\ \A r \in Relations, f \in Gathered : Past(f, r)
          /\ \A f \in Queries : PastOther(f)
        BY <2>1 DEF PastLookup, Past, PastOther, Early, Gathering, Queries
    <2> QED BY <2>2 DEF Local, Gathered, Queries
<1> QED BY <1>1, LocalInit, LocalStep, AlwaysKnown, PTL DEF Spec

-----------------------------------------------------------------------------
(* Who waits.                                                              *)

(***************************************************************************)
(* What the first lock query returned is what there was; while no session  *)
(* moves, the blockers stay as idle as they were; and the waiters that are *)
(* told are those of the first query.                                      *)
(***************************************************************************)
Pairs(S) == {<<w.pid, w.blockers>> : w \in S}

AsIdle(rows) == \A row \in rows, m \in met : row.pid = m.pid =>
    (m.idle <=> \A s \in row.blockers : sessions[s].state = "idle")

BeforeLocks == Early \cup {"resolve", "function", "type", "change"} \cup Gathering

Heard ==
    /\ at \in BeforeLocks \cup Asking => ~facts.waiters.available
    /\ at \in BeforeLocks \cup {"blocked"} => met = {}
    /\ \A m \in met : m.idle \in BOOLEAN
    /\ at \in {"holders", "states"} =>
          Pairs(seen.blocked) = Pairs(met) /\ (~moved => AsIdle(seen.blocked))
    /\ facts.waiters.available =>
          /\ Pairs(facts.waiters.value) = Pairs(met)
          /\ ~moved => \A w \in facts.waiters.value, m \in met :
                w.pid = m.pid /\ w.idle.available => w.idle.value = m.idle

LEMMA HeardInit == Init => Heard
<1> SUFFICES ASSUME Init PROVE Heard  OBVIOUS
<1>1. ~facts.waiters.available  BY DEF Init, NoOtherFacts, Unavailable
<1> QED BY <1>1 DEF Init, Heard

LEMMA FirstAnswer ==
    Pairs(BlockedRows) = Pairs(Waiting)
    /\ \A m \in Waiting : /\ m.idle \in BOOLEAN
                          /\ \A row \in BlockedRows : row.pid = m.pid =>
                                (m.idle <=> \A s \in row.blockers : sessions[s].state = "idle")
<1>1. \A row \in BlockedRows :
         row.oid = sessions[row.pid].oid /\ row.blockers = Holders(sessions[row.pid].oid)
    BY DEF BlockedRows
<1>2. ASSUME NEW m \in Waiting
      PROVE  \E row \in BlockedRows :
                /\ m.pid = row.pid /\ m.blockers = row.blockers
                /\ m.idle \in BOOLEAN
                /\ m.idle <=> \A s \in row.blockers : sessions[s].state = "idle"
    <2> DEFINE idle(row) == \A s \in row.blockers : sessions[s].state = "idle"
    <2>1. PICK row \in BlockedRows :
              m = [pid |-> row.pid, blockers |-> row.blockers, idle |-> idle(row)]
        BY DEF Waiting
    <2>2. idle(row) \in BOOLEAN  OBVIOUS
    <2> HIDE DEF idle
    <2>3. m.pid = row.pid /\ m.blockers = row.blockers /\ m.idle = idle(row)  BY <2>1
    <2>4. m.idle \in BOOLEAN /\ (m.idle <=> idle(row))  BY <2>2, <2>3
    <2> QED BY <2>3, <2>4 DEF idle
<1>3. ASSUME NEW row \in BlockedRows
      PROVE  \E m \in Waiting : m.pid = row.pid /\ m.blockers = row.blockers
    <2> DEFINE m == [pid |-> row.pid, blockers |-> row.blockers,
                     idle |-> \A s \in row.blockers : sessions[s].state = "idle"]
    <2>1. m \in Waiting  BY DEF Waiting
    <2>2. m.pid = row.pid /\ m.blockers = row.blockers  OBVIOUS
    <2> QED BY <2>1, <2>2
<1>4. Pairs(BlockedRows) = Pairs(Waiting)
    <2>1. Pairs(Waiting) \subseteq Pairs(BlockedRows)  BY <1>2 DEF Pairs
    <2>2. Pairs(BlockedRows) \subseteq Pairs(Waiting)  BY <1>3 DEF Pairs
    <2> QED BY <2>1, <2>2
<1>5. ASSUME NEW m \in Waiting, NEW row \in BlockedRows, row.pid = m.pid
      PROVE  m.idle <=> \A s \in row.blockers : sessions[s].state = "idle"
    <2>1. PICK x \in BlockedRows : /\ m.pid = x.pid
                                   /\ m.idle <=> \A s \in x.blockers : sessions[s].state = "idle"
        BY <1>2
    <2>2. x.blockers = row.blockers  BY <1>1, <1>5, <2>1
    <2> QED BY <2>1, <2>2
<1> QED BY <1>2, <1>4, <1>5

LEMMA Answers ==
    ASSUME TypeOK, Grounds, Heard, at \in {"holders", "states"}, NEW held
    PROVE  LET told == WaitersOf(seen.blocked, held, States)
           IN  /\ Pairs(told) = Pairs(met)
               /\ ~moved => \A w \in told, m \in met :
                     w.pid = m.pid /\ w.idle.available => w.idle.value = m.idle
<1> DEFINE told == WaitersOf(seen.blocked, held, States)
<1>1. ASSUME NEW w \in told
      PROVE  \E row \in seen.blocked : /\ w.pid = row.pid /\ w.blockers = row.blockers
                                       /\ w.idle = AllIdle(row.blockers, States)
    BY DEF WaitersOf
<1>2. ASSUME NEW row \in seen.blocked
      PROVE  \E w \in told : w.pid = row.pid /\ w.blockers = row.blockers
    <2> DEFINE w == [relation |-> NameOf(row.oid), pid |-> row.pid, blockers |-> row.blockers,
                     modes |-> \E h \in held : h.oid = row.oid /\ h.pid \in row.blockers,
                     since |-> server.version >= 14, idle |-> AllIdle(row.blockers, States)]
    <2>1. w \in told  BY DEF WaitersOf
    <2>2. w.pid = row.pid /\ w.blockers = row.blockers  OBVIOUS
    <2> QED BY <2>1, <2>2
<1>3. ASSUME ~moved, NEW w \in told, NEW m \in met, w.pid = m.pid, w.idle.available
      PROVE  w.idle.value = m.idle
    <2>1. PICK row \in seen.blocked : w.pid = row.pid /\ w.idle = AllIdle(row.blockers, States)
        BY <1>1
    <2>2. m.idle \in BOOLEAN /\ (m.idle <=> \A s \in row.blockers : sessions[s].state = "idle")
        BY <1>3, <2>1 DEF Heard, AsIdle
    <2>3. row.blockers \subseteq Sessions  BY DEF Grounds
    <2>4. /\ \A s \in row.blockers : States[s] # "unknown"
          /\ w.idle = Of(\A s \in row.blockers : States[s] = "idle")
        <3> DEFINE masked == row.blockers = {} \/ \E s \in row.blockers : States[s] = "unknown"
        <3>1. masked => w.idle = Unavailable  BY <2>1 DEF AllIdle
        <3>2. ~masked  BY <1>3, <3>1 DEF Unavailable
        <3>3. ~masked => w.idle = Of(\A s \in row.blockers : States[s] = "idle")
            BY <2>1, Zenon DEF AllIdle
        <3> QED BY <3>2, <3>3
    <2>5. \A s \in row.blockers : States[s] = sessions[s].state
        BY <2>3, <2>4 DEF States, StateOf
    <2> DEFINE all == \A s \in row.blockers : States[s] = "idle"
    <2>6. all \in BOOLEAN /\ w.idle = Of(all)  BY <2>4
    <2>7. all <=> m.idle  BY <2>2, <2>5
    <2> HIDE DEF all
    <2>8. w.idle.value = all  BY <2>6 DEF Of
    <2> QED BY <2>2, <2>6, <2>7, <2>8
<1>4. Pairs(told) = Pairs(seen.blocked)
    <2> HIDE DEF told
    <2> QED BY <1>1, <1>2 DEF Pairs
<1>5. Pairs(told) = Pairs(met)  BY <1>4 DEF Heard
<1> HIDE DEF told
<1>6. ~moved => \A w \in told, m \in met :
          w.pid = m.pid /\ w.idle.available => w.idle.value = m.idle
    BY <1>3
<1> QED BY <1>5, <1>6 DEF told

LEMMA CaptureHeard ==
    ASSUME TypeOK, Grounds, Heard, Capture
    PROVE  Heard'
<1>1. Tries /\ Goes /\ Learns /\ Waits
    BY CaptureTries, CaptureGoes, CaptureLearns, CaptureWaits
<1>2. UNCHANGED <<sessions, moved>>  BY <1>1 DEF Tries, database
<1>3. facts \in OtherFacts  BY DEF TypeOK
<1>4. CASE at \notin Asking
    <2>1. UNCHANGED <<seen, met>>  BY <1>1, <1>4 DEF Waits, Done, Asking
    <2>2. facts'.waiters = facts.waiters
        BY <1>1, <1>3, <1>4 DEF Learns, Learn, OtherFacts, Asking
    <2>3. /\ at' \notin {"holders", "states"}
          /\ at' \in BeforeLocks \cup Asking => at \in BeforeLocks \cup Asking
          /\ at' \in BeforeLocks \cup {"blocked"} => at \in BeforeLocks \cup {"blocked"}
        <3>1. CASE Refused
            BY <3>1 DEF Refused, Refuse, BeforeLocks, Early, Gathering, Asking
        <3>2. CASE Concluded
            BY <3>2 DEF Concluded, BeforeLocks, Early, Gathering, Asking
        <3>3. CASE Onward
            BY <1>4, <3>3 DEF Onward, Route, BeforeLocks, Early, Gathering, Asking
        <3>4. CASE Looped
            BY <3>4 DEF Looped, NextRelation, BeforeLocks, Early, Gathering, Asking
        <3> QED BY <1>1, <3>1, <3>2, <3>3, <3>4 DEF Goes
    <2> QED BY <1>2, <2>1, <2>2, <2>3 DEF Heard
<1>5. ASSUME at \in Asking, UNCHANGED met, NEW fact, Done(fact),
             fact.available =>
                 /\ Pairs(fact.value) = Pairs(met)
                 /\ ~moved => \A w \in fact.value, m \in met :
                       w.pid = m.pid /\ w.idle.available => w.idle.value = m.idle
      PROVE  Heard'
    <2>1. at' = "transactions" /\ facts'.waiters = fact
        BY <1>3, <1>5 DEF Done, Learn, Then, OtherFacts
    <2>2. at' \notin BeforeLocks \cup Asking
        BY <2>1 DEF BeforeLocks, Early, Gathering, Asking
    <2> QED BY <1>2, <1>5, <2>1, <2>2 DEF Heard, Asking
<1>6. CASE at = "blocked" /\ Done(Of({})) /\ UNCHANGED met
    <2>1. Of({}).value = {} /\ met = {}  BY <1>6 DEF Of, Heard
    <2> QED BY <1>5, <1>6, <2>1 DEF Pairs, Asking
<1>7. CASE /\ at = "blocked" /\ at' = "holders" /\ UNCHANGED facts
           /\ seen' = [seen EXCEPT !.blocked = BlockedRows] /\ met' = Waiting
    <2>1. seen'.blocked = BlockedRows  BY <1>7 DEF Grounds
    <2>2. ~facts'.waiters.available  BY <1>7 DEF Heard, Asking
    <2>3. \A m \in met' : m.idle \in BOOLEAN  BY <1>7, FirstAnswer
    <2>4. Pairs(seen'.blocked) = Pairs(met')  BY <1>7, <2>1, FirstAnswer
    <2>5. AsIdle(seen.blocked)'
        <3>1. \A row \in BlockedRows, m \in Waiting : row.pid = m.pid =>
                 (m.idle <=> \A s \in row.blockers : sessions[s].state = "idle")
            BY FirstAnswer
        <3>2. \A row \in seen'.blocked, m \in met' : row.pid = m.pid =>
                 (m.idle <=> \A s \in row.blockers : sessions'[s].state = "idle")
            BY <1>2, <1>7, <2>1, <3>1
        <3> QED BY <3>2 DEF AsIdle
    <2>6. Pairs(seen.blocked)' = Pairs(met)'  BY <2>4 DEF Pairs
    <2> QED BY <1>7, <2>2, <2>3, <2>5, <2>6 DEF Heard, BeforeLocks, Early, Gathering, Asking
<1>8. CASE /\ at = "holders" /\ at' = "states" /\ UNCHANGED <<facts, met>>
           /\ seen' = [seen EXCEPT !.held = HeldRows]
    <2>1. seen'.blocked = seen.blocked  BY <1>8 DEF Grounds
    <2> QED BY <1>2, <1>8, <2>1 DEF Heard, AsIdle, BeforeLocks, Early, Gathering, Asking
<1>9. CASE /\ at \in {"holders", "states"} /\ UNCHANGED met
           /\ \E held : Done(Of(WaitersOf(seen.blocked, held, States)))
    <2>1. PICK held : Done(Of(WaitersOf(seen.blocked, held, States)))  BY <1>9
    <2>2. Of(WaitersOf(seen.blocked, held, States)).value = WaitersOf(seen.blocked, held, States)
        BY DEF Of
    <2> QED BY <1>5, <1>9, <2>1, <2>2, Answers DEF Asking
<1>10. CASE at \in Asking /\ Done(Unavailable) /\ UNCHANGED met
    <2>1. ~Unavailable.available  BY DEF Unavailable
    <2> QED BY <1>5, <1>10, <2>1
<1> QED BY <1>1, <1>4, <1>6, <1>7, <1>8, <1>9, <1>10 DEF Waits

LEMMA HeardStep == TypeOK /\ Grounds /\ Heard /\ [Next]_vars => Heard'
<1> SUFFICES ASSUME TypeOK, Grounds, Heard, [Next]_vars PROVE Heard'  OBVIOUS
<1>1. CASE Capture  BY <1>1, CaptureHeard
<1>2. CASE Others
    <2>1. /\ UNCHANGED <<at, facts, seen, met>>
          /\ moved' = (moved \/ at \in {"holders", "states"})
        BY <1>2, OthersMove DEF Moves, captured, gathered
    <2>2. ~moved' => ~moved /\ at \notin {"holders", "states"}  BY <2>1
    <2> QED BY <2>1, <2>2 DEF Heard, Pairs
<1>3. CASE LoseConnection \/ UNCHANGED vars
    <2>1. UNCHANGED <<at, facts, seen, met, moved, sessions>>
        BY <1>3, LosingMoves DEF vars, database, captured, gathered
    <2> QED BY <2>1 DEF Heard, Pairs, AsIdle
<1> QED BY <1>1, <1>2, <1>3 DEF Next

(***************************************************************************)
(* The waiters of a snapshot are those that waited when that was asked,    *)
(* each with its blockers; and if it says the blockers of one are all      *)
(* idle, or not, they were so then, unless the sessions moved before the   *)
(* last of the three lock queries (_gather_waiters, introspect.py:1492).   *)
(***************************************************************************)
THEOREM WaitersWereWaiting == Spec => []WaitersTrue
<1>1. Heard => WaitersTrue
    <2> SUFFICES ASSUME Heard, facts.waiters.available
        PROVE  /\ {<<w.pid, w.blockers>> : w \in facts.waiters.value}
                      = {<<m.pid, m.blockers>> : m \in met}
               /\ ~moved => \A w \in facts.waiters.value, m \in met :
                     w.pid = m.pid /\ w.idle.available => w.idle.value = m.idle
        BY DEF WaitersTrue
    <2> QED BY DEF Heard, Pairs
<1> QED BY <1>1, HeardInit, HeardStep, AlwaysKnown, PTL DEF Spec
=============================================================================
