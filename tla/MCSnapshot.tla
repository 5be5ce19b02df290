----------------------------- MODULE MCSnapshot -----------------------------
(***************************************************************************)
(* Snapshot for TLC: two relations, the second partitioned, two other      *)
(* sessions and two events around the capture.                             *)
(***************************************************************************)
EXTENDS Snapshot

\* The server a role of docs/minimum-privilege-role.md meets, with replicas.
Expected ==
    [version |-> 17, readOnly |-> TRUE, superuser |-> FALSE, creates |-> FALSE,
     writes |-> FALSE, readsStats |-> TRUE, replicas |-> TRUE, analyzed |-> TRUE,
     overloads |-> {"i"}]
\* Without pg_read_all_stats, before PG 14, never analyzed.
Masked ==
    [Expected EXCEPT !.version = 13, !.readsStats = FALSE, !.replicas = FALSE,
                     !.analyzed = FALSE, !.overloads = {"i", "v"}]

MCRelations == {1, 2}
MCPartitioned == {2}
MCSessions == {11, 12}
MCServers == {Expected, Masked}
    \cup {[Expected EXCEPT !.version = 9], [Expected EXCEPT !.writes = TRUE],
          [Expected EXCEPT !.creates = TRUE], [Expected EXCEPT !.readOnly = FALSE]}
=============================================================================
