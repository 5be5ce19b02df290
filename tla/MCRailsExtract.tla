--------------------------- MODULE MCRailsExtract ---------------------------
(***************************************************************************)
(* Instances of RailsExtract for TLC: two merged migrations, three in the  *)
(* change, which build on and ask about the ones before them.              *)
(***************************************************************************)
EXTENDS RailsExtract

MCNeeds == [m \in 1..5 |-> IF m \in {2, 4} THEN {m - 1} ELSE {}]
MCLooksAt == [m \in 1..5 |-> IF m \in {2, 3, 5} THEN {m - 1} ELSE {}]

Absent == NoFile
Blank == [NoFile EXCEPT !.is = "blank"]
File(state, loads) == [is |-> "full", state |-> state, loads |-> loads]
BaseFiles == {Absent, Blank, File({1, 2}, TRUE), File({1, 2}, FALSE)}
TreeFiles == {Absent, File({1, 2}, TRUE), File(1..5, TRUE)}
Pairs(S) == [structure : S, schema : S]

Fetched ==
    {r \in [fetched : {TRUE}, base : Pairs(BaseFiles), tree : Pairs(TreeFiles)] : BaseKnown(r)}

ASSUME InOrderAssumption == VersionsInOrder

\* actions/checkout with its default depth: the base commit is not there,
\* and the schema file is the one the author regenerated.
Shallow ==
    {[fetched |-> FALSE,
      base |-> [structure |-> Absent, schema |-> File({1, 2}, TRUE)],
      tree |-> [structure |-> Absent, schema |-> File(1..5, TRUE)]]}
=============================================================================
