------------------------------ MODULE TypeChange ------------------------------
(***************************************************************************)
(* live/typechange.py: does an ALTER COLUMN TYPE rewrite the table?  A type *)
(* is its canonical name, the base it reduces to, the parenthesised numbers *)
(* it carries and, when it is a domain, what the domain checks.  Parsing a  *)
(* spelling into a name and numbers is left out, except that a quoted or an *)
(* array spelling is not understood (plain = FALSE).                        *)
(***************************************************************************)
EXTENDS Integers, Sequences

NoDomain == [checks |-> 0, notNull |-> FALSE, params |-> <<>>, is |-> FALSE]

\* Type modifiers whose change the support function of the type can judge.
GrowthRules == {"varchar", "varbit", "numeric", "timestamp", "timestamptz",
                "time", "timetz"}

\* A bare name means precision 6 for the time types, no limit for the rest.
BareMeansSix == {"timestamp", "timestamptz", "time", "timetz"}

Scale(params) == IF Len(params) > 1 THEN params[2] ELSE 0

\* The new modifier takes every value the old one took.
GrowthAllows(rule, cur, new) ==
  \/ new = <<>>
  \/ /\ rule = "numeric"
     /\ cur # <<>> /\ Scale(cur) = Scale(new) /\ new[1] >= cur[1]
  \/ /\ rule # "numeric" /\ new # <<>>
     /\ \/ cur # <<>> /\ new[1] >= cur[1]
        \/ cur = <<>> /\ rule \in BareMeansSix /\ new[1] >= 6

(* pg_cast.castmethod between two bases, as the snapshot reads it: binary    *)
(* coercible, a function, or no cast.                                        *)
BinaryCoercible == {<<"varchar", "text">>, <<"text", "varchar">>, <<"cidr", "inet">>}
CastFunctions == {<<"int4", "int8">>, <<"int8", "int4">>,
                  <<"timestamp", "timestamptz">>, <<"timestamptz", "timestamp">>}
CastMethod(from, to) ==
  IF <<from, to>> \in BinaryCoercible THEN "binary"
  ELSE IF <<from, to>> \in CastFunctions THEN "function" ELSE "none"

Constrained(type) == type.domain.is /\ (type.domain.checks > 0 \/ type.domain.notNull)

\* The numbers written after the new type: a domain's name carries none.
Written(type) == IF type.domain.is THEN <<>> ELSE type.params

SessionZoneDecides(cur, new) ==
  {cur.name, new.name} = {"timestamp", "timestamptz"}

SameBase(cur, new) ==
  IF \/ Written(new) = <<>>
     \/ /\ ~cur.domain.is /\ ~new.domain.is
        /\ \/ Written(cur) = Written(new)
           \/ cur.name \in GrowthRules /\ GrowthAllows(cur.name, Written(cur), Written(new))
  THEN "no_rewrite" ELSE "rewrite"

(* assess_type_change, in its order: USING, missing facts, spellings, target *)
(* domains, the two timestamps, one base, the cast.                          *)
AssessTypeChange(known, cur, new, using, version) ==
  IF using THEN "rewrite"
  ELSE IF ~known \/ ~cur.plain \/ ~new.plain THEN "unknown"
  ELSE IF Constrained(new) \/ new.domain.params # <<>> THEN "rewrite"
  ELSE IF SessionZoneDecides(cur, new)
  THEN IF version >= 12 /\ GrowthAllows("timestamp", Written(cur), Written(new))
       THEN "no_rewrite_if_utc" ELSE "rewrite"
  ELSE IF cur.base = new.base THEN SameBase(cur, new)
  ELSE IF CastMethod(cur.base, new.base) = "binary" /\ Written(new) = <<>>
  THEN "no_rewrite" ELSE "rewrite"
===============================================================================
