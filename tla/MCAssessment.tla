----------------------------- MODULE MCAssessment -----------------------------
(***************************************************************************)
(* Assessment for TLC: tables of two families, one for each question the    *)
(* snapshot answers: types and indexes for a type change, constraints for   *)
(* NOT NULL and VALIDATE; every subcommand on every table, two in a file.   *)
(***************************************************************************)
EXTENDS Assessment

Domain(checks, notNull, params) ==
  [checks |-> checks, notNull |-> notNull, params |-> params, is |-> TRUE]
Type(name, params) ==
  [name |-> name, base |-> name, params |-> params, domain |-> NoDomain, plain |-> TRUE]
DomainOver(base, domain) ==
  [name |-> "d", base |-> base, params |-> <<>>, domain |-> domain, plain |-> TRUE]

CurrentTypes ==
  {Type("varchar", <<2>>), Type("varchar", <<>>), Type("numeric", <<4, 2>>),
   Type("timestamp", <<3>>), Type("timestamp", <<>>), Type("bpchar", <<2>>),
   DomainOver("varchar", Domain(1, FALSE, <<3>>))}
NewTypes ==
  {Type("varchar", <<3>>), Type("varchar", <<1>>), Type("text", <<>>),
   Type("numeric", <<5, 2>>), Type("numeric", <<5, 3>>), Type("numeric", <<>>),
   Type("timestamp", <<6>>), Type("timestamptz", <<6>>), Type("bpchar", <<3>>),
   DomainOver("varchar", Domain(0, FALSE, <<>>)),
   DomainOver("varchar", Domain(0, FALSE, <<1>>)),
   DomainOver("varchar", Domain(0, TRUE, <<>>)),
   [Type("varchar", <<3>>) EXCEPT !.plain = FALSE]}

Index(partial, expressions, method, class) ==
  {[name |-> "i", onColumn |-> TRUE, partial |-> partial, expressions |-> expressions,
    method |-> method, defaultClass |-> class]}
IndexSets == {{}, Index(FALSE, FALSE, "btree", TRUE), Index(TRUE, FALSE, "btree", TRUE),
              Index(FALSE, TRUE, "btree", TRUE), Index(FALSE, FALSE, "gin", FALSE)}

Atom(says) == [op |-> "atom", says |-> says, parts |-> {}]
Tests(op) == [op |-> op, says |-> "", parts |-> {Atom("c_not_null"), Atom("other")}]
Con(name, contype, validated, check, references) ==
  [name |-> name, contype |-> contype, validated |-> validated, check |-> check,
   references |-> references]
ConstraintSets ==
  {{}, {Con("k", "notnull", FALSE, Atom("c_not_null"), Missing)},
   {Con("k", "foreign", FALSE, Atom("other"), "parent")},
   {Con("k", "foreign", FALSE, Atom("other"), Missing)}}
  \cup {{Con("k", "check", validated, check, Missing)} :
          validated \in BOOLEAN, check \in {Atom("c_not_null"), Tests("and"), Tests("or")}}

Table(type, indexes, constraints, notNull, others, generated) ==
  [type |-> type, indexes |-> indexes, constraints |-> constraints,
   notNull |-> notNull, othersNotNull |-> others, generated |-> generated]

MCTables ==
  {Table(type, {}, {}, FALSE, FALSE, "none") : type \in CurrentTypes}
  \cup {Table(Type("varchar", <<2>>), indexes, {}, FALSE, FALSE, "none") :
          indexes \in IndexSets}
  \cup {Table(Type("int4", <<>>), {}, constraints, FALSE, FALSE, "none") :
          constraints \in ConstraintSets \ {{Con("k", "notnull", FALSE, Atom("c_not_null"), Missing)}}}
  \cup {Table(Type("int4", <<>>), {}, {Con("k", "notnull", FALSE, Atom("c_not_null"), Missing)},
              TRUE, TRUE, "none")}
  \cup {Table(Type("int4", <<>>), {}, {}, notNull, TRUE, generated) :
          notNull \in BOOLEAN, generated \in {"none", "stored", "virtual"}}

-------------------------------------------------------------------------------
Tree(construct, function, parts) ==
  [construct |-> construct, function |-> function, parts |-> parts]
Literal == Tree("constant", "", <<>>)
Call(f) == Tree("call", f, <<Literal>>)
MCTrees ==
  {Literal, Tree("null", "", <<>>), Call("now"), Call("random"), Call("f_stable"),
   Call("f_volatile"), Call("f_mixed"), Call("f_gone"),
   Tree("cast", "", <<Literal>>), Tree("cast", "", <<Call("f_volatile")>>),
   Tree("call", "upper", <<Call("f_stable")>>),
   Tree("compound", "", <<Call("now"), Call("f_volatile")>>),
   Tree("operator", "", <<Call("f_stable"), Call("random")>>),
   Tree("subquery", "", <<Call("f_stable")>>),
   Tree("userop", "", <<Literal, Call("f_stable")>>)}
MCExpressions == MCTrees \cup {NoExpression}

MCBuiltins == [f \in {"now", "random", "upper"} |->
                 CASE f = "now" -> "stable" [] f = "random" -> "volatile"
                   [] OTHER -> "immutable"]
MCProvolatile == [f \in {"f_stable", "f_volatile", "f_mixed"} |->
                    CASE f = "f_stable" -> "stable" [] f = "f_volatile" -> "volatile"
                      [] OTHER -> "disagree"]

Add(fill, default, notNull, type) ==
  [node |-> "add_column", fill |-> fill, default |-> default, notNull |-> notNull,
   type |-> type]
AddColumns ==
  {Add("none", tree, FALSE, Type("text", <<>>)) : tree \in MCTrees \cup {NoExpression}}
  \cup {Add("none", Call("f_stable"), TRUE, DomainOver("text", Domain(1, FALSE, <<>>))),
        Add("none", Literal, FALSE, DomainOver("text", Domain(0, TRUE, <<>>))),
        Add("none", Literal, FALSE, DomainOver("text", Domain(0, FALSE, <<>>))),
        Add("none", NoExpression, TRUE, Type("text", <<>>)),
        Add("stored", NoExpression, FALSE, Type("text", <<>>)),
        Add("virtual", NoExpression, FALSE, Type("text", <<>>)),
        Add("identity", NoExpression, TRUE, Type("int4", <<>>)),
        Add("serial", NoExpression, FALSE, Type("int4", <<>>))}

MCSubcommands ==
  AddColumns
  \cup {[node |-> "alter_column_type", type |-> type, using |-> using] :
          type \in NewTypes, using \in {FALSE}}
  \cup {[node |-> "alter_column_type", type |-> Type("text", <<>>), using |-> TRUE]}
  \cup {[node |-> "add_constraint", contype |-> "notnull", notValid |-> notValid,
         usingIndex |-> FALSE] : notValid \in BOOLEAN}
  \cup {[node |-> "add_constraint", contype |-> "primary", notValid |-> FALSE,
         usingIndex |-> TRUE]}
  \cup {[node |-> node, name |-> name] :
          node \in {"validate_constraint", "drop_constraint"}, name \in {"k", "gone"}}
  \cup {[node |-> node, name |-> ""] :
          node \in {"set_not_null", "drop_not_null", "set_expression", "drop_column",
                    "drop_identity"}}

MCInnerKinds == {"drop_table", "update", "drop_view", "create_index", "insert", "call"}
===============================================================================
