------------------------------ MODULE Subtype ------------------------------
(***************************************************************************)
(* Generator.is_type_subtype (scripts/lsp_codegen.py 734-808): may a      *)
(* child field of type c replace an inherited field of type p?  Schema    *)
(* type expressions are records with the metaModel's keys: kind, and     *)
(* name, value, items, element, key as the kind has them.                 *)
(*                                                                         *)
(* Beside it, two reference definitions: the values a type admits          *)
(* (Vals, over a small universe of JSON values), against which the code's *)
(* answer is sound when it never accepts a child admitting a value the    *)
(* parent does not; and the subtype rules as spec.md 4.3 words them.      *)
(***************************************************************************)
EXTENDS Integers, Sequences, TLC

(* Mutant: the sign test of the uinteger rule is missing. *)
BaseSubtypeUnsigned(c, pname) ==
  IF c.kind = "base" THEN c.name = pname
  ELSE \/ pname = "string" /\ c.kind = "stringLiteral"
       \/ pname = "integer" /\ c.kind = "integerLiteral"
       \/ pname = "uinteger" /\ c.kind = "integerLiteral"
       \/ pname = "boolean" /\ c.kind = "booleanLiteral"

(* Line 735: `child == parent` is structural equality of the two dicts. *)
(* Lines 752-765: a base parent admits the same base, and a literal of    *)
(* its primitive (an integer literal for uinteger only when >= 0).        *)
BaseSubtype(c, pname) ==
  IF c.kind = "base" THEN c.name = pname
  ELSE \/ pname = "string" /\ c.kind = "stringLiteral"
       \/ pname = "integer" /\ c.kind = "integerLiteral"
       \/ pname = "uinteger" /\ c.kind = "integerLiteral" /\ c.value >= 0
       \/ pname = "boolean" /\ c.kind = "booleanLiteral"

Literals == {"stringLiteral", "integerLiteral", "booleanLiteral"}

(* The early returns of lines 735-808, in the code's order: equality,    *)
(* a union parent (any item), a union child (non-empty, every item), then *)
(* by the parent's kind; arrays, maps and tuples covariantly.              *)
RECURSIVE is_type_subtype(_, _)
is_type_subtype(c, p) ==
  IF c = p THEN TRUE
  ELSE IF p.kind = "or"
    THEN \E i \in DOMAIN p.items : is_type_subtype(c, p.items[i])
  ELSE IF c.kind = "or"
    THEN c.items # <<>> /\ \A i \in DOMAIN c.items : is_type_subtype(c.items[i], p)
  ELSE CASE p.kind = "base" -> BaseSubtype(c, p.name)
         [] p.kind \in Literals -> c.kind = p.kind /\ c.value = p.value
         [] p.kind = "reference" -> c.kind = "reference" /\ c.name = p.name
         [] p.kind = "array" /\ c.kind = "array" ->
              is_type_subtype(c.element, p.element)
         [] p.kind = "map" /\ c.kind = "map" ->
              is_type_subtype(c.key, p.key) /\ is_type_subtype(c.value, p.value)
         [] p.kind = "tuple" /\ c.kind = "tuple" ->
              /\ Len(c.items) = Len(p.items)
              /\ \A i \in DOMAIN c.items : is_type_subtype(c.items[i], p.items[i])
         [] OTHER -> FALSE

-----------------------------------------------------------------------------
(***************************************************************************)
(* The values a type admits, over a universe of a few JSON values written *)
(* as tagged strings: strings "a" and "b", integers -1..1, the booleans,  *)
(* null, one object per referenced structure, arrays and maps of at most  *)
(* one entry, and tuples.                                                   *)
(***************************************************************************)
BaseVals(name) ==
  CASE name = "string"   -> {"s:a", "s:b"}
    [] name = "integer"  -> {"i:-1", "i:0", "i:1"}
    [] name = "uinteger" -> {"i:0", "i:1"}
    [] name = "boolean"  -> {"b:TRUE", "b:FALSE"}
    [] name = "null"     -> {"null"}

LiteralTag == [stringLiteral |-> "s:", integerLiteral |-> "i:", booleanLiteral |-> "b:"]

RECURSIVE Vals(_), TupleVals(_)
Vals(t) ==
  CASE t.kind = "base" -> BaseVals(t.name)
    [] t.kind = "stringLiteral" -> {"s:" \o t.value}
    [] t.kind \in {"integerLiteral", "booleanLiteral"} ->
         {LiteralTag[t.kind] \o ToString(t.value)}
    [] t.kind = "reference" -> {"obj:" \o t.name}
    [] t.kind = "or" -> UNION {Vals(t.items[i]) : i \in DOMAIN t.items}
    [] t.kind = "array" -> {"[]"} \cup {"[" \o v \o "]" : v \in Vals(t.element)}
    [] t.kind = "map" ->
         {"{}"} \cup {"{" \o k \o "=" \o v \o "}" : k \in Vals(t.key), v \in Vals(t.value)}
    [] t.kind = "tuple" -> {"(" \o v \o ")" : v \in TupleVals(t.items)}

TupleVals(items) ==
  IF items = <<>> THEN {""}
  ELSE {v \o "," \o w : v \in Vals(Head(items)), w \in TupleVals(Tail(items))}

(* Every value the child admits, the parent admits. *)
SemanticSubtype(c, p) == Vals(c) \subseteq Vals(p)

(***************************************************************************)
(* spec.md 4.3, rule by rule: identical expressions; a union below X when *)
(* every non-null branch is; X below a union when below some branch; a    *)
(* primitive below itself; a literal below its primitive (a non-negative  *)
(* integer literal below uinteger too); arrays, maps and tuples           *)
(* covariantly; references only below themselves.                         *)
(***************************************************************************)
IsNull(t) == t.kind = "base" /\ t.name = "null"

LiteralBase == [stringLiteral |-> "string", integerLiteral |-> "integer",
                booleanLiteral |-> "boolean"]

RECURSIVE SpecSubtype(_, _)
SpecSubtype(c, p) ==
  \/ c = p
  \/ /\ c.kind = "or"
     /\ \A i \in DOMAIN c.items : IsNull(c.items[i]) \/ SpecSubtype(c.items[i], p)
  \/ p.kind = "or" /\ \E i \in DOMAIN p.items : SpecSubtype(c, p.items[i])
  \/ /\ c.kind \in Literals /\ p.kind = "base"
     /\ \/ p.name = LiteralBase[c.kind]
        \/ c.kind = "integerLiteral" /\ p.name = "uinteger" /\ c.value >= 0
  \/ c.kind = "array" /\ p.kind = "array" /\ SpecSubtype(c.element, p.element)
  \/ /\ c.kind = "map" /\ p.kind = "map"
     /\ SpecSubtype(c.key, p.key) /\ SpecSubtype(c.value, p.value)
  \/ /\ c.kind = "tuple" /\ p.kind = "tuple" /\ Len(c.items) = Len(p.items)
     /\ \A i \in DOMAIN c.items : SpecSubtype(c.items[i], p.items[i])

=============================================================================
