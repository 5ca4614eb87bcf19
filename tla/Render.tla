------------------------------ MODULE Render ------------------------------
(***************************************************************************)
(* TypeRenderer (scripts/lsp_codegen.py 403-555): the C++ type of a       *)
(* schema type expression, and the part of Generator.make_member (827-    *)
(* 857) that wraps an optional field; beside it Generator._walk_type_refs *)
(* (595-629), which collects the declarations a type refers to for the    *)
(* dependency graph.  The loop renders the flattened fields of one owner  *)
(* structure, each with current_struct = the structure that declared it,  *)
(* as make_member does (line 840).                                        *)
(*                                                                         *)
(* A rendered type is a term: the template (op), the declaration it names *)
(* (name) and its arguments.  Rendering two types to the same text is     *)
(* rendering them to the same term; the text itself is left out.  The     *)
(* C++ name of a declaration is its schema name (TypeNames names them).   *)
(***************************************************************************)
EXTENDS Subtype, SequencesExt

CONSTANTS
  StructNames,  \* the structures, by name
  EnumValues,   \* EnumValues[e]: the values of each closed string enumeration
  Types,        \* the type expressions fields may have
  MaxFields     \* most fields of the owner's flattened list

ASSUME RenderAssumption ==
  /\ StructNames \cap DOMAIN EnumValues = {}
  /\ MaxFields \in Nat \ {0}

ClosedEnums == DOMAIN EnumValues

Term(op, name, args) == [op |-> op, name |-> name, args |-> args]

NullTerm == Term("base", "null", <<>>)

(* Lines 417-425: a string literal belongs to the one closed string       *)
(* enumeration listing it, if exactly one does.                           *)
LiteralOwners(v) == {e \in ClosedEnums : v \in EnumValues[e]}

(* Lines 539-544: the rendered items in order, each kept at its first     *)
(* occurrence.                                                             *)
Dedupe(s) == FoldLeft(LAMBDA acc, x : IF x \in ToSet(acc) THEN acc ELSE Append(acc, x),
                      <<>>, s)

RECURSIVE render_type(_, _), render_or(_, _), render_type_noself(_, _),
          render_or_dropnull(_, _)

(* Mutant: a reference to the current structure is rendered by name. *)
render_type_noself(t, cur) ==
  CASE t.kind = "base" -> Term("base", t.name, <<>>)
    [] t.kind = "reference" ->
         IF t.name \in ClosedEnums THEN Term("enum_string", t.name, <<>>)
         ELSE Term("named", t.name, <<>>)
    [] t.kind = "array" -> Term("vector", "", <<render_type_noself(t.element, cur)>>)
    [] t.kind = "map" ->
         Term("map", "", <<render_type_noself(t.key, cur), render_type_noself(t.value, cur)>>)
    [] t.kind = "tuple" ->
         Term("tuple", "", [i \in DOMAIN t.items |-> render_type_noself(t.items[i], cur)])
    [] t.kind = "or" -> render_or(t.items, cur)
    [] t.kind = "and" ->
         IF Len(t.items) = 1 THEN render_type_noself(t.items[1], cur)
         ELSE Term("tuple", "", [i \in DOMAIN t.items |-> render_type_noself(t.items[i], cur)])
    [] t.kind = "literal" -> Term("named", "LspEmptyObject", <<>>)
    [] t.kind = "stringLiteral" ->
         IF Cardinality(LiteralOwners(t.value)) = 1
           THEN Term("enum_string", CHOOSE e \in LiteralOwners(t.value) : TRUE, <<>>)
           ELSE Term("base", "string", <<>>)
    [] t.kind = "integerLiteral" -> Term("base", "integer", <<>>)
    [] t.kind = "booleanLiteral" -> Term("base", "boolean", <<>>)

(* Lines 427-519, the kinds in the code's order.  cur is current_struct,  *)
(* "" for None.                                                            *)
render_type(t, cur) ==
  CASE t.kind = "base" -> Term("base", t.name, <<>>)
    [] t.kind = "reference" ->
         IF t.name = cur THEN Term("shared_ptr", t.name, <<>>)
         ELSE IF t.name \in ClosedEnums THEN Term("enum_string", t.name, <<>>)
         ELSE Term("named", t.name, <<>>)
    [] t.kind = "array" -> Term("vector", "", <<render_type(t.element, cur)>>)
    [] t.kind = "map" ->
         Term("map", "", <<render_type(t.key, cur), render_type(t.value, cur)>>)
    [] t.kind = "tuple" ->
         Term("tuple", "", [i \in DOMAIN t.items |-> render_type(t.items[i], cur)])
    [] t.kind = "or" -> render_or(t.items, cur)
    [] t.kind = "and" ->
         IF Len(t.items) = 1 THEN render_type(t.items[1], cur)
         ELSE Term("tuple", "", [i \in DOMAIN t.items |-> render_type(t.items[i], cur)])
    [] t.kind = "literal" -> Term("named", "LspEmptyObject", <<>>)
    [] t.kind = "stringLiteral" ->
         IF Cardinality(LiteralOwners(t.value)) = 1
           THEN Term("enum_string", CHOOSE e \in LiteralOwners(t.value) : TRUE, <<>>)
           ELSE Term("base", "string", <<>>)
    [] t.kind = "integerLiteral" -> Term("base", "integer", <<>>)
    [] t.kind = "booleanLiteral" -> Term("base", "boolean", <<>>)

(* Mutant: a union of one type and null loses its null. *)
render_or_dropnull(items, cur) ==
  LET sawNull == \E i \in DOMAIN items : IsNull(items[i])
      unique == Dedupe([i \in DOMAIN SelectSeq(items, LAMBDA it : ~IsNull(it)) |->
                          render_type(SelectSeq(items, LAMBDA it : ~IsNull(it))[i], cur)])
      withNull == IF sawNull THEN <<NullTerm>> \o unique ELSE unique
  IN  IF sawNull /\ Len(unique) = 1 THEN unique[1]
      ELSE IF withNull = <<>> THEN NullTerm
      ELSE IF Len(withNull) = 1 THEN withNull[1]
      ELSE Term("variant", "", withNull)

(* Lines 521-555: null items only set saw_null; the others are rendered  *)
(* and deduplicated by their rendering; one survivor with null is        *)
(* nullable<>, several are a variant<> with null first.                  *)
render_or(items, cur) ==
  LET sawNull == \E i \in DOMAIN items : IsNull(items[i])
      unique == Dedupe([i \in DOMAIN SelectSeq(items, LAMBDA it : ~IsNull(it)) |->
                          render_type(SelectSeq(items, LAMBDA it : ~IsNull(it))[i], cur)])
      withNull == IF sawNull THEN <<NullTerm>> \o unique ELSE unique
  IN  IF sawNull /\ Len(unique) = 1 THEN Term("nullable", "", unique)
      ELSE IF withNull = <<>> THEN NullTerm
      ELSE IF Len(withNull) = 1 THEN withNull[1]
      ELSE Term("variant", "", withNull)

(* Mutant: an optional variant is wrapped like any other type. *)
MemberTypeNoVariant(prop, declaredIn) ==
  LET r == render_type(prop.type, declaredIn)
  IN  IF prop.optional /\ prop.type = [kind |-> "base", name |-> "boolean"]
        THEN Term("optional_bool", "", <<>>)
      ELSE IF prop.optional THEN Term("optional", "", <<r>>)
      ELSE r

(* Lines 837-857: an optional boolean is optional_bool, another optional  *)
(* field optional<>, or optional_variant<> when its type is a variant.    *)
MemberType(prop, declaredIn) ==
  LET r == render_type(prop.type, declaredIn)
  IN  IF prop.optional /\ prop.type = [kind |-> "base", name |-> "boolean"]
        THEN Term("optional_bool", "", <<>>)
      ELSE IF prop.optional /\ r.op = "variant" THEN Term("optional_variant", "", r.args)
      ELSE IF prop.optional THEN Term("optional", "", <<r>>)
      ELSE r

RECURSIVE _walk_type_refs(_, _), walk_type_refs_no_literal(_, _)

(* Mutant: string literals are not traced to their enumeration. *)
walk_type_refs_no_literal(t, cur) ==
  CASE t.kind = "reference" ->
         IF t.name = cur THEN {}
         ELSE IF t.name \in StructNames \cup ClosedEnums THEN {t.name} ELSE {}
    [] t.kind = "array" -> walk_type_refs_no_literal(t.element, cur)
    [] t.kind = "map" ->
         walk_type_refs_no_literal(t.key, cur) \cup walk_type_refs_no_literal(t.value, cur)
    [] t.kind \in {"or", "and", "tuple"} ->
         UNION {walk_type_refs_no_literal(t.items[i], cur) : i \in DOMAIN t.items}
    [] OTHER -> {}

(* Lines 594-629: the structures and enumerations a type refers to, not  *)
(* counting a reference to cur; a string literal refers to its owning     *)
(* enumeration.                                                            *)
_walk_type_refs(t, cur) ==
  CASE t.kind = "reference" ->
         IF t.name = cur THEN {}
         ELSE IF t.name \in StructNames \cup ClosedEnums THEN {t.name} ELSE {}
    [] t.kind = "stringLiteral" ->
         IF Cardinality(LiteralOwners(t.value)) = 1 THEN LiteralOwners(t.value) ELSE {}
    [] t.kind = "array" -> _walk_type_refs(t.element, cur)
    [] t.kind = "map" -> _walk_type_refs(t.key, cur) \cup _walk_type_refs(t.value, cur)
    [] t.kind \in {"or", "and", "tuple"} ->
         UNION {_walk_type_refs(t.items[i], cur) : i \in DOMAIN t.items}
    [] OTHER -> {}

-----------------------------------------------------------------------------
Props == [name : {"f"}, optional : BOOLEAN, type : Types]

Field == [prop : Props, declaredIn : StructNames]

VARIABLES
  owner,   \* the structure whose members are rendered
  fields,  \* its flattened fields, each with the structure declaring it
  out      \* the member types rendered so far

vars == <<owner, fields, out>>

Init ==
  /\ owner \in StructNames
  /\ fields \in UNION {[1..k -> Field] : k \in 1..MaxFields}
  /\ out = <<>>

(* Lines 833-857: make_member renders the next field. *)
RenderMember ==
  /\ Len(out) < Len(fields)
  /\ LET f == fields[Len(out) + 1]
     IN  out' = Append(out, MemberType(f.prop, f.declaredIn))
  /\ UNCHANGED <<owner, fields>>

Done == Len(out) = Len(fields) /\ UNCHANGED vars

Next == RenderMember \/ Done

Spec == Init /\ [][Next]_vars

-----------------------------------------------------------------------------
(***************************************************************************)
(* The JSON values a member type accepts (the tagged strings of Vals,     *)
(* "absent" for a missing optional field), and the declarations a member  *)
(* holds by value, which C++ needs complete before the member.            *)
(***************************************************************************)
RECURSIVE CppVals(_), CppTupleVals(_)
CppVals(r) ==
  CASE r.op = "base" -> BaseVals(r.name)
    [] r.op \in {"named", "shared_ptr"} -> {"obj:" \o r.name}
    [] r.op = "enum_string" -> {"s:" \o v : v \in EnumValues[r.name]}
    [] r.op = "vector" -> {"[]"} \cup {"[" \o v \o "]" : v \in CppVals(r.args[1])}
    [] r.op = "map" ->
         {"{}"} \cup {"{" \o k \o "=" \o v \o "}" : k \in CppVals(r.args[1]),
                                                   v \in CppVals(r.args[2])}
    [] r.op = "tuple" -> {"(" \o v \o ")" : v \in CppTupleVals(r.args)}
    [] r.op \in {"variant", "optional_variant"} ->
         UNION {CppVals(r.args[i]) : i \in DOMAIN r.args}
           \cup (IF r.op = "optional_variant" THEN {"absent"} ELSE {})
    [] r.op = "nullable" -> {"null"} \cup CppVals(r.args[1])
    [] r.op = "optional" -> {"absent"} \cup CppVals(r.args[1])
    [] r.op = "optional_bool" -> {"absent", "b:TRUE", "b:FALSE"}

CppTupleVals(args) ==
  IF args = <<>> THEN {""}
  ELSE {v \o "," \o w : v \in CppVals(Head(args)), w \in CppTupleVals(Tail(args))}

RECURSIVE ByValue(_)
ByValue(r) ==
  CASE r.op \in {"named", "enum_string"} -> {r.name}
    [] r.op \in {"tuple", "variant", "optional_variant", "nullable", "optional"} ->
         UNION {ByValue(r.args[i]) : i \in DOMAIN r.args}
    [] OTHER -> {}

FieldVals(prop) == Vals(prop.type) \cup (IF prop.optional THEN {"absent"} ELSE {})

(* The dependencies struct_dependencies (659-678) gives the owner: what   *)
(* the fields refer to, each walked from the structure declaring it, less *)
(* the owner itself (line 676).                                            *)
OwnerDeps ==
  UNION {_walk_type_refs(fields[k].prop.type, fields[k].declaredIn) : k \in DOMAIN fields}
    \ {owner}

(* Type invariant: the member types are templates the header declares; an *)
(* optional variant is optional_variant<>, never optional<variant<>>.      *)
TypeOK ==
  /\ owner \in StructNames
  /\ Len(out) <= Len(fields)
  /\ \A k \in DOMAIN out :
       /\ out[k].op \in {"base", "named", "shared_ptr", "enum_string", "vector", "map",
                        "tuple", "variant", "nullable", "optional", "optional_variant",
                        "optional_bool"}
       /\ out[k].op = "optional" => out[k].args[1].op # "variant"

(* Every JSON value the schema admits for a field is accepted by the      *)
(* member's C++ type: union flattening, null collapsing, deduplication by *)
(* rendering and the optional wrappers only ever widen, never lose a      *)
(* value a peer may send.                                                  *)
RenderWidens ==
  \A k \in DOMAIN out : FieldVals(fields[k].prop) \subseteq CppVals(out[k])

(* A field a structure declares itself that refers to the structure is  *)
(* rendered through shared_ptr, never held by value (spec.md 8).          *)
SelfReferenceIndirect ==
  \A k \in DOMAIN out : fields[k].declaredIn = owner => owner \notin ByValue(out[k])

(* Every other declaration a member holds by value, or whose enum_string  *)
(* it instantiates, is a dependency edge of the owner, so the topological *)
(* order declares it first: the walker and the renderer agree.            *)
ByValueIsDependency ==
  \A k \in DOMAIN out : ByValue(out[k]) \ {owner} \subseteq OwnerDeps

(* spec.md 8: a self-referencing structure field renders as an            *)
(* indirection, not an inline recursive value.  The code breaks it for a *)
(* field inherited from a parent that refers to the child: make_member    *)
(* renders it with current_struct = the parent, so the child holds itself *)
(* by value, and struct_dependencies drops the self edge (line 676).       *)
NoInlineSelf == \A k \in DOMAIN out : owner \notin ByValue(out[k])

=============================================================================
