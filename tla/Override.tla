------------------------------ MODULE Override ------------------------------
(***************************************************************************)
(* Generator.collect_struct_members (scripts/lsp_codegen.py 918-959) with *)
(* is_safe_override (810-825): the members of one structure.  With one   *)
(* structure parent, each field of the parent's flattened list is either *)
(* replaced by the local field of the same member name, when the override *)
(* is safe, or kept beside it with a warning; with several, each parent   *)
(* becomes a flatten<> member; then the local fields follow.              *)
(*                                                                         *)
(* A field is a record of its schema name, optionality and type           *)
(* expression; rendering, comments and defaults (make_member) do not       *)
(* decide which fields become members and are left out.                   *)
(***************************************************************************)
EXTENDS Subtype

CONSTANTS
  PropNames,   \* schema property names
  MemberOf,    \* MemberOf[n]: property_member_name(n), lines 730-732
  Types,       \* the type expressions fields may have
  MaxInherited, \* most fields in the parent's flattened list
  MaxLocal     \* most local fields of the structure

ASSUME OverrideAssumption ==
  /\ MemberOf \in [PropNames -> PropNames]
  /\ MaxInherited \in Nat
  /\ MaxLocal \in Nat

Props == [name : PropNames, optional : BOOLEAN, type : Types]

FieldLists(max) == UNION {[1..k -> Props] : k \in 0..max}

VARIABLES
  parents,    \* "single": one structure parent; "multi": two
  inherited,  \* collect_flattened_properties(parent), for "single"
  local,      \* struct_def.properties
  members,    \* the member list built so far
  warnings,   \* unsafe_override_warnings: the inherited fields kept in conflict
  i,          \* the next inherited field
  pc          \* "inherit", "own", "done"

vars == <<parents, inherited, local, members, warnings, i, pc>>

Init ==
  /\ parents \in {"single", "multi"}
  /\ inherited \in IF parents = "single" THEN FieldLists(MaxInherited) ELSE {<<>>}
  /\ local \in FieldLists(MaxLocal)
  /\ members = <<>>
  /\ warnings = <<>>
  /\ i = 1
  /\ pc = "inherit"

(* Lines 924-927: local_props_by_member_name keeps, for a member name, the *)
(* last local field that has it: the set of that field, or {} if none.     *)
LocalFor(m) ==
  LET ks == {k \in DOMAIN local : MemberOf[local[k].name] = m}
  IN  {local[k] : k \in {k \in ks : \A j \in ks : j <= k}}

(* Line 931: the local field with the member name of the current          *)
(* inherited one.                                                          *)
Rival == LocalFor(MemberOf[inherited[i].name])

(* Mutant: a required parent field may be overridden by an optional one. *)
is_safe_override_any_optional(pp, cp) ==
  /\ pp.name = cp.name
  /\ is_type_subtype(cp.type, pp.type)

(* Lines 810-825: same schema name, the child not optional where the      *)
(* parent is required, and the child's type a subtype of the parent's.    *)
is_safe_override(pp, cp) ==
  /\ pp.name = cp.name
  /\ ~(cp.optional /\ ~pp.optional)
  /\ is_type_subtype(cp.type, pp.type)

(* Lines 929-935: an inherited field with a safe local override is        *)
(* skipped.                                                                *)
InheritOverridden ==
  /\ pc = "inherit" /\ parents = "single"
  /\ i <= Len(inherited)
  /\ \E l \in Rival : is_safe_override(inherited[i], l)
  /\ i' = i + 1
  /\ UNCHANGED <<parents, inherited, local, members, warnings, pc>>

(* Mutant: keeping a field also skips the field after it. *)
InheritKeptSkip ==
  /\ pc = "inherit" /\ parents = "single"
  /\ i <= Len(inherited)
  /\ \A l \in Rival : ~is_safe_override(inherited[i], l)
  /\ members' = Append(members, [field |-> inherited[i], from |-> "parent"])
  /\ warnings' = IF Rival = {} THEN warnings ELSE Append(warnings, inherited[i])
  /\ i' = i + 2
  /\ UNCHANGED <<parents, inherited, local, pc>>

(* Lines 929-944: any other inherited field becomes a member, with an     *)
(* unsafe-override warning when a local field has its member name.         *)
InheritKept ==
  /\ pc = "inherit" /\ parents = "single"
  /\ i <= Len(inherited)
  /\ \A l \in Rival : ~is_safe_override(inherited[i], l)
  /\ members' = Append(members, [field |-> inherited[i], from |-> "parent"])
  /\ warnings' = IF Rival = {} THEN warnings ELSE Append(warnings, inherited[i])
  /\ i' = i + 1
  /\ UNCHANGED <<parents, inherited, local, pc>>

(* The loop over the inherited fields is over. *)
InheritDone ==
  /\ pc = "inherit" /\ parents = "single"
  /\ i > Len(inherited)
  /\ pc' = "own"
  /\ UNCHANGED <<parents, inherited, local, members, warnings, i>>

(* Lines 945-949: several structure parents are composed, not flattened: *)
(* one flatten<> member each.                                              *)
ComposeParents ==
  /\ pc = "inherit" /\ parents = "multi"
  /\ members' = members \o <<[flatten |-> 1], [flatten |-> 2]>>
  /\ pc' = "own"
  /\ UNCHANGED <<parents, inherited, local, warnings, i>>

(* Lines 951-959: every local field becomes a member, and the list is     *)
(* returned.                                                               *)
AppendOwn ==
  /\ pc = "own"
  /\ members' = members \o [k \in DOMAIN local |-> [field |-> local[k], from |-> "local"]]
  /\ pc' = "done"
  /\ UNCHANGED <<parents, inherited, local, warnings, i>>

Terminated == pc = "done" /\ UNCHANGED vars

Next == InheritOverridden \/ InheritKept \/ InheritDone \/ ComposeParents
          \/ AppendOwn \/ Terminated

Spec == Init /\ [][Next]_vars

-----------------------------------------------------------------------------
Member == [field : Props, from : {"parent", "local"}] \cup [flatten : {1, 2}]

(* Type invariant. *)
TypeOK ==
  /\ parents \in {"single", "multi"}
  /\ inherited \in FieldLists(MaxInherited)
  /\ local \in FieldLists(MaxLocal)
  /\ members \in Seq(Member)
  /\ warnings \in Seq(Props)
  /\ i \in 1..(MaxInherited + 1)
  /\ pc \in {"inherit", "own", "done"}

(* An inherited field is dropped from a structure only when a local field *)
(* of the same schema name replaces it that is required wherever the       *)
(* inherited one is and admits no value the inherited type does not: the  *)
(* override check, through the recursive subtype test, never loses a      *)
(* value a client of the parent type may send.                            *)
OverrideSound ==
  [][ pc = "inherit" /\ i' = i + 1 /\ members' = members =>
        LET f == inherited[i] IN
        \E k \in DOMAIN local :
          /\ local[k].name = f.name
          /\ local[k].optional => f.optional
          /\ SemanticSubtype(local[k].type, f.type) ]_vars

(* A safe override under the rules of spec.md 4.3. *)
SpecSafeOverride(pp, cp) ==
  /\ pp.name = cp.name
  /\ ~(cp.optional /\ ~pp.optional)
  /\ SpecSubtype(cp.type, pp.type)

(* spec.md 4.3: when the local field is a safe override under its subtype *)
(* rules, the inherited field is dropped and only the child's declaration *)
(* survives.  The code keeps both when the child narrows a union parent   *)
(* to a smaller union or to a union with null: it tests the parent's      *)
(* union (line 741) before the child's (746), and counts null among the   *)
(* child's branches.                                                       *)
SpecOverridesReplaced ==
  [][ pc = "inherit" /\ i' = i + 1 /\ members' # members =>
        \A l \in Rival : ~SpecSafeOverride(inherited[i], l) ]_vars

=============================================================================
