---------------------------- MODULE MemberNames ----------------------------
(***************************************************************************)
(* The member names of one naming scope of the emitted header             *)
(* (scripts/lsp_codegen.py).  spec.md 3 gives every structure and every   *)
(* enumeration a member scope of its own; the code fills them in four      *)
(* loops:                                                                  *)
(*   "struct"        emit_struct (1014-1032), each member named by         *)
(*                   unique_member_name (961-972), f"{base}_{n}";          *)
(*   "integer_enum"  emit_enum, integer base (1055-1083), the Counter      *)
(*                   dedupe f"{base}{n}" over the value names;             *)
(*   "closed_enum"   emit_enum, closed string enum (1125-1158), the same   *)
(*                   dedupe over the value strings, which Generator.       *)
(*                   __init__ (575-592) has already run once to map each   *)
(*                   string to its member for make_member's defaults       *)
(*                   (858-869);                                            *)
(*   "custom_enum"   emit_enum, string enum with custom values (1093-1120),*)
(*                   one static member per value with no dedupe.           *)
(*                                                                         *)
(* A member comes from a raw schema name (a property name, a value name or *)
(* a value string).  base[r] is what the scope's sanitizer makes of raw    *)
(* name r (property_member_name, enum_member_upper_camel or                *)
(* sanitize_identifier(camel_to_snake(..))): a function, so equal raw      *)
(* names get equal bases, but otherwise arbitrary, since "foo", "Foo" and  *)
(* "foo$" all give "foo" and "foo_2" stays "foo_2".  Documentation, types  *)
(* and defaults do not take part in naming.                                *)
(***************************************************************************)
EXTENDS Identifiers, FiniteSets

CONSTANTS
  M,    \* number of members (fields or enumeration values) of the scope
  Raw   \* the raw schema names and value strings

ASSUME MAssumption == M \in Nat \ {0} /\ Raw # {}

Scopes == {"struct", "integer_enum", "closed_enum", "custom_enum"}

(* The scopes whose loop renames a repeated base with a Counter. *)
Counted == {"struct", "integer_enum", "closed_enum"}

VARIABLES
  scope,          \* which of the four loops runs
  raw,            \* raw[i]: raw name of the i-th member, in schema order
  base,           \* base[r]: the sanitized base name of raw name r
  usedNames,      \* the Counter used_names: base name -> occurrences so far
  literalMembers, \* closed_string_enum_literal_members[enum]: value -> member
  pc,             \* "init" (Generator.__init__), "emit", "done"
  out             \* the member names emitted so far

vars == <<scope, raw, base, usedNames, literalMembers, pc, out>>

Init ==
  /\ scope \in Scopes
  /\ raw \in [1..M -> Raw]
  /\ base \in [Raw -> Idents(2)]
  /\ usedNames = [n \in Idents(2) |-> 0]
  /\ literalMembers = [t \in {} |-> <<>>]
  /\ pc = IF scope = "closed_enum" THEN "init" ELSE "emit"
  /\ out = <<>>

(* Occurrences of base b among the first k members. *)
Seen(b, k) == Cardinality({j \in 1..k : base[raw[j]] = b})

(* Mutant: the literal map keeps the undeduplicated base of the value. *)
LiteralMemberUndeduped(i) == base[raw[i]]

(* Lines 583-591: the member name __init__ computes for the i-th value,    *)
(* with its own Counter run over the values before it.                    *)
LiteralMember(i) ==
  IF Seen(base[raw[i]], i - 1) = 0 THEN base[raw[i]]
  ELSE WithSuffix(base[raw[i]], Seen(base[raw[i]], i - 1) + 1)

(* Lines 575-592: value_to_member[str(value.value)] = member_name for     *)
(* every value in order, so a string given twice keeps the member of its  *)
(* last occurrence.                                                        *)
IndexLiterals ==
  /\ pc = "init"
  /\ literalMembers' =
       [t \in {raw[i] : i \in 1..M} |->
          LiteralMember(CHOOSE i \in 1..M : raw[i] = t /\ \A j \in (i+1)..M : raw[j] # t)]
  /\ pc' = "emit"
  /\ UNCHANGED <<scope, raw, base, usedNames, out>>

(* Mutant: the Counter is read but never incremented. *)
unique_member_name_uncounted(b) ==
  <<usedNames, IF usedNames[b] = 0 THEN b
               ELSE WithSuffix(b, usedNames[b] + 1)>>

(* Mutant: the (index+1)-th occurrence is numbered index + 2. *)
unique_member_name_offbyone(b) ==
  <<[usedNames EXCEPT ![b] = @ + 1],
    IF usedNames[b] = 0 THEN b ELSE WithSuffix(b, usedNames[b] + 2)>>

(* Lines 964-972 (and the inline copies at 1072-1077 and 1145-1150):      *)
(* index = used_names[base]; used_names[base] += 1; the first occurrence  *)
(* keeps the base, the (index+1)-th gets the base with index+1 appended,  *)
(* a name never tested against the names already emitted.  Returns the    *)
(* new Counter and the name.                                               *)
unique_member_name(b) ==
  <<[usedNames EXCEPT ![b] = @ + 1],
    IF usedNames[b] = 0 THEN b ELSE WithSuffix(b, usedNames[b] + 1)>>

(* One iteration of a counted member loop: the next member gets the name  *)
(* the Counter dedupe makes of its base.                                   *)
CountedStep ==
  /\ Len(out) < M
  /\ LET r == unique_member_name(base[raw[Len(out) + 1]])
     IN  /\ usedNames' = r[1]
         /\ out' = Append(out, r[2])
  /\ UNCHANGED <<scope, raw, base, literalMembers, pc>>

(* Lines 1019-1030: emit_struct declares the next field. *)
EmitMember ==
  /\ pc = "emit"
  /\ scope = "struct"
  /\ CountedStep

(* Lines 1066-1080: emit_enum declares the next value of an integer enum, *)
(* deduped by the inline copy of unique_member_name.                       *)
EmitIntegerMember ==
  /\ pc = "emit"
  /\ scope = "integer_enum"
  /\ CountedStep

(* Lines 1139-1153: the same for a closed string enum, over the value     *)
(* strings.                                                                *)
EmitClosedMember ==
  /\ pc = "emit"
  /\ scope = "closed_enum"
  /\ CountedStep

(* Lines 1110-1116: a custom-value string enum names each static member   *)
(* sanitize_identifier(camel_to_snake(value.name)), with no Counter.      *)
EmitCustom ==
  /\ pc = "emit"
  /\ scope = "custom_enum"
  /\ Len(out) < M
  /\ out' = Append(out, base[raw[Len(out) + 1]])
  /\ UNCHANGED <<scope, raw, base, usedNames, literalMembers, pc>>

(* Lines 1032, 1082, 1119 and 1155: the scope is closed. *)
Done ==
  /\ pc = "emit"
  /\ Len(out) = M
  /\ pc' = "done"
  /\ UNCHANGED <<scope, raw, base, usedNames, literalMembers, out>>

(* The emitter has returned the block. *)
Terminated == pc = "done" /\ UNCHANGED vars

Next ==
  \/ IndexLiterals
  \/ EmitMember \/ EmitIntegerMember \/ EmitClosedMember \/ EmitCustom
  \/ Done
  \/ Terminated

Spec == Init /\ [][Next]_vars

-----------------------------------------------------------------------------
(* Type invariant; no member number exceeds the member count. *)
TypeOK ==
  /\ scope \in Scopes
  /\ raw \in [1..M -> Raw]
  /\ base \in [Raw -> Idents(2)]
  /\ usedNames \in [Idents(2) -> 0..M]
  /\ DOMAIN literalMembers \subseteq Raw
  /\ \A t \in DOMAIN literalMembers : literalMembers[t] \in Names(M)
  /\ pc \in {"init", "emit", "done"}
  /\ out \in Seq(Names(M))
  /\ Len(out) <= M

(* In a counted scope where no base name already ends in a number, the    *)
(* Counter alone keeps the emitted names distinct: every rename of a base *)
(* carries a number larger than the ones before it.                       *)
SuffixFreeMembersUnique ==
  (scope \in Counted /\ \A a \in 1..M : Len(base[raw[a]]) = 1) => IsInjective(out)

(* The default Enum::member that make_member (858-869) writes for a       *)
(* string-literal field is taken from the map Generator.__init__ built    *)
(* (575-592), a second copy of the dedupe loop of emit_enum (1140-1150):  *)
(* once the enumeration is emitted, the member the map gives each string  *)
(* is one emit_enum declared for that very string.                        *)
LiteralDefaultIsMember ==
  (pc = "done" /\ scope = "closed_enum") =>
    \A t \in DOMAIN literalMembers :
      \E i \in 1..M : raw[i] = t /\ out[i] = literalMembers[t]

(* spec.md 3: every generated C++ identifier is unique within its scope.  *)
(* The code breaks it: a custom-value enum never dedupes, and in the      *)
(* counted scopes members "foo", "foo" and "foo_2" come out as "foo",     *)
(* "foo_2" and "foo_2", since a rename is never tested against the names  *)
(* already used.                                                           *)
MemberNamesUnique == IsInjective(out)

=============================================================================
