---------------------------- MODULE Identifiers ----------------------------
(***************************************************************************)
(* The C++ identifiers the generator makes, abstracted to their structure. *)
(* An identifier is a sequence: a base word (a model value standing for a *)
(* suffix-free name such as "foo"), followed by the numbers appended to   *)
(* it, so <<foo, 2>> is "foo_2" (build_name_map, unique_member_name) or   *)
(* "Foo2" (the enum member dedupe).  Appending a number is Append: this is *)
(* what makes a renamed "foo" and a schema name "foo_2" the same string.  *)
(***************************************************************************)
EXTENDS Naturals, Sequences, Functions

CONSTANT Bases

(* Names made of a base word and at most one number, numbers 2..Top. *)
Idents(Top) == {<<b>> : b \in Bases} \cup {<<b, k>> : b \in Bases, k \in 2..Top}

(* f"{name}_{k}" or f"{name}{k}". *)
WithSuffix(name, k) == Append(name, k)

(* The identifiers of at most one number, and those with one more number *)
(* appended by a dedupe, its numbers 2..Top.                              *)
Names(Top) == Idents(2) \cup {WithSuffix(n, k) : n \in Idents(2), k \in 2..Top}

=============================================================================
