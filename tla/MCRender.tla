------------------------------ MODULE MCRender ------------------------------
EXTENDS Render

MCStructNames == {"Parent", "Child"}

(* A closed string enumeration holding the literal "a". *)
MCEnumValues == [Kind |-> {"a", "b"}]

Base(n) == [kind |-> "base", name |-> n]
Ref(n) == [kind |-> "reference", name |-> n]
Union(s) == [kind |-> "or", items |-> s]

MCTypes ==
  { Base("string"), Base("boolean"),
    Ref("Child"),
    [kind |-> "stringLiteral", value |-> "a"],
    [kind |-> "array", element |-> Ref("Parent")],
    Union(<<Base("null"), Base("null")>>),
    Union(<<Ref("Child"), Base("null")>>),
    Union(<<Base("integer"), [kind |-> "integerLiteral", value |-> 1], Base("null")>>),
    Union(<<Union(<<Base("string"), Base("null")>>), [kind |-> "stringLiteral", value |-> "a"]>>) }

MCMaxFields == 2
=============================================================================
