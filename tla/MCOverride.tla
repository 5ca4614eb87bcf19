----------------------------- MODULE MCOverride -----------------------------
EXTENDS Override

CONSTANTS x, X

MCPropNames == {x, X}

(* "x" and "X" both become the member x. *)
MCMemberOf == [n \in MCPropNames |-> x]

Base(n) == [kind |-> "base", name |-> n]
Union(s) == [kind |-> "or", items |-> s]

MCTypes ==
  { Base("string"), Base("integer"), Base("uinteger"), Base("null"),
    [kind |-> "stringLiteral", value |-> "a"],
    [kind |-> "integerLiteral", value |-> -1],
    Union(<<Base("string"), Base("integer")>>),
    Union(<<Base("string"), Base("null")>>),
    Union(<<Base("string"), Base("integer"), Base("null")>>),
    [kind |-> "array", element |-> Base("string")],
    [kind |-> "array", element |-> [kind |-> "stringLiteral", value |-> "a"]] }

(* Unions without null and the primitives they join: the narrowing of a  *)
(* union parent to a smaller union.                                       *)
MCUnionTypes ==
  { Base("string"), Base("integer"), Base("boolean"),
    Union(<<Base("string"), Base("integer")>>),
    Union(<<Base("string"), Base("integer"), Base("boolean")>>) }
=============================================================================
