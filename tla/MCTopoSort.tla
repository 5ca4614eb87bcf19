----------------------------- MODULE MCTopoSort -----------------------------
(***************************************************************************)
(* Model-checking instances of TopoSort.                                   *)
(***************************************************************************)
EXTENDS TopoSort

(* The number of declaration nodes.  Four nodes give every shape the loop  *)
(* can meet: several zero in-degree nodes at once, a node freed by two      *)
(* different pops, a diamond, a cycle with a node hanging behind it.       *)
MCN == 4

=============================================================================
