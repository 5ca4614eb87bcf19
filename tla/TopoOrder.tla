----------------------------- MODULE TopoOrder -----------------------------
(***************************************************************************)
(* What the dependency sorter of the code generator promises (spec.md      *)
(* 4.2 and 7): it declares every node after every node it depends on, one  *)
(* node at a time, and, when no remaining node can be declared because the *)
(* remaining nodes depend on one another, it stops with CyclicDependency   *)
(* instead of emitting a partial order.                                    *)
(*                                                                         *)
(* The order among nodes that are ready together is left open: this is the *)
(* contract, not the algorithm.                                            *)
(***************************************************************************)
EXTENDS Naturals, Sequences

CONSTANT N

Nodes == 1..N

VARIABLES
  deps,   \* deps[n]: the nodes n must be declared after
  out,    \* the declarations emitted so far, in order
  status  \* "running", then "ok" or "cyclic"

vars == <<deps, out, status>>

Declared == {out[i] : i \in DOMAIN out}

(* A node is ready when it is not declared yet and all its dependencies are. *)
Ready == {n \in Nodes \ Declared : deps[n] \subseteq Declared}

Init ==
  /\ deps \in [Nodes -> SUBSET Nodes]
  /\ out = <<>>
  /\ status = "running"

Emit(n) ==
  /\ status = "running"
  /\ n \in Ready
  /\ out' = Append(out, n)
  /\ UNCHANGED <<deps, status>>

Finish ==
  /\ status = "running"
  /\ Declared = Nodes
  /\ status' = "ok"
  /\ UNCHANGED <<deps, out>>

FailCyclic ==
  /\ status = "running"
  /\ Declared # Nodes
  /\ Ready = {}
  /\ status' = "cyclic"
  /\ UNCHANGED <<deps, out>>

Next == (\E n \in Nodes : Emit(n)) \/ Finish \/ FailCyclic

Spec == Init /\ [][Next]_vars /\ WF_vars(Next)

=============================================================================
