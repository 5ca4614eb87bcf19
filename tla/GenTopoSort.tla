---------------------------- MODULE GenTopoSort ----------------------------
(***************************************************************************)
(* topo_sort(nodes, deps) of scripts/gen_lsp.py (266-286), the sorter of  *)
(* the older generator: Kahn's algorithm with a LIFO list as its queue,   *)
(* raising on a cycle.  Its nodes are the structures and aliases (line    *)
(* 404), a list made from a set of strings, and the dependents of a node  *)
(* are a set: both are iterated in the order of the process's string      *)
(* hashes, so the model lets every such iteration take any order.  The    *)
(* deps main() builds (380-401) name only nodes and no node itself.       *)
(***************************************************************************)
EXTENDS Naturals, FiniteSets, Sequences

CONSTANT N
ASSUME NAssumption == N \in Nat \ {0}

Nodes == 1..N

VARIABLES
  deps,    \* deps[n]: the nodes that must come before n
  pc,      \* "build", "loop", "done" (returned) or "raised"
  in_deg,  \* in_deg[n]: requirements of n not yet in order
  queue,   \* the list used as a stack
  order    \* the result

vars == <<deps, pc, in_deg, queue, order>>

Elems(s) == {s[i] : i \in DOMAIN s}

(* The lists that hold each element of S once, in any order. *)
Orderings(S) ==
  {s \in [1..Cardinality(S) -> S] : \A i, j \in DOMAIN s : s[i] = s[j] => i = j}

(* Lines 270-272: dependents[r], the nodes that require r. *)
Dependents(r) == {n \in Nodes : r \in deps[n]}

Init ==
  /\ deps \in {d \in [Nodes -> SUBSET Nodes] : \A n \in Nodes : n \notin d[n]}
  /\ pc = "build"
  /\ in_deg = [n \in Nodes |-> 0]
  /\ queue = <<>>
  /\ order = <<>>

(* Mutant: in-degrees count the node's dependents instead of its deps. *)
BuildReversed ==
  /\ pc = "build"
  /\ in_deg' = [n \in Nodes |-> Cardinality(Dependents(n))]
  /\ \E s \in Orderings({n \in Nodes : Cardinality(Dependents(n)) = 0}) : queue' = s
  /\ pc' = "loop"
  /\ UNCHANGED <<deps, order>>

(* Lines 268-274: in-degrees, dependents, and the zero in-degree nodes    *)
(* queued in dict order.                                                   *)
Build ==
  /\ pc = "build"
  /\ in_deg' = [n \in Nodes |-> Cardinality(deps[n])]
  /\ \E s \in Orderings({n \in Nodes : Cardinality(deps[n]) = 0}) : queue' = s
  /\ pc' = "loop"
  /\ UNCHANGED <<deps, order>>

(* Mutant: the popped node's own in-degree is decremented as well. *)
PopSelfDecrement ==
  /\ pc = "loop"
  /\ queue # <<>>
  /\ LET n == queue[Len(queue)]
     IN  /\ order' = Append(order, n)
         /\ in_deg' = [m \in Nodes |-> IF m \in Dependents(n) \cup {n} THEN in_deg[m] - 1
                                                             ELSE in_deg[m]]
         /\ \E s \in Orderings({m \in Dependents(n) : in_deg[m] = 1}) :
              queue' = SubSeq(queue, 1, Len(queue) - 1) \o s
  /\ UNCHANGED <<deps, pc>>

(* Lines 276-282: pop the last node, put it in order, decrement its       *)
(* dependents and push, in set order, those that reach zero.              *)
Pop ==
  /\ pc = "loop"
  /\ queue # <<>>
  /\ LET n == queue[Len(queue)]
     IN  /\ order' = Append(order, n)
         /\ in_deg' = [m \in Nodes |-> IF m \in Dependents(n) THEN in_deg[m] - 1
                                                             ELSE in_deg[m]]
         /\ \E s \in Orderings({m \in Dependents(n) : in_deg[m] = 1}) :
              queue' = SubSeq(queue, 1, Len(queue) - 1) \o s
  /\ UNCHANGED <<deps, pc>>

(* Lines 283 and 286: every node is in order. *)
Return ==
  /\ pc = "loop"
  /\ queue = <<>>
  /\ Len(order) = N
  /\ pc' = "done"
  /\ UNCHANGED <<deps, in_deg, queue, order>>

(* Mutant: the cycle check is missing and the partial order returned. *)
RaiseNever ==
  /\ pc = "loop"
  /\ queue = <<>>
  /\ Len(order) # N
  /\ pc' = "done"
  /\ UNCHANGED <<deps, in_deg, queue, order>>

(* Lines 283-285: nodes are left: RuntimeError("Cyclic dependency ..."). *)
Raise ==
  /\ pc = "loop"
  /\ queue = <<>>
  /\ Len(order) # N
  /\ pc' = "raised"
  /\ UNCHANGED <<deps, in_deg, queue, order>>

Stopped == pc \in {"done", "raised"} /\ UNCHANGED vars

Next == Build \/ Pop \/ Return \/ Raise \/ Stopped

Spec == Init /\ [][Next]_vars /\ WF_vars(Next)

-----------------------------------------------------------------------------
(* Type invariant. *)
TypeOK ==
  /\ pc \in {"build", "loop", "done", "raised"}
  /\ in_deg \in [Nodes -> Nat]
  /\ queue \in Seq(Nodes)
  /\ order \in Seq(Nodes)

(* On every graph, cyclic or not, topo_sort keeps the contract of         *)
(* TopoOrder: it emits one ready node at a time, returns once every node  *)
(* is out, and raises exactly when the nodes left all wait on one another.*)
Abstract == INSTANCE TopoOrder WITH
              out <- order,
              status <- CASE pc = "done" -> "ok"
                          [] pc = "raised" -> "cyclic"
                          [] OTHER -> "running"

AbstractSpec == Abstract!Spec

=============================================================================
