------------------------------ MODULE TopoSort ------------------------------
(***************************************************************************)
(* topological_order(nodes, deps) of scripts/lsp_codegen.py: Kahn's       *)
(* algorithm over the declaration nodes of the generated header.           *)
(*                                                                         *)
(* The code's nodes are (kind, name) pairs handed over sorted; here they   *)
(* are 1..N, whose numeric order stands for the lexicographic order that   *)
(* sorted() gives the pairs.  deps is the dependency map produced by       *)
(* Generator.build_node_dependencies: it never holds a self edge (line     *)
(* 676 and 705 discard it) and only names nodes of the node list (line     *)
(* 709), so Init ranges over exactly those maps.  deps is a variable that  *)
(* never changes, so that one run covers every graph on N nodes.           *)
(*                                                                         *)
(* One step per pass of the code: building reverse/indegree and the first  *)
(* queue (lines 374-384), one iteration of the while loop (387-393), and   *)
(* the return, with or without the fallback that appends the nodes left    *)
(* over by a cycle (395-400).                                              *)
(***************************************************************************)
EXTENDS Naturals, FiniteSets, Sequences

CONSTANT N
ASSUME NAssumption == N \in Nat \ {0}

Nodes == 1..N

VARIABLES
  deps,      \* deps[n]: nodes n depends on (the argument deps)
  pc,        \* "build", "loop" (the while queue loop), "done" (returned)
  reverse,   \* reverse[d]: the nodes that depend on d
  indegree,  \* indegree[n]: dependencies of n not yet popped
  queue,     \* the deque of ready nodes
  ordered    \* the result list

vars == <<deps, pc, reverse, indegree, queue, ordered>>

Elems(s) == {s[i] : i \in DOMAIN s}

(* The sequences sorted() makes of a set of nodes: its elements, ascending. *)
SortedSeqs(S) ==
  {s \in [1..Cardinality(S) -> S] : \A i, j \in DOMAIN s : i < j => s[i] < s[j]}

(* The dependency maps build_node_dependencies can hand over. *)
DepGraphs == {d \in [Nodes -> SUBSET Nodes] : \A n \in Nodes : n \notin d[n]}

Init ==
  /\ deps \in DepGraphs
  /\ pc = "build"
  /\ reverse = [n \in Nodes |-> {}]
  /\ indegree = [n \in Nodes |-> 0]
  /\ queue = <<>>
  /\ ordered = <<>>

(* Mutant: the initial queue also takes nodes with one pending dependency. *)
BuildQueueOffByOne ==
  /\ pc = "build"
  /\ reverse' = [d \in Nodes |-> {n \in Nodes : d \in deps[n]}]
  /\ indegree' = [n \in Nodes |-> Cardinality(deps[n])]
  /\ \E s \in SortedSeqs({n \in Nodes : Cardinality(deps[n]) <= 1}) : queue' = s
  /\ pc' = "loop"
  /\ UNCHANGED <<deps, ordered>>

(* Lines 374-384: reverse edges, in-degrees, and the zero in-degree nodes  *)
(* queued in sorted order.                                                 *)
Build ==
  /\ pc = "build"
  /\ reverse' = [d \in Nodes |-> {n \in Nodes : d \in deps[n]}]
  /\ indegree' = [n \in Nodes |-> Cardinality(deps[n])]
  /\ \E s \in SortedSeqs({n \in Nodes : Cardinality(deps[n]) = 0}) : queue' = s
  /\ pc' = "loop"
  /\ UNCHANGED <<deps, ordered>>

(* Mutant: the popped node's own in-degree is decremented as well. *)
PopSelfDecrement ==
  /\ pc = "loop"
  /\ queue # <<>>
  /\ LET node == Head(queue)
         hit == reverse[node] \cup {node}
     IN  /\ ordered' = Append(ordered, node)
         /\ indegree' = [m \in Nodes |-> IF m \in hit THEN indegree[m] - 1
                                                       ELSE indegree[m]]
         /\ \E s \in SortedSeqs({m \in reverse[node] : indegree[m] = 1}) :
              queue' = Tail(queue) \o s
  /\ UNCHANGED <<deps, pc, reverse>>

(* Mutant: the counter is tested before it is decremented, so a dependent *)
(* is queued only when its counter was already zero.                       *)
PopTestBeforeDecrement ==
  /\ pc = "loop"
  /\ queue # <<>>
  /\ LET node == Head(queue)
     IN  /\ ordered' = Append(ordered, node)
         /\ indegree' = [m \in Nodes |-> IF m \in reverse[node] THEN indegree[m] - 1
                                                                ELSE indegree[m]]
         /\ \E s \in SortedSeqs({m \in reverse[node] : indegree[m] = 0}) :
              queue' = Tail(queue) \o s
  /\ UNCHANGED <<deps, pc, reverse>>

(* Lines 387-393: pop the head, append it to the result, decrement each    *)
(* dependent (in sorted order) and queue those that reach zero.  A         *)
(* dependent reaches zero exactly when its in-degree was 1.                *)
Pop ==
  /\ pc = "loop"
  /\ queue # <<>>
  /\ LET node == Head(queue)
     IN  /\ ordered' = Append(ordered, node)
         /\ indegree' = [m \in Nodes |-> IF m \in reverse[node] THEN indegree[m] - 1
                                                                ELSE indegree[m]]
         /\ \E s \in SortedSeqs({m \in reverse[node] : indegree[m] = 1}) :
              queue' = Tail(queue) \o s
  /\ UNCHANGED <<deps, pc, reverse>>

(* Lines 395 and 400: the queue is empty and every node was ordered. *)
Finish ==
  /\ pc = "loop"
  /\ queue = <<>>
  /\ Len(ordered) = N
  /\ pc' = "done"
  /\ UNCHANGED <<deps, reverse, indegree, queue, ordered>>

(* Mutant: the fallback appends every node, not only the missing ones. *)
FallbackAll ==
  /\ pc = "loop"
  /\ queue = <<>>
  /\ Len(ordered) # N
  /\ \E s \in SortedSeqs(Nodes) : ordered' = ordered \o s
  /\ pc' = "done"
  /\ UNCHANGED <<deps, reverse, indegree, queue>>

(* Lines 395-400: nodes are left over (they lie on or behind a cycle): the *)
(* code appends them in sorted order and returns, with no error.           *)
Fallback ==
  /\ pc = "loop"
  /\ queue = <<>>
  /\ Len(ordered) # N
  /\ \E s \in SortedSeqs(Nodes \ Elems(ordered)) : ordered' = ordered \o s
  /\ pc' = "done"
  /\ UNCHANGED <<deps, reverse, indegree, queue>>

(* The function has returned. *)
Terminated == pc = "done" /\ UNCHANGED vars

Next == Build \/ Pop \/ Finish \/ Fallback \/ Terminated

(* A running Python function keeps taking its next step. *)
Spec == Init /\ [][Next]_vars /\ WF_vars(Next)

-----------------------------------------------------------------------------
(***************************************************************************)
(* Properties.                                                             *)
(***************************************************************************)

(* Type invariant; indegree never goes below zero. *)
TypeOK ==
  /\ deps \in DepGraphs
  /\ pc \in {"build", "loop", "done"}
  /\ reverse \in [Nodes -> SUBSET Nodes]
  /\ indegree \in [Nodes -> Nat]
  /\ queue \in Seq(Nodes)
  /\ ordered \in Seq(Nodes)

(* While the loop runs, every node the code has ordered comes after all    *)
(* the nodes it depends on: the deque only ever hands out a node whose     *)
(* dependencies have all been popped, although readiness is tracked by     *)
(* counters decremented one edge at a time.                                *)
DepsEmittedFirst ==
  pc # "done" =>
    \A i \in 1..Len(ordered) : \A d \in deps[ordered[i]] :
      \E j \in 1..(i - 1) : ordered[j] = d

(* When topological_order returns, its result lists every node exactly     *)
(* once, on every graph, cyclic or not (the deque never hands out a node   *)
(* twice and the fallback only adds nodes not yet ordered).                *)
OutputIsPermutation ==
  pc = "done" => Len(ordered) = N /\ Elems(ordered) = Nodes

(* The fallback of lines 395-399 appends the nodes left over and returns *)
(* without error, so it would hide a node the loop failed to release: it   *)
(* must fire only when the loop is really stuck, that is when every node  *)
(* left over still has a dependency left over (it lies on or behind a     *)
(* cycle).  On a graph without cycles the deque alone orders every node.  *)
FallbackOnlyWhenStuck ==
  [][pc = "loop" /\ pc' = "done" /\ Len(ordered) # N =>
       \A n \in Nodes \ Elems(ordered) : deps[n] \cap (Nodes \ Elems(ordered)) # {}]_vars

(* spec.md 4.2, 7 and 9: the sorter implements the contract TopoOrder:   *)
(* it emits one ready node at a time and either returns once every node   *)
(* is out or fails with CyclicDependency when none is ready.  The code    *)
(* breaks this on a cyclic graph: the fallback at lines 395-399 appends   *)
(* nodes whose dependencies are not out yet, and returns without error.   *)
Abstract == INSTANCE TopoOrder WITH
              out <- ordered,
              status <- IF pc = "done" THEN "ok" ELSE "running"

AbstractSpec == Abstract!Spec

-----------------------------------------------------------------------------
(***************************************************************************)
(* The inductive strengthening of TypeOK and DepsEmittedFirst proved in    *)
(* TopoSortProofs.  During the loop: reverse is the reversed map, the      *)
(* counter of a node not yet ordered is the number of its dependencies not *)
(* yet ordered, every queued node is ready, and the deque holds each node  *)
(* at most once and none already ordered.                                  *)
(***************************************************************************)
Ordered == Elems(ordered)

Distinct(s) == \A i, j \in DOMAIN s : s[i] = s[j] => i = j

CountersExact ==
  \A n \in Nodes \ Ordered : indegree[n] = Cardinality(deps[n] \ Ordered)

QueueReady == \A n \in Elems(queue) : deps[n] \subseteq Ordered

LoopInv ==
  /\ reverse = [d \in Nodes |-> {n \in Nodes : d \in deps[n]}]
  /\ CountersExact
  /\ QueueReady
  /\ Elems(queue) \cap Ordered = {}
  /\ Distinct(queue)

IInv ==
  /\ TypeOK
  /\ pc = "build" => ordered = <<>>
  /\ pc = "loop" => LoopInv
  /\ DepsEmittedFirst

=============================================================================
