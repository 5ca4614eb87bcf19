------------------------- MODULE GenTopoSortProofs -------------------------
(***************************************************************************)
(* Proofs about GenTopoSort, the topo_sort of scripts/gen_lsp.py, for     *)
(* every number N of nodes and every dependency map, cyclic or not, and   *)
(* whatever order the sets and dicts are iterated in: in_deg never goes   *)
(* below zero, and every step of topo_sort is a step of the contract      *)
(* TopoOrder or leaves it unchanged.                                      *)
(***************************************************************************)
EXTENDS GenTopoSort, FiniteSetTheorems, SequenceTheorems, FunctionTheorems, TLAPS

(* The interval 1..n is a finite set of n elements. *)
LEMMA IntervalCard ==
  ASSUME NEW n \in Nat
  PROVE  IsFiniteSet(1..n) /\ Cardinality(1..n) = n
<1>1. IsFiniteSet(1..n) /\ Cardinality(1..n) = IF 1 > n THEN 0 ELSE n - 1 + 1
  BY FS_Interval
<1>. QED
  BY <1>1

Distinct(s) == \A i, j \in DOMAIN s : s[i] = s[j] => i = j

Ordered == Elems(order)

(* The list without its last element, what queue.pop() leaves. *)
Front(s) == SubSeq(s, 1, Len(s) - 1)

-----------------------------------------------------------------------------
(* Facts about the sequences of nodes topo_sort works with. *)

LEMMA NodeSetFinite ==
  ASSUME NEW S \in SUBSET Nodes
  PROVE  IsFiniteSet(S) /\ Cardinality(S) \in Nat
<1>1. IsFiniteSet(Nodes)
  BY NAssumption, IntervalCard DEF Nodes
<1>. QED
  BY <1>1, FS_Subset, FS_CardinalityType

LEMMA ElemsAppend ==
  ASSUME NEW s \in Seq(Nodes), NEW x \in Nodes
  PROVE  Elems(Append(s, x)) = Elems(s) \cup {x}
BY AppendProperties DEF Elems

LEMMA ElemsConcat ==
  ASSUME NEW s \in Seq(Nodes), NEW t \in Seq(Nodes)
  PROVE  /\ s \o t \in Seq(Nodes)
         /\ Elems(s \o t) = Elems(s) \cup Elems(t)
<1>1. s \o t \in Seq(Nodes)
  BY ConcatProperties
<1>2. Elems(s \o t) = Elems(s) \cup Elems(t)
  <2>1. \A i \in 1..Len(s \o t) :
          (s \o t)[i] = IF i <= Len(s) THEN s[i] ELSE t[i - Len(s)]
    BY ConcatProperties
  <2>2. Len(s \o t) = Len(s) + Len(t)
    BY ConcatProperties
  <2>3. Elems(s \o t) \subseteq Elems(s) \cup Elems(t)
    BY <2>1, <2>2 DEF Elems
  <2>4. Elems(s) \subseteq Elems(s \o t)
    BY <2>1, <2>2 DEF Elems
  <2>5. Elems(t) \subseteq Elems(s \o t)
    <3> SUFFICES ASSUME NEW k \in 1..Len(t) PROVE t[k] \in Elems(s \o t)
      <4>1. DOMAIN t = 1..Len(t)
        BY LenProperties
      <4>. QED
        BY <4>1 DEF Elems
    <3>0. Len(s) \in Nat /\ Len(t) \in Nat /\ DOMAIN (s \o t) = 1..Len(s \o t)
      BY <1>1, LenProperties
    <3>1. Len(s) + k \in 1..Len(s \o t) /\ ~(Len(s) + k <= Len(s))
      BY <2>2, <3>0
    <3>2. (s \o t)[Len(s) + k] = t[k]
      BY <2>1, <3>0, <3>1
    <3>. QED
      BY <3>0, <3>1, <3>2 DEF Elems
  <2>. QED
    BY <2>3, <2>4, <2>5
<1>. QED
  BY <1>1, <1>2

LEMMA DistinctConcat ==
  ASSUME NEW s \in Seq(Nodes), NEW t \in Seq(Nodes),
         Distinct(s), Distinct(t), Elems(s) \cap Elems(t) = {}
  PROVE  Distinct(s \o t)
<1>1. /\ Len(s) \in Nat /\ Len(t) \in Nat
      /\ DOMAIN s = 1..Len(s) /\ DOMAIN t = 1..Len(t)
      /\ DOMAIN (s \o t) = 1..(Len(s) + Len(t))
      /\ \A i \in 1..(Len(s) + Len(t)) :
           (s \o t)[i] = IF i <= Len(s) THEN s[i] ELSE t[i - Len(s)]
  BY ConcatProperties, LenProperties
<1> SUFFICES ASSUME NEW i \in 1..(Len(s) + Len(t)), NEW j \in 1..(Len(s) + Len(t)),
                    (s \o t)[i] = (s \o t)[j]
             PROVE  i = j
  BY <1>1 DEF Distinct
<1>2. CASE i <= Len(s) /\ j <= Len(s)
  BY <1>1, <1>2 DEF Distinct
<1>3. CASE i > Len(s) /\ j > Len(s)
  BY <1>1, <1>3 DEF Distinct
<1>4. CASE i <= Len(s) /\ j > Len(s)
  <2>0. i \in DOMAIN s /\ j - Len(s) \in DOMAIN t
    BY <1>1, <1>4
  <2>1. s[i] \in Elems(s) /\ t[j - Len(s)] \in Elems(t)
    BY <2>0 DEF Elems
  <2>. QED
    BY <2>1, <1>1, <1>4
<1>5. CASE i > Len(s) /\ j <= Len(s)
  <2>0. j \in DOMAIN s /\ i - Len(s) \in DOMAIN t
    BY <1>1, <1>5
  <2>1. s[j] \in Elems(s) /\ t[i - Len(s)] \in Elems(t)
    BY <2>0 DEF Elems
  <2>. QED
    BY <2>1, <1>1, <1>5
<1>. QED
  BY <1>2, <1>3, <1>4, <1>5, <1>1

(* Popping the last element of a duplicate-free list. *)
LEMMA PopLast ==
  ASSUME NEW q \in Seq(Nodes), q # <<>>, Distinct(q)
  PROVE  /\ Front(q) \in Seq(Nodes)
         /\ q[Len(q)] \in Nodes
         /\ Elems(q) = Elems(Front(q)) \cup {q[Len(q)]}
         /\ q[Len(q)] \notin Elems(Front(q))
         /\ Distinct(Front(q))
<1>1. Len(q) \in Nat \ {0}
  BY EmptySeq, LenProperties
<1>2. Front(q) \in Seq(Nodes) /\ Len(Front(q)) = Len(q) - 1
      /\ \A i \in 1..(Len(q) - 1) : Front(q)[i] = q[i]
  <2>1. \A i \in 1..(Len(q) - 1) : q[i] \in Nodes
    BY <1>1
  <2>2. Front(q) = [i \in 1..(Len(q) - 1) |-> q[i]]
    BY <1>1 DEF Front
  <2>. QED
    BY <1>1, <2>1, <2>2
<1>3. DOMAIN q = 1..Len(q) /\ DOMAIN Front(q) = 1..(Len(q) - 1)
  BY <1>1, <1>2, LenProperties
<1>4. q[Len(q)] \in Nodes
  BY <1>1, <1>3
<1>5. Elems(q) = Elems(Front(q)) \cup {q[Len(q)]}
  BY <1>1, <1>2, <1>3 DEF Elems
<1>6. q[Len(q)] \notin Elems(Front(q))
  BY <1>1, <1>2, <1>3 DEF Distinct, Elems
<1>7. Distinct(Front(q))
  BY <1>1, <1>2, <1>3 DEF Distinct
<1>. QED
  BY <1>2, <1>4, <1>5, <1>6, <1>7

(* A list of Orderings(S) holds every element of S exactly once. *)
LEMMA OrderingsFacts ==
  ASSUME NEW S \in SUBSET Nodes, NEW s \in Orderings(S)
  PROVE  /\ s \in Seq(Nodes)
         /\ Elems(s) = S
         /\ Distinct(s)
<1>1. IsFiniteSet(S) /\ Cardinality(S) \in Nat
  BY NodeSetFinite
<1>2. s \in [1..Cardinality(S) -> S] /\ Distinct(s)
  BY DEF Orderings, Distinct
<1>3. s \in Seq(Nodes)
  BY <1>1, <1>2
<1>4. s \in Injection(1..Cardinality(S), S)
  BY <1>2 DEF Injection, IsInjective, Distinct
<1>5. Cardinality(1..Cardinality(S)) = Cardinality(S)
  BY <1>1, IntervalCard
<1>6. s \in Surjection(1..Cardinality(S), S)
  BY <1>1, <1>4, <1>5, FS_Injection
<1>7. Elems(s) = S
  BY <1>2, <1>6 DEF Surjection, Elems
<1>. QED
  BY <1>2, <1>3, <1>7

-----------------------------------------------------------------------------
(***************************************************************************)
(* The inductive invariant.  Once the set-up has run: in_deg[n] counts    *)
(* the requirements of n not yet in order (for every node, since a node   *)
(* in order has all its requirements in order); the stack holds only      *)
(* ready nodes, each once, none in order; order holds each node once; and *)
(* the stack holds every node not in order whose requirements all are.    *)
(* The last conjunct is what lets the emptiness test at line 283 stand    *)
(* for "no node is ready": without it an empty stack says nothing about   *)
(* the nodes left.                                                         *)
(***************************************************************************)
CountersExact == \A n \in Nodes : in_deg[n] = Cardinality(deps[n] \ Ordered)

StackReady == \A n \in Elems(queue) : deps[n] \subseteq Ordered

OrderClosed == \A n \in Ordered : deps[n] \subseteq Ordered

StackComplete ==
  \A n \in Nodes \ Ordered : deps[n] \subseteq Ordered => n \in Elems(queue)

LoopInv ==
  /\ CountersExact
  /\ StackReady
  /\ OrderClosed
  /\ Elems(queue) \cap Ordered = {}
  /\ Distinct(queue)
  /\ Cardinality(Ordered) = Len(order)
  /\ StackComplete

GInv ==
  /\ TypeOK
  /\ deps \in [Nodes -> SUBSET Nodes]
  /\ \A n \in Nodes : n \notin deps[n]
  /\ pc = "build" => order = <<>>
  /\ pc # "build" => LoopInv

-----------------------------------------------------------------------------
LEMMA InitGInv == Init => GInv
BY EmptySeq DEF Init, GInv, TypeOK

LEMMA BuildGInv == GInv /\ Build => GInv'
<1> SUFFICES ASSUME GInv, Build PROVE GInv'
  OBVIOUS
<1>1. Ordered = {} /\ order' = order /\ deps' = deps
  BY EmptySeq DEF GInv, Build, Ordered, Elems
<1>2. \A n \in Nodes : IsFiniteSet(deps[n]) /\ Cardinality(deps[n]) \in Nat
      /\ (Cardinality(deps[n]) = 0 <=> deps[n] = {})
  BY NodeSetFinite, FS_EmptySet DEF GInv
<1>. DEFINE Z == {n \in Nodes : Cardinality(deps[n]) = 0}
<1>3. PICK s \in Orderings(Z) : queue' = s
  BY DEF Build
<1>4. queue' \in Seq(Nodes) /\ Elems(queue') = Z /\ Distinct(queue')
  BY <1>3, OrderingsFacts
<1>5. in_deg' = [n \in Nodes |-> Cardinality(deps[n])]
  BY DEF Build
<1>6. TypeOK'
  BY <1>1, <1>2, <1>4, <1>5 DEF GInv, TypeOK, Build
<1>7. CountersExact'
  BY <1>1, <1>5 DEF CountersExact, Ordered
<1>8. StackReady' /\ StackComplete'
  BY <1>1, <1>2, <1>4 DEF StackReady, StackComplete, Ordered
<1>9. OrderClosed' /\ Elems(queue') \cap Ordered' = {}
  BY <1>1 DEF OrderClosed, Ordered
<1>10. Cardinality(Ordered') = Len(order')
  <2>1. order = <<>>
    BY DEF GInv, Build
  <2>2. Ordered' = {} /\ Len(order') = 0
    BY <1>1, <2>1, EmptySeq DEF Ordered, Elems
  <2>. QED
    BY <2>2, FS_EmptySet
<1>. QED
  BY <1>1, <1>4, <1>6, <1>7, <1>8, <1>9, <1>10 DEF GInv, LoopInv, Build

LEMMA PopGInv == GInv /\ Pop => GInv'
<1> SUFFICES ASSUME GInv, Pop PROVE GInv'
  OBVIOUS
<1>. DEFINE n == queue[Len(queue)]
            F == Front(queue)
            P == {m \in Dependents(n) : in_deg[m] = 1}
            O == Ordered
<1>0. /\ pc = "loop" /\ pc' = "loop" /\ deps' = deps
      /\ queue \in Seq(Nodes) /\ order \in Seq(Nodes) /\ queue # <<>>
      /\ in_deg \in [Nodes -> Nat]
      /\ deps \in [Nodes -> SUBSET Nodes] /\ \A m \in Nodes : m \notin deps[m]
      /\ LoopInv
  BY DEF GInv, Pop, TypeOK
<1>1. /\ F \in Seq(Nodes) /\ n \in Nodes
      /\ Elems(queue) = Elems(F) \cup {n}
      /\ n \notin Elems(F) /\ Distinct(F)
  BY <1>0, PopLast DEF LoopInv
<1>2. n \notin O /\ deps[n] \subseteq O
  BY <1>0, <1>1 DEF LoopInv, StackReady
<1>3. order' = Append(order, n) /\ Ordered' = O \cup {n}
  BY <1>0, <1>1, ElemsAppend DEF Pop, Ordered
<1>4. in_deg' = [m \in Nodes |-> IF m \in Dependents(n) THEN in_deg[m] - 1 ELSE in_deg[m]]
  BY DEF Pop
<1>5. PICK s \in Orderings(P) : queue' = F \o s
  BY <1>0 DEF Pop, Front
<1>6. s \in Seq(Nodes) /\ Elems(s) = P /\ Distinct(s)
  BY <1>5, OrderingsFacts DEF Dependents
<1>7. queue' \in Seq(Nodes) /\ Elems(queue') = Elems(F) \cup P
  BY <1>1, <1>5, <1>6, ElemsConcat
<1>8. \A m \in Nodes : IsFiniteSet(deps[m] \ O)
  BY <1>0, NodeSetFinite
(* A dependent of n: its pending set loses exactly n. *)
<1>9. \A m \in Dependents(n) :
        /\ n \in deps[m] \ O
        /\ deps[m] \ Ordered' = (deps[m] \ O) \ {n}
        /\ Cardinality(deps[m] \ Ordered') = Cardinality(deps[m] \ O) - 1
  <2> SUFFICES ASSUME NEW m \in Dependents(n)
               PROVE  /\ n \in deps[m] \ O
                      /\ deps[m] \ Ordered' = (deps[m] \ O) \ {n}
                      /\ Cardinality(deps[m] \ Ordered') = Cardinality(deps[m] \ O) - 1
    OBVIOUS
  <2>1. m \in Nodes /\ n \in deps[m] \ O
    BY <1>2 DEF Dependents
  <2>2. deps[m] \ Ordered' = (deps[m] \ O) \ {n}
    BY <1>3
  <2>3. Cardinality((deps[m] \ O) \ {n}) = Cardinality(deps[m] \ O) - 1
    BY <1>8, <2>1, FS_RemoveElement
  <2>. QED
    BY <2>1, <2>2, <2>3
<1>10. \A m \in Nodes \ Dependents(n) : deps[m] \ Ordered' = deps[m] \ O
  BY <1>3 DEF Dependents
<1>11. CountersExact'
  BY <1>0, <1>4, <1>9, <1>10 DEF LoopInv, CountersExact, Dependents
<1>12. \A m \in P : deps[m] \ O = {n}
  <2> SUFFICES ASSUME NEW m \in P PROVE deps[m] \ O = {n}
    OBVIOUS
  <2>1. Cardinality(deps[m] \ O) = 1 /\ n \in deps[m] \ O
    BY <1>0, <1>9 DEF LoopInv, CountersExact, Dependents
  <2>2. \E x : deps[m] \ O = {x}
    BY <2>1, <1>8, FS_Singleton DEF Dependents
  <2>. QED
    BY <2>1, <2>2
<1>13. \A m \in P : deps[m] \subseteq Ordered' /\ m \notin Ordered'
  <2> SUFFICES ASSUME NEW m \in P PROVE deps[m] \subseteq Ordered' /\ m \notin Ordered'
    OBVIOUS
  <2>1. deps[m] \subseteq O \cup {n}
    BY <1>12
  <2>2. m \notin O
    BY <1>0, <1>2, <1>12 DEF LoopInv, OrderClosed
  <2>3. m # n
    BY <1>0, <1>12 DEF Dependents
  <2>. QED
    BY <1>3, <2>1, <2>2, <2>3
<1>14. \A m \in Elems(F) : deps[m] \subseteq Ordered' /\ m \notin Ordered'
  BY <1>0, <1>1, <1>3 DEF LoopInv, StackReady
<1>15. Elems(F) \cap P = {}
  BY <1>0, <1>1, <1>2, <1>12 DEF LoopInv, StackReady
<1>16. Distinct(queue')
  BY <1>1, <1>5, <1>6, <1>15, DistinctConcat
<1>17. StackReady' /\ Elems(queue') \cap Ordered' = {}
  BY <1>0, <1>7, <1>13, <1>14 DEF StackReady
<1>18. OrderClosed'
  BY <1>0, <1>2, <1>3 DEF LoopInv, OrderClosed
<1>19. Cardinality(Ordered') = Len(order')
  <2>1. IsFiniteSet(O) /\ O \subseteq Nodes
    BY <1>0, NodeSetFinite DEF Ordered, Elems
  <2>2. Cardinality(O \cup {n}) = Cardinality(O) + 1
    BY <1>2, <2>1, FS_AddElement
  <2>3. Len(order') = Len(order) + 1
    BY <1>0, <1>1, <1>3, AppendProperties
  <2>. QED
    BY <1>0, <1>3, <2>2, <2>3 DEF LoopInv
<1>20. StackComplete'
  <2> SUFFICES ASSUME NEW m \in Nodes \ Ordered', deps[m] \subseteq Ordered'
               PROVE  m \in Elems(queue')
    BY <1>0 DEF StackComplete
  <2>1. CASE n \in deps[m]
    <3>1. m \in Dependents(n)
      BY <2>1 DEF Dependents
    <3>2. deps[m] \ O = {n}
      BY <1>2, <1>3, <2>1
    <3>3. in_deg[m] = 1
      BY <1>0, <3>2, FS_Singleton DEF LoopInv, CountersExact
    <3>. QED
      BY <1>7, <3>1, <3>3
  <2>2. CASE n \notin deps[m]
    <3>1. deps[m] \subseteq O /\ m \notin O /\ m # n
      BY <1>3, <2>2
    <3>2. m \in Elems(queue)
      BY <1>0, <3>1 DEF LoopInv, StackComplete
    <3>. QED
      BY <1>1, <1>7, <3>1, <3>2
  <2>. QED
    BY <2>1, <2>2
<1>21. TypeOK'
  <2>1. in_deg' \in [Nodes -> Nat]
    <3>1. \A m \in Nodes : Cardinality(deps[m] \ Ordered') \in Nat
      BY <1>0, <1>3, <1>1, NodeSetFinite DEF Ordered
    <3>2. in_deg' = [m \in Nodes |-> Cardinality(deps[m] \ Ordered')]
      BY <1>0, <1>4, <1>11 DEF CountersExact
    <3>. QED
      BY <3>1, <3>2
  <2>2. order' \in Seq(Nodes)
    BY <1>0, <1>1, <1>3, AppendProperties
  <2>. QED
    BY <1>0, <1>7, <2>1, <2>2 DEF TypeOK
<1>. QED
  BY <1>0, <1>11, <1>16, <1>17, <1>18, <1>19, <1>20, <1>21 DEF GInv, LoopInv

LEMMA EndGInv == GInv /\ (Return \/ Raise \/ Stopped \/ UNCHANGED vars) => GInv'
<1> SUFFICES ASSUME GInv, Return \/ Raise \/ Stopped \/ UNCHANGED vars PROVE GInv'
  OBVIOUS
<1>1. /\ UNCHANGED <<deps, in_deg, queue, order>>
      /\ pc' = pc \/ (pc = "loop" /\ pc' \in {"done", "raised"})
  BY DEF Return, Raise, Stopped, vars
<1>2. /\ pc' = "build" => pc = "build"
      /\ pc' # "build" => pc # "build"
  BY <1>1
<1>3. TypeOK'
  BY <1>1 DEF GInv, TypeOK
<1>4. LoopInv => LoopInv'
  BY <1>1 DEF LoopInv, CountersExact, StackReady, OrderClosed, StackComplete,
     Ordered, Distinct
<1>. QED
  BY <1>1, <1>2, <1>3, <1>4 DEF GInv

(* The invariant holds in every state topo_sort reaches. *)
THEOREM GInvHolds == Spec => []GInv
<1>1. Init => GInv
  BY InitGInv
<1>2. GInv /\ [Next]_vars => GInv'
  BY BuildGInv, PopGInv, EndGInv DEF Next
<1>. QED
  BY <1>1, <1>2, PTL DEF Spec

(* The run gen_topo checks TypeOK on four nodes: for every number of     *)
(* nodes and every dependency map, in_deg stays a natural number, the     *)
(* stack and the result lists of nodes.                                  *)
THEOREM TypeCorrect == Spec => []TypeOK
BY GInvHolds, PTL DEF GInv

-----------------------------------------------------------------------------
(* The refinement: topo_sort's initial states are initial states of       *)
(* TopoOrder, and each of its steps is a TopoOrder step or a stutter.     *)

LEMMA InitRefines == Init => Abstract!Init
BY DEF Init, Abstract!Init, Abstract!Nodes, Nodes

LEMMA StepRefines == GInv /\ [Next]_vars => [Abstract!Next]_Abstract!vars
<1> SUFFICES ASSUME GInv, [Next]_vars PROVE [Abstract!Next]_Abstract!vars
  OBVIOUS
<1>0. /\ TypeOK /\ deps \in [Nodes -> SUBSET Nodes]
      /\ IsFiniteSet(Ordered) /\ Ordered \subseteq Nodes
  BY NodeSetFinite DEF GInv, TypeOK, Ordered, Elems
<1>1. CASE Build
  BY <1>1 DEF Build, Abstract!vars
<1>2. CASE Pop
  <2>. DEFINE n == queue[Len(queue)]
  <2>1. pc = "loop" /\ LoopInv /\ queue # <<>> /\ Distinct(queue)
    BY <1>2 DEF Pop, GInv, LoopInv
  <2>2. n \in Elems(queue) /\ n \in Nodes
    BY <1>0, <2>1, PopLast DEF TypeOK
  <2>3. n \in Nodes \ Abstract!Declared /\ deps[n] \subseteq Abstract!Declared
    BY <2>1, <2>2 DEF LoopInv, StackReady, Ordered, Abstract!Declared, Abstract!Nodes, Nodes, Elems
  <2>4. Abstract!Emit(n)
    BY <1>2, <2>1, <2>3 DEF Pop, Abstract!Emit, Abstract!Ready, Abstract!Nodes, Nodes
  <2>. QED
    BY <2>2, <2>4 DEF Abstract!Next, Abstract!Nodes, Nodes
<1>3. CASE Return
  <2>1. LoopInv /\ Len(order) = N
    BY <1>3 DEF Return, GInv
  <2>2. Cardinality(Nodes) = N /\ IsFiniteSet(Nodes)
    BY NAssumption, IntervalCard DEF Nodes
  <2>3. Ordered = Nodes
    BY <1>0, <2>1, <2>2, FS_Subset DEF LoopInv
  <2>4. Abstract!Finish
    BY <1>3, <2>3 DEF Return, Abstract!Finish, Abstract!Declared, Abstract!Nodes, Nodes, Ordered, Elems
  <2>. QED
    BY <2>4 DEF Abstract!Next
<1>4. CASE Raise
  <2>1. LoopInv /\ Len(order) # N /\ queue = <<>>
    BY <1>4 DEF Raise, GInv
  <2>2. Cardinality(Nodes) = N
    BY NAssumption, IntervalCard DEF Nodes
  <2>3. Ordered # Nodes
    BY <2>1, <2>2 DEF LoopInv
  <2>4. Abstract!Ready = {}
    <3>1. Elems(queue) = {}
      BY <2>1 DEF Elems
    <3>. QED
      BY <2>1, <3>1 DEF LoopInv, StackComplete, Abstract!Ready, Abstract!Declared, Abstract!Nodes, Nodes,
         Ordered, Elems
  <2>5. Abstract!FailCyclic
    BY <1>4, <2>3, <2>4 DEF Raise, Abstract!FailCyclic, Abstract!Declared, Abstract!Nodes, Nodes, Ordered, Elems
  <2>. QED
    BY <2>5 DEF Abstract!Next
<1>5. CASE Stopped \/ UNCHANGED vars
  BY <1>5 DEF Stopped, vars, Abstract!vars
<1>. QED
  BY <1>1, <1>2, <1>3, <1>4, <1>5 DEF Next

(* The safety part of the run gen_topo's AbstractSpec, for every number   *)
(* of nodes: topo_sort only ever emits a node whose requirements are all  *)
(* out, returns only when every node is out, and raises only when no node *)
(* left can be emitted.                                                    *)
THEOREM Refinement == Spec => Abstract!Init /\ [][Abstract!Next]_Abstract!vars
<1>1. Init => Abstract!Init
  BY InitRefines
<1>2. []GInv /\ [][Next]_vars => [][Abstract!Next]_Abstract!vars
  BY StepRefines, PTL
<1>. QED
  BY <1>1, <1>2, GInvHolds, PTL DEF Spec

=============================================================================
