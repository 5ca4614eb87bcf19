--------------------------- MODULE TopoSortProofs ---------------------------
(***************************************************************************)
(* Proofs about TopoSort, for every number N of nodes and every dependency *)
(* map: topological_order keeps its counters well typed, and while its     *)
(* loop runs it never orders a node before one of its dependencies.        *)
(***************************************************************************)
EXTENDS TopoSort, FiniteSetTheorems, SequenceTheorems, TLAPS

(* The interval 1..n is a finite set of n elements. *)
LEMMA IntervalCard ==
  ASSUME NEW n \in Nat
  PROVE  IsFiniteSet(1..n) /\ Cardinality(1..n) = n
<1>1. IsFiniteSet(1..n) /\ Cardinality(1..n) = IF 1 > n THEN 0 ELSE n - 1 + 1
  BY FS_Interval
<1>. QED
  BY <1>1

-----------------------------------------------------------------------------
(* Facts about the helpers of TopoSort. *)

LEMMA SubsetOfNodesFinite ==
  ASSUME NEW S \in SUBSET Nodes
  PROVE  IsFiniteSet(S) /\ Cardinality(S) \in Nat
<1>1. IsFiniteSet(Nodes)
  BY NAssumption, IntervalCard DEF Nodes
<1>2. IsFiniteSet(S)
  BY <1>1, FS_Subset
<1>. QED
  BY <1>2, FS_CardinalityType

LEMMA SortedSeqsFacts ==
  ASSUME NEW S \in SUBSET Nodes, NEW s \in SortedSeqs(S)
  PROVE  /\ s \in Seq(Nodes)
         /\ Elems(s) \subseteq S
         /\ Distinct(s)
<1>1. Cardinality(S) \in Nat
  BY SubsetOfNodesFinite
<1>2. s \in [1..Cardinality(S) -> S]
  BY DEF SortedSeqs
<1>3. s \in Seq(Nodes)
  BY <1>1, <1>2, IsASeq
<1>4. Elems(s) \subseteq S
  BY <1>2 DEF Elems
<1>5. Distinct(s)
  <2> SUFFICES ASSUME NEW i \in DOMAIN s, NEW j \in DOMAIN s, s[i] = s[j], i # j
               PROVE  FALSE
    BY DEF Distinct
  <2>0. DOMAIN s = 1..Cardinality(S) /\ s[i] \in S /\ s[j] \in S
    BY <1>2
  <2>1. i \in Int /\ j \in Int /\ s[i] \in Int /\ s[j] \in Int
    <3>1. s[i] \in Nodes /\ s[j] \in Nodes
      BY <2>0
    <3>2. i \in Nat /\ j \in Nat
      BY <1>1, <2>0
    <3>. QED
      BY <3>1, <3>2 DEF Nodes
  <2>2. CASE i < j
    BY <2>1, <2>2 DEF SortedSeqs
  <2>3. CASE j < i
    BY <2>1, <2>3 DEF SortedSeqs
  <2>. QED
    BY <2>1, <2>2, <2>3
<1>. QED
  BY <1>3, <1>4, <1>5

LEMMA ElemsAppend ==
  ASSUME NEW s \in Seq(Nodes), NEW x \in Nodes
  PROVE  Elems(Append(s, x)) = Elems(s) \cup {x}
BY AppendProperties DEF Elems

LEMMA ElemsConcat ==
  ASSUME NEW s \in Seq(Nodes), NEW t \in Seq(Nodes)
  PROVE  Elems(s \o t) = Elems(s) \cup Elems(t)
<1>1. /\ Len(s) \in Nat /\ Len(t) \in Nat
      /\ DOMAIN s = 1..Len(s) /\ DOMAIN t = 1..Len(t)
      /\ DOMAIN (s \o t) = 1..(Len(s) + Len(t))
      /\ \A i \in 1..(Len(s) + Len(t)) :
           (s \o t)[i] = IF i <= Len(s) THEN s[i] ELSE t[i - Len(s)]
  BY ConcatProperties, LenProperties
<1>2. Elems(s \o t) \subseteq Elems(s) \cup Elems(t)
  BY <1>1 DEF Elems
<1>3. Elems(s) \subseteq Elems(s \o t)
  BY <1>1 DEF Elems
<1>4. Elems(t) \subseteq Elems(s \o t)
  <2> SUFFICES ASSUME NEW k \in 1..Len(t) PROVE t[k] \in Elems(s \o t)
    BY <1>1 DEF Elems
  <2>1. (s \o t)[Len(s) + k] = t[k]
    BY <1>1
  <2>. QED
    BY <2>1, <1>1 DEF Elems
<1>. QED
  BY <1>2, <1>3, <1>4

(* Popping the head of a duplicate-free sequence removes exactly the head. *)
LEMMA ElemsTail ==
  ASSUME NEW s \in Seq(Nodes), s # <<>>, Distinct(s)
  PROVE  /\ Head(s) \in Elems(s)
         /\ Elems(Tail(s)) = Elems(s) \ {Head(s)}
         /\ Distinct(Tail(s))
<1>1. /\ Len(s) \in Nat \ {0}
      /\ Head(s) = s[1]
      /\ DOMAIN s = 1..Len(s)
      /\ Tail(s) \in Seq(Nodes)
      /\ DOMAIN Tail(s) = 1..(Len(s) - 1)
      /\ Len(Tail(s)) = Len(s) - 1
      /\ \A i \in 1..Len(Tail(s)) : Tail(s)[i] = s[i + 1]
  BY HeadTailProperties, EmptySeq, LenProperties
<1>2. Head(s) \in Elems(s)
  BY <1>1 DEF Elems
<1>3. Elems(Tail(s)) \subseteq Elems(s) \ {Head(s)}
  BY <1>1 DEF Elems, Distinct
<1>4. Elems(s) \ {Head(s)} \subseteq Elems(Tail(s))
  <2> SUFFICES ASSUME NEW k \in 2..Len(s) PROVE s[k] \in Elems(Tail(s))
    BY <1>1 DEF Elems
  <2>1. k - 1 \in DOMAIN Tail(s) /\ Tail(s)[k - 1] = s[k]
    BY <1>1
  <2>. QED
    BY <2>1 DEF Elems
<1>5. Distinct(Tail(s))
  BY <1>1 DEF Distinct
<1>. QED
  BY <1>2, <1>3, <1>4, <1>5

LEMMA DistinctConcat ==
  ASSUME NEW s \in Seq(Nodes), NEW t \in Seq(Nodes),
         Distinct(s), Distinct(t), Elems(s) \cap Elems(t) = {}
  PROVE  Distinct(s \o t)
<1>1. /\ Len(s) \in Nat /\ Len(t) \in Nat
      /\ DOMAIN s = 1..Len(s) /\ DOMAIN t = 1..Len(t)
      /\ DOMAIN (s \o t) = 1..(Len(s) + Len(t))
      /\ \A i \in 1..(Len(s) + Len(t)) :
           (s \o t)[i] = IF i <= Len(s) THEN s[i] ELSE t[i - Len(s)]
  BY ConcatProperties, LenProperties
<1> SUFFICES ASSUME NEW i \in 1..(Len(s) + Len(t)), NEW j \in 1..(Len(s) + Len(t)),
                    (s \o t)[i] = (s \o t)[j]
             PROVE  i = j
  BY <1>1 DEF Distinct
<1>2. CASE i <= Len(s) /\ j <= Len(s)
  BY <1>1, <1>2 DEF Distinct
<1>3. CASE i > Len(s) /\ j > Len(s)
  BY <1>1, <1>3 DEF Distinct
<1>4. CASE i <= Len(s) /\ j > Len(s)
  <2>0. i \in DOMAIN s /\ j - Len(s) \in DOMAIN t
    BY <1>1, <1>4
  <2>1. s[i] \in Elems(s) /\ t[j - Len(s)] \in Elems(t)
    BY <2>0 DEF Elems
  <2>. QED
    BY <2>1, <1>1, <1>4
<1>5. CASE i > Len(s) /\ j <= Len(s)
  <2>0. j \in DOMAIN s /\ i - Len(s) \in DOMAIN t
    BY <1>1, <1>5
  <2>1. s[j] \in Elems(s) /\ t[i - Len(s)] \in Elems(t)
    BY <2>0 DEF Elems
  <2>. QED
    BY <2>1, <1>1, <1>5
<1>. QED
  BY <1>2, <1>3, <1>4, <1>5, <1>1

-----------------------------------------------------------------------------
(* The strengthened invariant IInv of TopoSort is inductive. *)

LEMMA InitIInv == Init => IInv
<1> SUFFICES ASSUME Init PROVE IInv
  OBVIOUS
<1>1. TypeOK
  BY EmptySeq DEF Init, TypeOK
<1>. QED
  BY <1>1 DEF Init, IInv, DepsEmittedFirst

(* The set-up pass starts the loop with exact counters and a ready queue. *)
LEMMA BuildIInv == IInv /\ Build => IInv'
<1> SUFFICES ASSUME IInv, Build PROVE IInv'
  OBVIOUS
<1> DEFINE Zero == {n \in Nodes : Cardinality(deps[n]) = 0}
<1>1. /\ TypeOK
      /\ ordered = <<>>
  BY DEF IInv, Build
<1>2. PICK s \in SortedSeqs(Zero) : queue' = s
  BY DEF Build
<1>3. /\ s \in Seq(Nodes)
      /\ Elems(s) \subseteq Zero
      /\ Distinct(s)
  BY SortedSeqsFacts
<1>4. \A n \in Nodes : deps[n] \in SUBSET Nodes
  BY <1>1 DEF TypeOK, DepGraphs
<1>5. TypeOK'
  BY <1>1, <1>2, <1>3, <1>4, SubsetOfNodesFinite DEF TypeOK, Build
<1>6. Ordered' = {}
  BY <1>1 DEF Build, Ordered, Elems
<1>7. CountersExact'
  BY <1>6 DEF Build, CountersExact
<1>8. QueueReady'
  <2> SUFFICES ASSUME NEW n \in Elems(s) PROVE deps[n] = {}
    BY <1>2, <1>6 DEF QueueReady, Build
  <2>1. n \in Nodes /\ Cardinality(deps[n]) = 0
    BY <1>3
  <2>. QED
    BY <2>1, <1>4, SubsetOfNodesFinite, FS_EmptySet
<1>9. DepsEmittedFirst'
  BY <1>1, EmptySeq DEF Build, DepsEmittedFirst
<1>. QED
  BY <1>2, <1>3, <1>5, <1>6, <1>7, <1>8, <1>9 DEF Build, IInv, LoopInv

(* One iteration of the loop: the popped node is ready, and the nodes it   *)
(* frees are ready, new to the queue and not yet ordered.                  *)
LEMMA PopIInv == IInv /\ Pop => IInv'
<1> SUFFICES ASSUME IInv, Pop PROVE IInv'
  OBVIOUS
<1> DEFINE h == Head(queue)
           E == Ordered
           R == {m \in reverse[h] : indegree[m] = 1}
<1>1. /\ TypeOK
      /\ pc = "loop" /\ queue # <<>>
      /\ LoopInv
      /\ DepsEmittedFirst
  BY DEF IInv, Pop
<1>2. /\ h \in Elems(queue)
      /\ Elems(Tail(queue)) = Elems(queue) \ {h}
      /\ Distinct(Tail(queue))
      /\ Tail(queue) \in Seq(Nodes)
  BY <1>1, ElemsTail, HeadTailProperties DEF TypeOK, LoopInv
<1>3. /\ h \in Nodes
      /\ h \notin E
      /\ deps[h] \subseteq E
  BY <1>1, <1>2 DEF TypeOK, LoopInv, QueueReady, Elems
<1>4. \A n \in Nodes : deps[n] \in SUBSET Nodes /\ n \notin deps[n]
  BY <1>1 DEF TypeOK, DepGraphs
<1>5. ASSUME NEW m \in reverse[h]
      PROVE  /\ m \in Nodes
             /\ h \in deps[m]
             /\ m # h
             /\ m \notin E
  <2>1. m \in Nodes /\ h \in deps[m]
    BY <1>1, <1>3 DEF LoopInv
  <2>2. m \notin E
    <3> SUFFICES ASSUME NEW i \in 1..Len(ordered), ordered[i] = m PROVE FALSE
      BY <1>1 DEF Ordered, Elems, TypeOK
    <3>1. \E j \in 1..(i - 1) : ordered[j] = h
      BY <1>1, <2>1 DEF DepsEmittedFirst
    <3>. QED
      BY <3>1, <1>3, <1>1 DEF Ordered, Elems, TypeOK
  <2>. QED
    BY <2>1, <2>2, <1>4
<1>6. ASSUME NEW m \in reverse[h]
      PROVE  /\ IsFiniteSet(deps[m] \ E)
             /\ indegree[m] = Cardinality(deps[m] \ E)
             /\ Cardinality(deps[m] \ E) \in Nat \ {0}
             /\ Cardinality(deps[m] \ (E \cup {h})) = Cardinality(deps[m] \ E) - 1
  <2>1. /\ m \in Nodes /\ h \in deps[m] /\ m \notin E
    BY <1>5
  <2>2. IsFiniteSet(deps[m] \ E) /\ Cardinality(deps[m] \ E) \in Nat
    BY <2>1, <1>4, SubsetOfNodesFinite
  <2>3. deps[m] \ E # {}
    BY <2>1, <1>3
  <2>4. Cardinality(deps[m] \ E) # 0
    BY <2>2, <2>3, FS_EmptySet
  <2>5. deps[m] \ (E \cup {h}) = (deps[m] \ E) \ {h}
    OBVIOUS
  <2>6. Cardinality((deps[m] \ E) \ {h}) = Cardinality(deps[m] \ E) - 1
    BY <2>1, <2>2, <1>3, FS_RemoveElement
  <2>7. indegree[m] = Cardinality(deps[m] \ E)
    BY <2>1, <1>1 DEF LoopInv, CountersExact
  <2>. QED
    BY <2>2, <2>4, <2>5, <2>6, <2>7
<1>7. PICK s \in SortedSeqs(R) : queue' = Tail(queue) \o s
  BY DEF Pop
<1>8. /\ s \in Seq(Nodes)
      /\ Elems(s) \subseteq R
      /\ Distinct(s)
  <2>1. R \subseteq Nodes
    BY <1>5
  <2>. QED
    BY <2>1, SortedSeqsFacts
<1>9. Elems(Tail(queue)) \cap Elems(s) = {}
  <2> SUFFICES ASSUME NEW m \in Elems(s), m \in Elems(queue) PROVE FALSE
    BY <1>2
  <2>1. h \in deps[m]
    BY <1>5, <1>8
  <2>2. deps[m] \subseteq E
    BY <1>1 DEF LoopInv, QueueReady
  <2>. QED
    BY <2>1, <2>2, <1>3
<1>10. /\ ordered' = Append(ordered, h)
       /\ Elems(ordered') = E \cup {h}
       /\ Ordered' = E \cup {h}
  BY <1>1, <1>3, ElemsAppend DEF Pop, TypeOK, Ordered
<1>11. /\ queue' \in Seq(Nodes)
       /\ Elems(queue') = (Elems(queue) \ {h}) \cup Elems(s)
  BY <1>2, <1>7, <1>8, ElemsConcat, ConcatProperties
<1>12. indegree' = [m \in Nodes |-> IF m \in reverse[h] THEN indegree[m] - 1
                                                        ELSE indegree[m]]
  BY DEF Pop
<1>13. TypeOK'
  <2>1. indegree' \in [Nodes -> Nat]
    <3> SUFFICES ASSUME NEW m \in Nodes PROVE indegree'[m] \in Nat
      BY <1>12
    <3>1. CASE m \in reverse[h]
      <4>1. indegree[m] \in Nat \ {0}
        BY <3>1, <1>6
      <4>. QED
        BY <4>1, <3>1, <1>12
    <3>2. CASE m \notin reverse[h]
      BY <3>2, <1>12, <1>1 DEF TypeOK
    <3>. QED
      BY <3>1, <3>2
  <2>2. ordered' \in Seq(Nodes)
    BY <1>10, <1>3, <1>1, AppendProperties DEF TypeOK
  <2>. QED
    BY <2>1, <2>2, <1>11, <1>1 DEF TypeOK, Pop
<1>14. CountersExact'
  <2> SUFFICES ASSUME NEW n \in Nodes \ (E \cup {h})
               PROVE  indegree'[n] = Cardinality(deps[n] \ (E \cup {h}))
    BY <1>10 DEF CountersExact, Pop
  <2>1. CASE n \in reverse[h]
    BY <2>1, <1>6, <1>12
  <2>2. CASE n \notin reverse[h]
    <3>1. h \notin deps[n]
      BY <2>2, <1>1, <1>3 DEF LoopInv
    <3>2. deps[n] \ (E \cup {h}) = deps[n] \ E
      BY <3>1
    <3>3. indegree[n] = Cardinality(deps[n] \ E)
      BY <1>1 DEF LoopInv, CountersExact
    <3>. QED
      BY <2>2, <3>2, <3>3, <1>12
  <2>. QED
    BY <2>1, <2>2
<1>15. QueueReady'
  <2> SUFFICES ASSUME NEW n \in Elems(queue')
               PROVE  deps[n] \subseteq E \cup {h}
    BY <1>10 DEF QueueReady, Pop
  <2>1. CASE n \in Elems(queue) \ {h}
    BY <2>1, <1>1 DEF LoopInv, QueueReady
  <2>2. CASE n \in Elems(s)
    <3>1. n \in reverse[h] /\ indegree[n] = 1
      BY <2>2, <1>8
    <3>2. Cardinality(deps[n] \ E) = 1 /\ IsFiniteSet(deps[n] \ E)
      BY <3>1, <1>6
    <3>3. PICK x : deps[n] \ E = {x}
      BY <3>2, FS_Singleton
    <3>4. h \in deps[n] \ E
      BY <3>1, <1>5, <1>3
    <3>. QED
      BY <3>3, <3>4
  <2>. QED
    BY <2>1, <2>2, <1>11
<1>16. Elems(queue') \cap Ordered' = {}
  <2>1. (Elems(queue) \ {h}) \cap (E \cup {h}) = {}
    BY <1>1 DEF LoopInv
  <2>2. Elems(s) \cap (E \cup {h}) = {}
    BY <1>5, <1>8
  <2>. QED
    BY <2>1, <2>2, <1>10, <1>11
<1>17. Distinct(queue')
  BY <1>2, <1>7, <1>8, <1>9, DistinctConcat
<1>18. DepsEmittedFirst'
  <2> SUFFICES ASSUME NEW i \in 1..Len(ordered'), NEW d \in deps[ordered'[i]]
               PROVE  \E j \in 1..(i - 1) : ordered'[j] = d
    BY DEF DepsEmittedFirst, Pop
  <2>1. /\ Len(ordered) \in Nat
        /\ Len(ordered') = Len(ordered) + 1
        /\ \A k \in 1..Len(ordered) : ordered'[k] = ordered[k]
        /\ ordered'[Len(ordered) + 1] = h
    BY <1>10, <1>3, <1>1, AppendProperties, LenProperties DEF TypeOK
  <2>2. CASE i \in 1..Len(ordered)
    <3>1. PICK j \in 1..(i - 1) : ordered[j] = d
      BY <2>1, <2>2, <1>1 DEF DepsEmittedFirst
    <3>. QED
      BY <3>1, <2>1, <2>2
  <2>3. CASE i = Len(ordered) + 1
    <3>1. d \in E
      BY <2>1, <2>3, <1>3
    <3>2. PICK j \in 1..Len(ordered) : ordered[j] = d
      BY <3>1, <1>1 DEF Ordered, Elems, TypeOK
    <3>. QED
      BY <3>2, <2>1, <2>3
  <2>. QED
    BY <2>1, <2>2, <2>3
<1>. QED
  BY <1>13, <1>14, <1>15, <1>16, <1>17, <1>18, <1>1
  DEF IInv, LoopInv, Pop

(* Returning, with or without the fallback, keeps only the type. *)
LEMMA ReturnIInv == IInv /\ (Finish \/ Fallback) => IInv'
<1> SUFFICES ASSUME IInv, Finish \/ Fallback PROVE IInv'
  OBVIOUS
<1>1. TypeOK
  BY DEF IInv
<1>2. pc' = "done"
  BY DEF Finish, Fallback
<1>3. ordered' \in Seq(Nodes)
  <2>1. CASE Finish
    BY <2>1, <1>1 DEF Finish, TypeOK
  <2>2. CASE Fallback
    <3>1. PICK s \in SortedSeqs(Nodes \ Elems(ordered)) : ordered' = ordered \o s
      BY <2>2 DEF Fallback
    <3>2. s \in Seq(Nodes)
      BY SortedSeqsFacts
    <3>. QED
      BY <3>1, <3>2, <1>1, ConcatProperties DEF TypeOK
  <2>. QED
    BY <2>1, <2>2
<1>4. TypeOK'
  BY <1>1, <1>2, <1>3 DEF TypeOK, Finish, Fallback
<1>. QED
  BY <1>2, <1>4 DEF IInv, DepsEmittedFirst

LEMMA StutterIInv == IInv /\ (Terminated \/ UNCHANGED vars) => IInv'
<1> SUFFICES ASSUME IInv, UNCHANGED vars PROVE IInv'
  BY DEF Terminated
<1>1. /\ deps' = deps /\ pc' = pc /\ reverse' = reverse
      /\ indegree' = indegree /\ queue' = queue /\ ordered' = ordered
  BY DEF vars
<1>2. TypeOK'
  BY <1>1 DEF IInv, TypeOK
<1>3. (pc = "loop" => LoopInv)'
  BY <1>1 DEF IInv, LoopInv, CountersExact, QueueReady, Ordered, Elems, Distinct
<1>4. DepsEmittedFirst'
  BY <1>1 DEF IInv, DepsEmittedFirst
<1>. QED
  BY <1>1, <1>2, <1>3, <1>4 DEF IInv

THEOREM IInvHolds == Spec => []IInv
<1>1. Init => IInv
  BY InitIInv
<1>2. IInv /\ [Next]_vars => IInv'
  BY BuildIInv, PopIInv, ReturnIInv, StutterIInv DEF Next
<1>. QED
  BY <1>1, <1>2, PTL DEF Spec

-----------------------------------------------------------------------------
(* topological_order never drives an in-degree counter below zero and     *)
(* keeps every variable in its type, whatever the dependency map.          *)
THEOREM TypeCorrect == Spec => []TypeOK
BY IInvHolds, PTL DEF IInv

(* Until it returns, topological_order orders every node after all the    *)
(* nodes it depends on, on every graph and for every N.                    *)
THEOREM DepsFirst == Spec => []DepsEmittedFirst
BY IInvHolds, PTL DEF IInv

-----------------------------------------------------------------------------
(***************************************************************************)
(* The result is a permutation of the nodes.  IInv says nothing of the    *)
(* nodes already ordered being distinct, so PermInv adds it: the deque is  *)
(* disjoint from the result (a LoopInv conjunct), so a pop never repeats a *)
(* node, and the fallback adds only nodes not yet ordered.                *)
(***************************************************************************)
PermInv == Distinct(ordered) /\ OutputIsPermutation

(* A duplicate-free list has as many elements as it has places. *)
LEMMA DistinctCard ==
  ASSUME NEW s \in Seq(Nodes), Distinct(s)
  PROVE  IsFiniteSet(Elems(s)) /\ Cardinality(Elems(s)) = Len(s)
<1>1. Len(s) \in Nat /\ DOMAIN s = 1..Len(s)
  BY LenProperties
<1>2. IsFiniteSet(1..Len(s)) /\ Cardinality(1..Len(s)) = Len(s)
  BY <1>1, IntervalCard
<1>3. s \in Surjection(1..Len(s), Elems(s)) /\ s \in Injection(1..Len(s), Elems(s))
  BY <1>1 DEF Surjection, Injection, IsInjective, Distinct, Elems
<1>. QED
  BY <1>2, <1>3, FS_Surjection

(* sorted() of a set of nodes lists each of them exactly once. *)
LEMMA SortedSeqsElems ==
  ASSUME NEW S \in SUBSET Nodes, NEW s \in SortedSeqs(S)
  PROVE  Elems(s) = S
<1>1. IsFiniteSet(S) /\ Cardinality(S) \in Nat
  BY SubsetOfNodesFinite
<1>2. s \in Seq(Nodes) /\ Distinct(s) /\ Elems(s) \subseteq S
  BY SortedSeqsFacts
<1>3. Len(s) = Cardinality(S)
  <2>1. DOMAIN s = 1..Cardinality(S)
    BY DEF SortedSeqs
  <2>. QED
    BY <1>1, <1>2, <2>1, LenProperties
<1>4. Cardinality(Elems(s)) = Cardinality(S)
  BY <1>2, <1>3, DistinctCard
<1>. QED
  BY <1>1, <1>2, <1>4, FS_Subset

LEMMA InitPermInv == Init => PermInv
BY DEF Init, PermInv, OutputIsPermutation, Distinct

LEMMA PermInvStep == IInv /\ PermInv /\ [Next]_vars => PermInv'
<1> SUFFICES ASSUME IInv, PermInv, [Next]_vars PROVE PermInv'
  OBVIOUS
<1>0. ordered \in Seq(Nodes) /\ Elems(ordered) \subseteq Nodes
  BY DEF IInv, TypeOK, Elems
<1>1. CASE Build
  BY <1>1 DEF Build, PermInv, OutputIsPermutation
<1>2. CASE Pop
  <2>1. queue \in Seq(Nodes) /\ queue # <<>> /\ Distinct(queue) /\ LoopInv
    BY <1>2 DEF Pop, IInv, TypeOK, LoopInv
  <2>2. Head(queue) \in Elems(queue)
    BY <2>1, ElemsTail
  <2>3. Head(queue) \in Nodes /\ Head(queue) \notin Elems(ordered)
    BY <2>1, <2>2 DEF LoopInv, Ordered, Elems
  <2>4. ordered' = ordered \o <<Head(queue)>>
    BY <1>0, <1>2 DEF Pop
  <2>5. <<Head(queue)>> \in Seq(Nodes) /\ Distinct(<<Head(queue)>>)
        /\ Elems(<<Head(queue)>>) = {Head(queue)}
    BY <2>3 DEF Distinct, Elems
  <2>6. Distinct(ordered')
    BY <1>0, <2>3, <2>4, <2>5, DistinctConcat DEF PermInv
  <2>. QED
    BY <1>2, <2>6 DEF Pop, PermInv, OutputIsPermutation
<1>3. CASE Finish
  <2>1. Cardinality(Elems(ordered)) = N /\ IsFiniteSet(Nodes) /\ Cardinality(Nodes) = N
    BY <1>0, <1>3, DistinctCard, NAssumption, IntervalCard DEF Finish, PermInv, Nodes
  <2>2. Elems(ordered) = Nodes
    BY <1>0, <2>1, FS_Subset
  <2>. QED
    BY <1>3, <2>2 DEF Finish, PermInv, OutputIsPermutation
<1>4. CASE Fallback
  <2>1. PICK s \in SortedSeqs(Nodes \ Elems(ordered)) : ordered' = ordered \o s
    BY <1>4 DEF Fallback
  <2>2. s \in Seq(Nodes) /\ Distinct(s) /\ Elems(s) = Nodes \ Elems(ordered)
    BY SortedSeqsFacts, SortedSeqsElems
  <2>3. ordered' \in Seq(Nodes) /\ Distinct(ordered')
    BY <1>0, <2>1, <2>2, DistinctConcat DEF PermInv
  <2>4. Elems(ordered') = Nodes
    BY <1>0, <2>1, <2>2, ElemsConcat
  <2>5. Len(ordered') = N
    <3>1. Cardinality(Elems(ordered')) = Len(ordered')
      BY <2>3, DistinctCard
    <3>2. Cardinality(Nodes) = N
      BY NAssumption, IntervalCard DEF Nodes
    <3>. QED
      BY <2>4, <3>1, <3>2
  <2>. QED
    BY <1>4, <2>3, <2>4, <2>5 DEF Fallback, PermInv, OutputIsPermutation
<1>5. CASE Terminated \/ UNCHANGED vars
  BY <1>5 DEF Terminated, vars, PermInv, OutputIsPermutation
<1>. QED
  BY <1>1, <1>2, <1>3, <1>4, <1>5 DEF Next

(* When topological_order returns, on every graph (cyclic ones included,  *)
(* through the fallback of lines 395-399) and for every N, its result     *)
(* lists every node exactly once: OutputIsPermutation of the run topo.    *)
THEOREM Permutation == Spec => []OutputIsPermutation
<1>1. Init => IInv /\ PermInv
  BY InitIInv, InitPermInv
<1>2. IInv /\ PermInv /\ [Next]_vars => (IInv /\ PermInv)'
  BY BuildIInv, PopIInv, ReturnIInv, StutterIInv, PermInvStep DEF Next
<1>. QED
  BY <1>1, <1>2, PTL DEF Spec, PermInv

-----------------------------------------------------------------------------
(***************************************************************************)
(* The fallback fires only when the loop is stuck.  The deque empties     *)
(* before the end only if no node left is ready, which needs the converse *)
(* of QueueReady: every node left whose dependencies are all ordered is   *)
(* in the deque.  A pop orders its head h; a node that becomes ready by   *)
(* it had h as its one dependency left, so its counter was 1 and the pop  *)
(* queued it (lines 391-393).                                              *)
(***************************************************************************)
QueueComplete ==
  \A n \in Nodes \ Ordered : deps[n] \subseteq Ordered => n \in Elems(queue)

CInv == pc = "loop" => QueueComplete

LEMMA InitCInv == Init => CInv
BY DEF Init, CInv

LEMMA BuildCInv == IInv /\ Build => CInv'
<1> SUFFICES ASSUME IInv, Build PROVE QueueComplete'
  BY DEF CInv
<1> DEFINE Zero == {n \in Nodes : Cardinality(deps[n]) = 0}
<1>1. PICK s \in SortedSeqs(Zero) : queue' = s
  BY DEF Build
<1>2. Elems(queue') = Zero
  BY <1>1, SortedSeqsElems
<1>3. Ordered' = {}
  BY DEF IInv, Build, Ordered, Elems
<1>4. SUFFICES ASSUME NEW n \in Nodes, deps'[n] \subseteq {} PROVE n \in Zero
  BY <1>2, <1>3 DEF QueueComplete
<1>5. deps[n] = {}
  BY <1>4 DEF Build
<1>. QED
  BY <1>5, FS_EmptySet

LEMMA PopCInv == IInv /\ CInv /\ Pop => CInv'
<1> SUFFICES ASSUME IInv, CInv, Pop PROVE QueueComplete'
  BY DEF CInv, Pop
<1> DEFINE h == Head(queue)
           E == Ordered
           R == {m \in reverse[h] : indegree[m] = 1}
<1>1. /\ TypeOK
      /\ pc = "loop" /\ queue # <<>>
      /\ LoopInv
      /\ QueueComplete
      /\ DepsEmittedFirst
  BY DEF IInv, CInv, Pop
<1>2. /\ Elems(Tail(queue)) = Elems(queue) \ {h}
      /\ Tail(queue) \in Seq(Nodes)
      /\ h \in Elems(queue)
  BY <1>1, ElemsTail, HeadTailProperties DEF TypeOK, LoopInv
<1>3. /\ h \in Nodes
      /\ h \notin E
  BY <1>1, <1>2 DEF TypeOK, LoopInv, Elems
<1>4. Ordered' = E \cup {h}
  BY <1>1, <1>3, ElemsAppend DEF Pop, TypeOK, Ordered
<1>5. PICK s \in SortedSeqs(R) : queue' = Tail(queue) \o s
  BY DEF Pop
<1>6. R \subseteq Nodes
  BY <1>1, <1>3 DEF LoopInv
<1>7. /\ s \in Seq(Nodes)
      /\ Elems(s) = R
  BY <1>6, SortedSeqsFacts, SortedSeqsElems
<1>8. Elems(queue') = (Elems(queue) \ {h}) \cup R
  <2>1. Elems(Tail(queue) \o s) = Elems(Tail(queue)) \cup Elems(s)
    BY <1>2, <1>7, ElemsConcat
  <2>. QED
    BY <2>1, <1>2, <1>5, <1>7
<1>9. SUFFICES ASSUME NEW n \in Nodes \ (E \cup {h}), deps[n] \subseteq E \cup {h}
               PROVE  n \in (Elems(queue) \ {h}) \cup R
  BY <1>4, <1>8 DEF QueueComplete, Pop
<1>10. CASE n \in Elems(queue)
  BY <1>10
<1>11. CASE n \notin Elems(queue)
  <2>1. ~(deps[n] \subseteq E)
    BY <1>11, <1>1 DEF QueueComplete
  <2>2. h \in deps[n] /\ deps[n] \ E = {h}
    BY <2>1, <1>9
  <2>3. n \in reverse[h]
    BY <2>2, <1>1, <1>3 DEF LoopInv
  <2>4. indegree[n] = Cardinality(deps[n] \ E)
    BY <1>1 DEF LoopInv, CountersExact
  <2>5. indegree[n] = 1
    BY <2>2, <2>4, FS_Singleton
  <2>. QED
    BY <2>3, <2>5
<1>. QED
  BY <1>10, <1>11

LEMMA CInvStep == IInv /\ CInv /\ [Next]_vars => CInv'
<1> SUFFICES ASSUME IInv, CInv, [Next]_vars PROVE CInv'
  OBVIOUS
<1>1. CASE Build
  BY <1>1, BuildCInv
<1>2. CASE Pop
  BY <1>2, PopCInv
<1>3. CASE Finish \/ Fallback
  BY <1>3 DEF Finish, Fallback, CInv
<1>4. CASE Terminated \/ UNCHANGED vars
  BY <1>4 DEF Terminated, vars, CInv, QueueComplete, Ordered, Elems
<1>. QED
  BY <1>1, <1>2, <1>3, <1>4 DEF Next

(* The body of FallbackOnlyWhenStuck holds on every step. *)
Stuck ==
  pc = "loop" /\ pc' = "done" /\ Len(ordered) # N =>
    \A n \in Nodes \ Elems(ordered) : deps[n] \cap (Nodes \ Elems(ordered)) # {}

LEMMA StuckStep == IInv /\ CInv /\ [Next]_vars => Stuck
<1> SUFFICES ASSUME IInv, CInv, [Next]_vars,
                    pc = "loop", pc' = "done", Len(ordered) # N
             PROVE  \A n \in Nodes \ Elems(ordered) :
                      deps[n] \cap (Nodes \ Elems(ordered)) # {}
  BY DEF Stuck
<1>1. Fallback
  BY DEF Next, Build, Pop, Finish, Terminated, vars
<1>2. queue = <<>> /\ QueueComplete
  BY <1>1 DEF Fallback, CInv
<1>3. Elems(queue) = {}
  BY <1>2 DEF Elems
<1> SUFFICES ASSUME NEW n \in Nodes \ Elems(ordered)
             PROVE  deps[n] \cap (Nodes \ Elems(ordered)) # {}
  OBVIOUS
<1>4. ~(deps[n] \subseteq Elems(ordered))
  BY <1>2, <1>3 DEF QueueComplete, Ordered
<1>5. deps[n] \subseteq Nodes
  BY DEF IInv, TypeOK, DepGraphs
<1>. QED
  BY <1>4, <1>5

(* topological_order reaches its fallback (lines 395-399) only when every *)
(* node left over still has a dependency left over, for every N and every *)
(* dependency map: the loop never loses a ready node that the fallback    *)
(* would then hide.  FallbackOnlyWhenStuck of the run topo_all.           *)
THEOREM FallbackStuck == Spec => FallbackOnlyWhenStuck
<1>1. Init => IInv /\ CInv
  BY InitIInv, InitCInv
<1>2. IInv /\ CInv /\ [Next]_vars => (IInv /\ CInv)'
  BY BuildIInv, PopIInv, ReturnIInv, StutterIInv, CInvStep DEF Next
<1>3. IInv /\ CInv /\ [Next]_vars => [Stuck]_vars
  BY StuckStep
<1>. QED
  BY <1>1, <1>2, <1>3, PTL DEF Spec, FallbackOnlyWhenStuck, Stuck

=============================================================================
