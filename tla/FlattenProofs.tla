---------------------------- MODULE FlattenProofs ----------------------------
(***************************************************************************)
(* Proofs about Flatten, for every number S of structures and every parent *)
(* map: the memoised recursion of collect_flattened_properties keeps its  *)
(* state well typed, and its call stack never holds more than S frames.   *)
(*                                                                         *)
(* The bound on the stack is not inductive by itself: what keeps it is    *)
(* the guard on `stack` (line 642), which pushes a structure only when it *)
(* has no frame yet.  FInv adds that the frames name pairwise distinct    *)
(* structures; S distinct structures fill at most S frames.                *)
(***************************************************************************)
EXTENDS Flatten, FiniteSetTheorems, SequenceTheorems, TLAPS

(* The interval 1..n is a finite set of n elements. *)
LEMMA IntervalCard ==
  ASSUME NEW n \in Nat
  PROVE  IsFiniteSet(1..n) /\ Cardinality(1..n) = n
<1>1. IsFiniteSet(1..n) /\ Cardinality(1..n) = IF 1 > n THEN 0 ELSE n - 1 + 1
  BY FS_Interval
<1>. QED
  BY <1>1

FrameT == [s : Structs, phase : {"call", "resume"}]

(* No structure has two frames on the call stack. *)
FramesDistinct(f) == \A i, j \in DOMAIN f : f[i].s = f[j].s => i = j

FInv == TypeOK /\ FramesDistinct(frames)

-----------------------------------------------------------------------------
(* A stack of distinct structures holds at most S frames. *)
LEMMA StackBound ==
  ASSUME NEW f \in Seq(FrameT), FramesDistinct(f)
  PROVE  Len(f) <= S
<1>. DEFINE g == [i \in 1..Len(f) |-> f[i].s]
<1>1. Len(f) \in Nat /\ DOMAIN f = 1..Len(f)
  BY LenProperties
<1>2. g \in Injection(1..Len(f), Structs)
  <2>1. \A i \in 1..Len(f) : f[i] \in FrameT
    BY <1>1
  <2>2. g \in [1..Len(f) -> Structs]
    BY <2>1 DEF FrameT
  <2>. QED
    BY <1>1, <2>2 DEF Injection, IsInjective, FramesDistinct
<1>3. IsFiniteSet(Structs) /\ Cardinality(Structs) = S
  BY SAssumption, IntervalCard DEF Structs
<1>4. Cardinality(1..Len(f)) = Len(f)
  BY <1>1, IntervalCard
<1>. QED
  BY <1>2, <1>3, <1>4, FS_Injection

(* The cache maps structures to lists of structures. *)
CacheOK == /\ DOMAIN cache \subseteq Structs
           /\ \A s \in DOMAIN cache : cache[s] \in Seq(Structs)

(* An entry of collect_flattened_properties (lines 635-643), from a       *)
(* caller stack fr with the same structures as the current one, leaves a *)
(* well-typed stack of distinct structures and a well-typed result.       *)
LEMMA EnterFacts ==
  ASSUME NEW s \in Structs, NEW fr \in Seq(FrameT), FramesDistinct(fr),
         {fr[i].s : i \in DOMAIN fr} = OnStack,
         CacheOK, ret \in Seq(Structs), Enter(s, fr)
  PROVE  /\ frames' \in Seq(FrameT)
         /\ FramesDistinct(frames')
         /\ ret' \in Seq(Structs)
<1>1. CASE s \in DOMAIN cache
  BY <1>1 DEF Enter, CacheOK
<1>2. CASE s \notin DOMAIN cache /\ s \in OnStack
  BY <1>2 DEF Enter
<1>3. CASE s \notin DOMAIN cache /\ s \notin OnStack
  <2>. DEFINE new == [s |-> s, phase |-> "call"]
  <2>1. frames' = Append(fr, new) /\ ret' = ret
    BY <1>3 DEF Enter
  <2>2. new \in FrameT
    BY DEF FrameT
  <2>3. /\ Append(fr, new) \in Seq(FrameT)
        /\ Len(Append(fr, new)) = Len(fr) + 1
        /\ \A i \in 1..Len(fr) : Append(fr, new)[i] = fr[i]
        /\ Append(fr, new)[Len(fr) + 1] = new
        /\ Len(fr) \in Nat /\ DOMAIN fr = 1..Len(fr)
    BY <2>2, AppendProperties, LenProperties
  <2>4. \A i \in 1..Len(fr) : fr[i].s # s
    BY <1>3, <2>3
  <2>5. FramesDistinct(Append(fr, new))
    BY <2>3, <2>4 DEF FramesDistinct
  <2>. QED
    BY <2>1, <2>3, <2>5
<1>. QED
  BY <1>1, <1>2, <1>3

-----------------------------------------------------------------------------
(* FInv is inductive. *)

LEMMA InitFInv == Init => FInv
BY SAssumption DEF Init, FInv, TypeOK, FramesDistinct, Structs

LEMMA VisitFInv == FInv /\ Visit => FInv'
<1> SUFFICES ASSUME FInv, Visit PROVE FInv'
  OBVIOUS
<1>1. PICK s \in todo : todo' = todo \ {s} /\ Enter(s, <<>>)
  BY DEF Visit
<1>2. s \in Structs /\ CacheOK /\ ret \in Seq(Structs)
  BY DEF FInv, TypeOK, CacheOK
<1>3. /\ <<>> \in Seq(FrameT)
      /\ {<<>>[i].s : i \in DOMAIN <<>>} = OnStack /\ FramesDistinct(<<>>)
  BY DEF Visit, OnStack, FramesDistinct
<1>4. frames' \in Seq(FrameT) /\ FramesDistinct(frames') /\ ret' \in Seq(Structs)
  BY <1>1, <1>2, <1>3, EnterFacts
<1>5. Len(frames') <= S
  BY <1>4, StackBound
<1>. QED
  BY <1>1, <1>4, <1>5 DEF Visit, FInv, TypeOK, FrameT

LEMMA CallParentFInv == FInv /\ CallParent => FInv'
<1> SUFFICES ASSUME FInv, CallParent PROVE FInv'
  OBVIOUS
<1>. DEFINE fr == [frames EXCEPT ![Len(frames)].phase = "resume"]
<1>1. frames \in Seq(FrameT) /\ frames # <<>> /\ FramesDistinct(frames)
      /\ CacheOK /\ ret \in Seq(Structs)
  BY DEF CallParent, FInv, TypeOK, FrameT, CacheOK
<1>2. Len(frames) \in Nat \ {0} /\ DOMAIN frames = 1..Len(frames)
  BY <1>1, LenProperties, EmptySeq
<1>3. /\ DOMAIN fr = DOMAIN frames
      /\ \A i \in DOMAIN fr : fr[i].s = frames[i].s
      /\ fr \in Seq(FrameT)
  <2>1. \A i \in DOMAIN frames : frames[i] \in FrameT
    BY <1>1, <1>2
  <2>2. DOMAIN fr = DOMAIN frames
    OBVIOUS
  <2>3. \A i \in DOMAIN fr : fr[i] \in FrameT /\ fr[i].s = frames[i].s
    BY <1>2, <2>1 DEF FrameT
  <2>4. [frames[Len(frames)] EXCEPT !.phase = "resume"] \in FrameT
    BY <1>2, <2>1 DEF FrameT
  <2>5. fr \in Seq(FrameT)
    <3>1. fr = [frames EXCEPT ![Len(frames)] =
                  [frames[Len(frames)] EXCEPT !.phase = "resume"]]
      OBVIOUS
    <3>. QED
      BY <1>1, <1>2, <2>4, <3>1, ExceptSeq
  <2>. QED
    BY <2>2, <2>3, <2>5
<1>4. FramesDistinct(fr) /\ {fr[i].s : i \in DOMAIN fr} = OnStack
  BY <1>1, <1>3 DEF FramesDistinct, OnStack
<1>5. Top.s \in Structs /\ parent[Top.s] \in 0..S
  <2>1. frames[Len(frames)] \in FrameT
    BY <1>1, <1>2
  <2>. QED
    BY <2>1 DEF FInv, TypeOK, Top, FrameT
<1>6. frames' \in Seq(FrameT) /\ FramesDistinct(frames') /\ ret' \in Seq(Structs)
  <2>1. CASE parent[Top.s] # 0
    <3>1. parent[Top.s] \in Structs
      BY <1>5, <2>1 DEF Structs
    <3>. QED
      BY <1>1, <1>3, <1>4, <2>1, <3>1, EnterFacts DEF CallParent
  <2>2. CASE parent[Top.s] = 0
    <3>1. frames' = fr /\ ret' = <<>>
      BY <2>2 DEF CallParent
    <3>. QED
      BY <1>3, <1>4, <3>1
  <2>. QED
    BY <2>1, <2>2
<1>7. Len(frames') <= S
  BY <1>6, StackBound
<1>. QED
  BY <1>6, <1>7 DEF CallParent, FInv, TypeOK, FrameT

LEMMA ReturnFInv == FInv /\ Return => FInv'
<1> SUFFICES ASSUME FInv, Return PROVE FInv'
  OBVIOUS
<1>1. frames \in Seq(FrameT) /\ frames # <<>> /\ FramesDistinct(frames)
      /\ CacheOK /\ ret \in Seq(Structs)
  BY DEF Return, FInv, TypeOK, FrameT, CacheOK
<1>2. Len(frames) \in Nat \ {0} /\ DOMAIN frames = 1..Len(frames)
  BY <1>1, LenProperties, EmptySeq
<1>3. Top.s \in Structs
  <2>1. frames[Len(frames)] \in FrameT
    BY <1>1, <1>2
  <2>. QED
    BY <2>1 DEF Top, FrameT
<1>4. ret \o <<Top.s>> \in Seq(Structs)
  BY <1>1, <1>3
<1>5. CacheOK'
  BY <1>1, <1>3, <1>4 DEF Return, CacheOK
<1>6. /\ frames' \in Seq(FrameT)
      /\ Len(frames') = Len(frames) - 1
      /\ \A i \in 1..(Len(frames) - 1) : frames'[i] = frames[i]
  BY <1>1, <1>2, SubSeqProperties DEF Return
<1>7. FramesDistinct(frames')
  BY <1>1, <1>2, <1>6, LenProperties DEF FramesDistinct
<1>8. Len(frames') <= S
  BY <1>6, <1>7, StackBound
<1>. QED
  BY <1>4, <1>5, <1>6, <1>7, <1>8 DEF Return, FInv, TypeOK, CacheOK, FrameT

LEMMA EndFInv == FInv /\ (Finish \/ Terminated \/ UNCHANGED vars) => FInv'
BY DEF Finish, Terminated, vars, FInv, TypeOK, FramesDistinct

-----------------------------------------------------------------------------
(* FInv holds in every state of every run of build_node_dependencies. *)
THEOREM FInvHolds == Spec => []FInv
<1>1. Init => FInv
  BY InitFInv
<1>2. FInv /\ [Next]_vars => FInv'
  BY VisitFInv, CallParentFInv, ReturnFInv, EndFInv DEF Next
<1>. QED
  BY <1>1, <1>2, PTL DEF Spec

(* For every number of structures and every parent map, cyclic ones      *)
(* included, the memoised recursion keeps its cache and results lists of *)
(* structures and never stacks more frames than there are structures: the *)
(* guard on `stack` (line 642) stops every cycle (TypeOK of the run       *)
(* flatten).                                                               *)
THEOREM TypeCorrect == Spec => []TypeOK
BY FInvHolds, PTL DEF FInv

-----------------------------------------------------------------------------
(***************************************************************************)
(* The memo is write-once.  Return stores the list of its top frame, so   *)
(* what must be shown is that no structure with a frame is cached yet:    *)
(* Enter pushes only uncached structures, and Return caches the top one  *)
(* while the frames left name other structures (FramesDistinct).          *)
(***************************************************************************)
StackUncached == \A i \in DOMAIN frames : frames[i].s \notin DOMAIN cache

(* An entry leaves the stack free of cached structures; it never caches. *)
LEMMA EnterUncachedFacts ==
  ASSUME NEW s, NEW fr \in Seq(FrameT),
         \A i \in DOMAIN fr : fr[i].s \notin DOMAIN cache,
         cache' = cache, Enter(s, fr)
  PROVE  \A i \in DOMAIN frames' : frames'[i].s \notin DOMAIN cache'
<1>1. CASE s \in DOMAIN cache \/ s \in OnStack
  BY <1>1 DEF Enter
<1>2. CASE s \notin DOMAIN cache /\ s \notin OnStack
  <2>. DEFINE new == [s |-> s, phase |-> "call"]
  <2>1. frames' = Append(fr, new)
    BY <1>2 DEF Enter
  <2>2. /\ Len(fr) \in Nat /\ DOMAIN fr = 1..Len(fr)
        /\ DOMAIN Append(fr, new) = 1..(Len(fr) + 1)
        /\ \A i \in 1..Len(fr) : Append(fr, new)[i] = fr[i]
        /\ Append(fr, new)[Len(fr) + 1] = new
    BY AppendProperties, LenProperties
  <2>. QED
    BY <1>2, <2>1, <2>2
<1>. QED
  BY <1>1, <1>2

LEMMA UncachedStep == FInv /\ StackUncached /\ [Next]_vars => StackUncached'
<1> SUFFICES ASSUME FInv, StackUncached, [Next]_vars PROVE StackUncached'
  OBVIOUS
<1>1. CASE Visit
  <2>1. PICK s \in todo : Enter(s, <<>>)
    BY <1>1 DEF Visit
  <2>2. <<>> \in Seq(FrameT) /\ cache' = cache
    BY <1>1 DEF Visit
  <2>3. \A i \in DOMAIN <<>> : <<>>[i].s \notin DOMAIN cache
    OBVIOUS
  <2>4. \A i \in DOMAIN frames' : frames'[i].s \notin DOMAIN cache'
    BY <2>1, <2>2, <2>3, EnterUncachedFacts
  <2>. QED
    BY <2>4 DEF StackUncached
<1>2. CASE CallParent
  <2>. DEFINE fr == [frames EXCEPT ![Len(frames)].phase = "resume"]
  <2>1. frames \in Seq(FrameT) /\ frames # <<>>
    BY <1>2 DEF CallParent, FInv, TypeOK, FrameT
  <2>2. Len(frames) \in Nat \ {0} /\ DOMAIN frames = 1..Len(frames)
    BY <2>1, LenProperties, EmptySeq
  <2>3. fr \in Seq(FrameT) /\ \A i \in DOMAIN fr : fr[i].s \notin DOMAIN cache
    <3>1. \A i \in DOMAIN frames : frames[i] \in FrameT
      BY <2>1, <2>2
    <3>2. [frames[Len(frames)] EXCEPT !.phase = "resume"] \in FrameT
      BY <2>2, <3>1 DEF FrameT
    <3>3. fr \in Seq(FrameT)
      <4>1. fr = [frames EXCEPT ![Len(frames)] =
                    [frames[Len(frames)] EXCEPT !.phase = "resume"]]
        OBVIOUS
      <4>. QED
        BY <2>1, <2>2, <3>2, <4>1, ExceptSeq
    <3>4. \A i \in DOMAIN fr : fr[i].s = frames[i].s
      BY <2>2, <3>1 DEF FrameT
    <3>. QED
      BY <3>3, <3>4 DEF StackUncached
  <2>4. cache' = cache
    BY <1>2 DEF CallParent
  <2>5. CASE parent[Top.s] # 0
    <3>1. Enter(parent[Top.s], fr)
      BY <1>2, <2>5 DEF CallParent
    <3>2. \A i \in DOMAIN frames' : frames'[i].s \notin DOMAIN cache'
      BY <2>3, <2>4, <3>1, EnterUncachedFacts
    <3>. QED
      BY <3>2 DEF StackUncached
  <2>6. CASE parent[Top.s] = 0
    <3>1. frames' = fr
      BY <1>2, <2>6 DEF CallParent
    <3>. QED
      BY <2>3, <2>4, <3>1 DEF StackUncached
  <2>. QED
    BY <2>5, <2>6
<1>3. CASE Return
  <2>1. frames \in Seq(FrameT) /\ frames # <<>> /\ FramesDistinct(frames)
    BY <1>3 DEF Return, FInv, TypeOK, FrameT
  <2>2. Len(frames) \in Nat \ {0} /\ DOMAIN frames = 1..Len(frames)
    BY <2>1, LenProperties, EmptySeq
  <2>3. /\ DOMAIN frames' = 1..(Len(frames) - 1)
        /\ \A i \in 1..(Len(frames) - 1) : frames'[i] = frames[i]
    BY <1>3, <2>1, <2>2, SubSeqProperties DEF Return
  <2>4. DOMAIN cache' = DOMAIN cache \cup {Top.s}
    BY <1>3 DEF Return
  <2>5. \A i \in 1..(Len(frames) - 1) : frames[i].s # Top.s
    BY <2>1, <2>2 DEF FramesDistinct, Top
  <2>. QED
    BY <2>2, <2>3, <2>4, <2>5 DEF StackUncached
<1>4. CASE Finish \/ Terminated \/ UNCHANGED vars
  BY <1>4 DEF Finish, Terminated, vars, StackUncached
<1>. QED
  BY <1>1, <1>2, <1>3, <1>4 DEF Next

(* The step of CacheEntriesFinal. *)
CacheKept == \A s \in DOMAIN cache : s \in DOMAIN cache' /\ cache'[s] = cache[s]

LEMMA CacheKeptStep == FInv /\ StackUncached /\ [Next]_vars => [CacheKept]_vars
<1> SUFFICES ASSUME FInv, StackUncached, [Next]_vars PROVE [CacheKept]_vars
  OBVIOUS
<1>1. CASE Return
  <2>1. frames \in Seq(FrameT) /\ frames # <<>>
    BY <1>1 DEF Return, FInv, TypeOK, FrameT
  <2>2. Len(frames) \in DOMAIN frames
    BY <2>1, LenProperties, EmptySeq
  <2>3. Top.s \notin DOMAIN cache
    BY <2>2 DEF StackUncached, Top
  <2>. QED
    BY <1>1, <2>3 DEF Return, CacheKept
<1>2. CASE ~Return
  <2>1. cache' = cache
    BY <1>2 DEF Next, Visit, CallParent, Finish, Terminated, vars
  <2>. QED
    BY <2>1 DEF CacheKept
<1>. QED
  BY <1>1, <1>2

(* For every number of structures and every parent map, a flattened list *)
(* collect_flattened_properties has stored in its memo (line 656) is      *)
(* never replaced or dropped, cycles of parents included: the action      *)
(* property CacheEntriesFinal of the run flatten.                          *)
THEOREM CacheFinal == Spec => CacheEntriesFinal
<1>1. Init => FInv /\ StackUncached
  BY InitFInv DEF Init, StackUncached
<1>2. FInv /\ StackUncached /\ [Next]_vars => (FInv /\ StackUncached)'
  BY VisitFInv, CallParentFInv, ReturnFInv, EndFInv, UncachedStep DEF Next
<1>3. FInv /\ StackUncached /\ [Next]_vars => [CacheKept]_vars
  BY CacheKeptStep
<1>. QED
  BY <1>1, <1>2, <1>3, PTL DEF Spec, CacheEntriesFinal, CacheKept

=============================================================================
