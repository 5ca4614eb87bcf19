-------------------------- MODULE TypeNamesProofs --------------------------
(***************************************************************************)
(* Proofs about build_name_map (TypeNames), for every number K of          *)
(* definitions and every outcome of sanitize_type_identifier: the names    *)
(* are pairwise distinct, a definition is renamed only when an earlier one *)
(* holds its sanitized name, and the suffix stays within 2..K+1.          *)
(*                                                                         *)
(* None of the three is inductive alone.  NameInv adds what the while loop *)
(* of lines 197-199 knows while it probes: the candidate is the base with *)
(* the last suffix tried, and the base and every earlier suffixed         *)
(* candidate are already in used (ProbeInv); used is exactly the names    *)
(* handed out (line 201 adds each and nothing else); and out holds one    *)
(* name per definition before cur.                                        *)
(***************************************************************************)
EXTENDS TypeNames, FiniteSetTheorems, SequenceTheorems, TLAPS

(* The interval 1..n is a finite set of n elements. *)
LEMMA IntervalCard ==
  ASSUME NEW n \in Nat
  PROVE  IsFiniteSet(1..n) /\ Cardinality(1..n) = n
<1>1. IsFiniteSet(1..n) /\ Cardinality(1..n) = IF 1 > n THEN 0 ELSE n - 1 + 1
  BY FS_Interval
<1>. QED
  BY <1>1

(* The sanitized name of the definition being named. *)
Base == sanitized[cur]

(* While probing: the candidate is the base, or the base with the last    *)
(* suffix tried, and every name tried before it is taken.                 *)
ProbeInv ==
  pc = "probe" =>
    /\ candidate = IF suffix = 2 THEN Base ELSE WithSuffix(Base, suffix - 1)
    /\ suffix > 2 => Base \in used
    /\ \A k \in 2..(suffix - 2) : WithSuffix(Base, k) \in used

NameInv ==
  /\ sanitized \in [Defs -> Idents(2)]
  /\ pc \in {"next", "probe", "done"}
  /\ cur = Len(out) + 1
  /\ cur \in 1..(K + 1)
  /\ pc = "probe" => cur \in Defs
  /\ suffix \in 2..(K + 1)
  /\ candidate \in Names(K + 1) \cup {<<>>}
  /\ out \in Seq(Names(K + 1))
  /\ used = Range(out)
  /\ ProbeInv
  /\ NameMapInjective
  /\ RenamedOnlyOnCollision

-----------------------------------------------------------------------------
(* An identifier with at most one number is a sequence of base words and  *)
(* numbers; appending a number to it gives a name of Names(K + 1).         *)
LEMMA IdentsFacts ==
  ASSUME NEW n \in Idents(2), NEW k \in 2..(K + 1)
  PROVE  /\ n \in Seq(Bases \cup Nat)
         /\ n \in Names(K + 1)
         /\ WithSuffix(n, k) \in Names(K + 1)
<1>1. n \in Seq(Bases \cup Nat)
  <2>1. CASE \E b \in Bases : n = <<b>>
    BY <2>1
  <2>2. CASE \E b \in Bases, j \in 2..2 : n = <<b, j>>
    BY <2>2
  <2>. QED
    BY <2>1, <2>2 DEF Idents
<1>. QED
  BY <1>1 DEF Names

(* f"{base}_{k}" differs from base and from f"{base}_{j}" for j # k. *)
LEMMA SuffixDistinct ==
  ASSUME NEW n \in Idents(2), NEW j \in Nat, NEW k \in Nat
  PROVE  /\ WithSuffix(n, j) # n
         /\ WithSuffix(n, j) = WithSuffix(n, k) => j = k
<1>1. n \in Seq(Bases \cup Nat)
  BY IdentsFacts, KAssumption
<1>. QED
  BY <1>1, AppendProperties DEF WithSuffix

(* A sequence has no more distinct elements than its length. *)
LEMMA RangeBound ==
  ASSUME NEW T, NEW s \in Seq(T)
  PROVE  /\ IsFiniteSet(Range(s))
         /\ Cardinality(Range(s)) <= Len(s)
<1>1. Len(s) \in Nat
  BY LenProperties
<1>2. IsFiniteSet(1..Len(s)) /\ Cardinality(1..Len(s)) = Len(s)
  BY <1>1, IntervalCard
<1>3. s \in Surjection(1..Len(s), Range(s))
  BY DEF Surjection, Range
<1>. QED
  BY <1>2, <1>3, FS_Surjection

(* Appending a name not yet in an injective sequence keeps it injective   *)
(* and adds exactly that name to its range.                                *)
LEMMA AppendFresh ==
  ASSUME NEW T, NEW s \in Seq(T), NEW c \in T, IsInjective(s), c \notin Range(s)
  PROVE  /\ IsInjective(Append(s, c))
         /\ Range(Append(s, c)) = Range(s) \cup {c}
<1>1. Range(Append(s, c)) = Range(s) \cup {c}
  BY AppendProperties DEF Range
<1>2. IsInjective(Append(s, c))
  BY AppendProperties DEF IsInjective, Range
<1>. QED
  BY <1>1, <1>2

(* The while loop of line 197 retries at most K - 1 times: when the       *)
(* candidate is taken, the base and the suffixes 2..suffix-1 are suffix-1 *)
(* distinct taken names, and only cur - 1 <= K - 1 names are taken.       *)
LEMMA RetryBound ==
  ASSUME NameInv, pc = "probe", candidate \in used
  PROVE  suffix <= K
<1>1. Base \in Idents(2) /\ cur \in Defs /\ suffix \in 2..(K + 1)
  BY DEF NameInv, Base, Defs
<1>. DEFINE f == [i \in 1..(suffix - 1) |-> IF i = 1 THEN Base ELSE WithSuffix(Base, i)]
<1>2. \A i \in 1..(suffix - 1) : f[i] \in used
  <2> SUFFICES ASSUME NEW i \in 1..(suffix - 1) PROVE f[i] \in used
    OBVIOUS
  <2>1. CASE i = 1
    BY <2>1, <1>1 DEF NameInv, ProbeInv
  <2>2. CASE i # 1 /\ i < suffix - 1
    BY <2>2, <1>1 DEF NameInv, ProbeInv
  <2>3. CASE i # 1 /\ i = suffix - 1
    BY <2>3, <1>1 DEF NameInv, ProbeInv
  <2>. QED
    BY <2>1, <2>2, <2>3, <1>1
<1>3. f \in Injection(1..(suffix - 1), used)
  <2>1. \A i, j \in 1..(suffix - 1) : f[i] = f[j] => i = j
    BY <1>1, SuffixDistinct
  <2>. QED
    BY <1>2, <2>1 DEF Injection, IsInjective
<1>4. IsFiniteSet(used) /\ Cardinality(used) <= Len(out)
  BY RangeBound DEF NameInv
<1>5. Cardinality(1..(suffix - 1)) <= Cardinality(used)
  BY <1>3, <1>4, FS_Injection
<1>6. Cardinality(1..(suffix - 1)) = suffix - 1
  BY <1>1, IntervalCard
<1>7. Cardinality(used) \in Nat /\ Len(out) = cur - 1
  BY <1>4, FS_CardinalityType DEF NameInv
<1>8. suffix - 1 <= cur - 1
  BY <1>1, <1>4, <1>5, <1>6, <1>7, KAssumption DEF Defs
<1>. QED
  BY <1>1, <1>8, KAssumption DEF Defs

-----------------------------------------------------------------------------
LEMMA InitNameInv == Init => NameInv
BY KAssumption DEF Init, NameInv, ProbeInv, NameMapInjective, IsInjective, Range,
   RenamedOnlyOnCollision, Names

LEMMA StartNameInv == NameInv /\ Start => NameInv'
<1> SUFFICES ASSUME NameInv, Start PROVE NameInv'
  OBVIOUS
<1>1. cur \in Defs
  BY DEF NameInv, Start, Defs
<1>2. candidate' = Base /\ Base \in Names(K + 1)
  BY <1>1, IdentsFacts, KAssumption DEF NameInv, Start, Base
<1>3. ProbeInv'
  BY <1>2 DEF Start, ProbeInv, Base
<1>. QED
  BY <1>1, <1>2, <1>3, KAssumption DEF NameInv, Start, NameMapInjective,
     RenamedOnlyOnCollision

LEMMA RetryNameInv == NameInv /\ Retry => NameInv'
<1> SUFFICES ASSUME NameInv, Retry PROVE NameInv'
  OBVIOUS
<1>0. /\ sanitized \in [Defs -> Idents(2)]
      /\ cur \in Defs
      /\ suffix \in 2..(K + 1)
      /\ pc = "probe"
      /\ candidate \in used
  BY DEF NameInv, Retry
<1>1. suffix <= K
  BY RetryBound DEF Retry
<1>2. /\ UNCHANGED <<sanitized, pc, cur, out, used>>
      /\ candidate' = WithSuffix(Base, suffix)
      /\ suffix' = suffix + 1
      /\ Base' = Base
  BY DEF Retry, Base
<1>3. Base \in Idents(2)
  BY <1>0 DEF Base
<1>4. candidate' \in Names(K + 1) /\ suffix' \in 2..(K + 1)
  BY <1>0, <1>1, <1>2, <1>3, IdentsFacts, KAssumption
<1>5. ProbeInv'
  <2>1. Base \in used
    BY <1>0 DEF NameInv, ProbeInv
  <2>2. \A k \in 2..(suffix - 1) : WithSuffix(Base, k) \in used
    BY <1>0, KAssumption DEF NameInv, ProbeInv
  <2>3. suffix' # 2 /\ suffix' - 1 = suffix /\ suffix' - 2 = suffix - 1
    BY <1>0, <1>2, KAssumption
  <2>. QED
    BY <1>2, <2>1, <2>2, <2>3 DEF ProbeInv
<1>6. NameMapInjective' /\ RenamedOnlyOnCollision'
  BY <1>2 DEF NameInv, NameMapInjective, RenamedOnlyOnCollision
<1>. QED
  BY <1>2, <1>4, <1>5, <1>6 DEF NameInv

LEMMA AssignNameInv == NameInv /\ Assign => NameInv'
<1> SUFFICES ASSUME NameInv, Assign PROVE NameInv'
  OBVIOUS
<1>0. /\ sanitized \in [Defs -> Idents(2)]
      /\ cur \in Defs
      /\ cur = Len(out) + 1
      /\ suffix \in 2..(K + 1)
      /\ out \in Seq(Names(K + 1))
      /\ used = Range(out)
      /\ IsInjective(out)
      /\ candidate \notin used
      /\ candidate = IF suffix = 2 THEN Base ELSE WithSuffix(Base, suffix - 1)
      /\ suffix > 2 => Base \in used
      /\ RenamedOnlyOnCollision
  BY DEF NameInv, Assign, ProbeInv, NameMapInjective
<1>1. Base \in Idents(2) /\ Base = sanitized[cur]
  BY <1>0 DEF Base
<1>2. candidate \in Names(K + 1)
  <2>1. CASE suffix = 2
    BY <1>0, <1>1, <2>1, IdentsFacts, KAssumption
  <2>2. CASE suffix # 2
    <3>1. candidate = WithSuffix(Base, suffix - 1) /\ suffix - 1 \in 2..(K + 1)
      BY <1>0, <2>2, KAssumption
    <3>. QED
      BY <1>1, <3>1, IdentsFacts
  <2>. QED
    BY <2>1, <2>2
<1>3. /\ IsInjective(out')
      /\ Range(out') = Range(out) \cup {candidate}
  BY <1>0, <1>2, AppendFresh DEF Assign
<1>4. /\ out' \in Seq(Names(K + 1))
      /\ Len(out') = cur
      /\ \A i \in 1..(cur - 1) : out'[i] = out[i]
      /\ out'[cur] = candidate
  BY <1>0, <1>2, AppendProperties DEF Assign
<1>5. RenamedOnlyOnCollision'
  <2> SUFFICES ASSUME NEW a \in DOMAIN out'
               PROVE  \/ out'[a] = sanitized'[a]
                      \/ /\ \E b \in 1..(a - 1) : out'[b] = sanitized'[a]
                         /\ \E k \in 2..(K + 1) : out'[a] = WithSuffix(sanitized'[a], k)
    BY DEF RenamedOnlyOnCollision
  <2>1. a \in 1..cur /\ sanitized' = sanitized
    BY <1>4 DEF Assign
  <2>2. CASE a < cur
    <3>1. a \in DOMAIN out /\ out'[a] = out[a]
          /\ \A b \in 1..(a - 1) : out'[b] = out[b]
      BY <1>0, <1>4, <2>1, <2>2
    <3>. QED
      BY <1>0, <2>1, <3>1 DEF RenamedOnlyOnCollision
  <2>3. CASE a = cur /\ suffix = 2
    BY <1>0, <1>1, <1>4, <2>1, <2>3
  <2>4. CASE a = cur /\ suffix # 2
    <3>1. PICK b \in 1..(cur - 1) : out[b] = Base
      BY <1>0, <2>4, KAssumption DEF Range
    <3>2. out'[a] = WithSuffix(sanitized[a], suffix - 1) /\ suffix - 1 \in 2..(K + 1)
      BY <1>0, <1>1, <1>4, <2>4, KAssumption
    <3>3. out'[b] = sanitized'[a]
      BY <1>1, <1>4, <2>1, <2>4, <3>1
    <3>. QED
      BY <2>1, <2>4, <3>1, <3>2, <3>3
  <2>. QED
    BY <1>0, <2>1, <2>2, <2>3, <2>4 DEF Defs
<1>6. /\ cur' = Len(out') + 1
      /\ cur' \in 1..(K + 1)
      /\ pc' = "next"
      /\ used' = Range(out')
      /\ UNCHANGED <<sanitized, candidate, suffix>>
  <2>1. cur' = cur + 1 /\ pc' = "next" /\ UNCHANGED <<sanitized, candidate, suffix>>
    BY DEF Assign
  <2>2. used' = Range(out')
    BY <1>0, <1>3 DEF Assign
  <2>3. cur' = Len(out') + 1 /\ cur' \in 1..(K + 1)
    BY <1>0, <1>4, <2>1, KAssumption DEF Defs
  <2>. QED
    BY <2>1, <2>2, <2>3
<1>7. ProbeInv' /\ NameMapInjective'
  BY <1>3, <1>6 DEF ProbeInv, NameMapInjective
<1>8. sanitized' \in [Defs -> Idents(2)] /\ suffix' \in 2..(K + 1)
      /\ candidate' \in Names(K + 1)
  BY <1>0, <1>2, <1>6
<1>. QED
  BY <1>4, <1>5, <1>6, <1>7, <1>8 DEF NameInv

LEMMA ReturnNameInv == NameInv /\ Return => NameInv'
BY DEF NameInv, Return, ProbeInv, Base, NameMapInjective, RenamedOnlyOnCollision

LEMMA StutterNameInv == NameInv /\ (Terminated \/ UNCHANGED vars) => NameInv'
BY DEF NameInv, Terminated, vars, ProbeInv, Base, NameMapInjective,
   RenamedOnlyOnCollision

-----------------------------------------------------------------------------
(* The invariant holds in every state build_name_map reaches. *)
THEOREM NameInvHolds == Spec => []NameInv
<1>1. Init => NameInv
  BY InitNameInv
<1>2. NameInv /\ [Next]_vars => NameInv'
  BY StartNameInv, RetryNameInv, AssignNameInv, ReturnNameInv, StutterNameInv
  DEF Next
<1>. QED
  BY <1>1, <1>2, PTL DEF Spec

(* The run type_names checks NameMapInjective on four definitions; this   *)
(* is the same property of build_name_map for every number of them: no   *)
(* two definitions get the same C++ name.                                 *)
THEOREM NamesInjective == Spec => []NameMapInjective
BY NameInvHolds, PTL DEF NameInv

(* build_name_map renames a definition only when an earlier definition    *)
(* in sorted order holds its sanitized name, and then to that name with   *)
(* one suffix: the RenamedOnlyOnCollision of the run, for every K.        *)
THEOREM RenamedOnCollision == Spec => []RenamedOnlyOnCollision
BY NameInvHolds, PTL DEF NameInv

(* The while loop of lines 197-199 never tries a suffix beyond K + 1, and *)
(* every name is a base with at most two numbers: TypeOK for every K.     *)
THEOREM TypeCorrect == Spec => []TypeOK
<1>1. NameInv => TypeOK
  BY DEF NameInv, TypeOK
<1>. QED
  BY <1>1, NameInvHolds, PTL

=============================================================================
