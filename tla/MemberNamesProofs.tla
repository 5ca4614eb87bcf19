------------------------- MODULE MemberNamesProofs -------------------------
(***************************************************************************)
(* Proofs about the member-naming loops (MemberNames), for every member   *)
(* count M and every outcome of the sanitizers.                           *)
(*                                                                         *)
(* The properties the run member_names checks are not inductive: they     *)
(* speak of out and literalMembers, while what keeps them true is the     *)
(* Counter.  MInv says what the loops know: used_names counts the         *)
(* occurrences of each base among the members emitted so far, so the i-th *)
(* counted member is LiteralMember(i), the very name Generator.__init__   *)
(* computes with its own Counter; and the literal map holds, for each      *)
(* value string, LiteralMember of its last occurrence.                    *)
(***************************************************************************)
EXTENDS MemberNames, FiniteSetTheorems, SequenceTheorems, WellFoundedInduction,
        TLAPS

(* The interval 1..n is a finite set of n elements. *)
LEMMA IntervalCard ==
  ASSUME NEW n \in Nat
  PROVE  IsFiniteSet(1..n) /\ Cardinality(1..n) = n
<1>1. IsFiniteSet(1..n) /\ Cardinality(1..n) = IF 1 > n THEN 0 ELSE n - 1 + 1
  BY FS_Interval
<1>. QED
  BY <1>1

(* The sanitized base of the i-th member. *)
B(i) == base[raw[i]]

(* The value index whose member value_to_member keeps for string t. *)
Last(t) == CHOOSE i \in 1..M : raw[i] = t /\ \A j \in (i+1)..M : raw[j] # t

(* The literal map Generator.__init__ builds for the closed enum. *)
LiteralMap == [t \in {raw[i] : i \in 1..M} |-> LiteralMember(Last(t))]

MInv ==
  /\ scope \in Scopes
  /\ raw \in [1..M -> Raw]
  /\ base \in [Raw -> Idents(2)]
  /\ pc \in {"init", "emit", "done"}
  /\ out \in Seq(Names(M))
  /\ Len(out) <= M
  /\ pc = "done" => Len(out) = M
  /\ pc = "init" => scope = "closed_enum" /\ out = <<>>
  /\ scope \in Counted =>
       /\ usedNames = [n \in Idents(2) |-> Seen(n, Len(out))]
       /\ \A i \in 1..Len(out) : out[i] = LiteralMember(i)
  /\ scope = "custom_enum" =>
       /\ usedNames = [n \in Idents(2) |-> 0]
       /\ \A i \in 1..Len(out) : out[i] = B(i)
  /\ literalMembers = IF scope = "closed_enum" /\ pc # "init"
                      THEN LiteralMap ELSE [t \in {} |-> <<>>]

-----------------------------------------------------------------------------
(* The Counter as a function of the members already emitted.             *)

(* used_names[b] counts at most the k members seen. *)
LEMMA SeenBound ==
  ASSUME NEW b, NEW k \in 0..M
  PROVE  /\ IsFiniteSet({j \in 1..k : B(j) = b})
         /\ Seen(b, k) \in 0..k
<1>1. IsFiniteSet(1..k) /\ Cardinality(1..k) = k
  BY IntervalCard
<1>2. IsFiniteSet({j \in 1..k : B(j) = b})
      /\ Cardinality({j \in 1..k : B(j) = b}) <= k
  BY <1>1, FS_Subset
<1>. QED
  BY <1>2, FS_CardinalityType DEF Seen, B

(* used_names[b] += 1 for the base of the next member, and only for it. *)
LEMMA SeenStep ==
  ASSUME NEW b, NEW k \in 0..(M - 1)
  PROVE  Seen(b, k + 1) = IF B(k + 1) = b THEN Seen(b, k) + 1 ELSE Seen(b, k)
<1>1. IsFiniteSet({j \in 1..k : B(j) = b})
  BY SeenBound, MAssumption
<1>2. CASE B(k + 1) = b
  <2>1. {j \in 1..(k + 1) : B(j) = b} = {j \in 1..k : B(j) = b} \cup {k + 1}
    BY <1>2, MAssumption
  <2>2. k + 1 \notin {j \in 1..k : B(j) = b}
    BY MAssumption
  <2>3. Cardinality({j \in 1..(k + 1) : B(j) = b})
          = Cardinality({j \in 1..k : B(j) = b}) + 1
    BY <1>1, <2>1, <2>2, FS_AddElement
  <2>. QED
    BY <1>2, <2>3 DEF Seen, B
<1>3. CASE B(k + 1) # b
  <2>1. {j \in 1..(k + 1) : B(j) = b} = {j \in 1..k : B(j) = b}
    BY <1>3, MAssumption
  <2>. QED
    BY <1>3, <2>1 DEF Seen, B
<1>. QED
  BY <1>2, <1>3

(* Occurrences only accumulate. *)
LEMMA SeenMono ==
  ASSUME NEW b, NEW k \in 0..M, NEW l \in k..M
  PROVE  Seen(b, k) <= Seen(b, l)
<1>1. IsFiniteSet({j \in 1..l : B(j) = b})
  BY SeenBound, MAssumption
<1>2. {j \in 1..k : B(j) = b} \subseteq {j \in 1..l : B(j) = b}
  BY MAssumption
<1>. QED
  BY <1>1, <1>2, FS_Subset DEF Seen, B

-----------------------------------------------------------------------------
(* The names the dedupe makes.                                             *)

(* An identifier without a number is a one-element sequence, and appending *)
(* a number gives a two-element one.                                      *)
LEMMA BareIdent ==
  ASSUME NEW n \in Idents(2), Len(n) = 1, NEW k
  PROVE  \E c \in Bases :
           /\ n = <<c>>
           /\ Len(WithSuffix(n, k)) = 2
           /\ WithSuffix(n, k)[1] = c
           /\ WithSuffix(n, k)[2] = k
<1>1. PICK c \in Bases : n = <<c>>
  <2>1. \A b \in Bases, j \in 2..2 : Len(<<b, j>>) = 2
    OBVIOUS
  <2>. QED
    BY <2>1 DEF Idents
<1>2. <<c>> \in Seq({c})
  OBVIOUS
<1>. QED
  BY <1>1, <1>2, AppendProperties DEF WithSuffix

(* The (index+1)-th occurrence is numbered at most index + 1 <= M. *)
LEMMA LiteralMemberType ==
  ASSUME raw \in [1..M -> Raw], base \in [Raw -> Idents(2)], NEW i \in 1..M
  PROVE  LiteralMember(i) \in Names(M)
<1>1. B(i) \in Idents(2)
  BY DEF B
<1>2. Seen(B(i), i - 1) \in 0..(i - 1)
  <2>1. i - 1 \in 0..M
    BY MAssumption
  <2>. QED
    BY <2>1, SeenBound
<1>3. LiteralMember(i) = IF Seen(B(i), i - 1) = 0 THEN B(i)
                         ELSE WithSuffix(B(i), Seen(B(i), i - 1) + 1)
  BY DEF LiteralMember, B
<1>. QED
  BY <1>1, <1>2, <1>3, MAssumption DEF Names

(* When no base ends in a number, the Counter dedupe never names two      *)
(* members alike: a bare name occurs only as the first of its base, and   *)
(* the numbers given one base grow with every occurrence.                 *)
LEMMA LiteralMemberInjective ==
  ASSUME raw \in [1..M -> Raw], base \in [Raw -> Idents(2)],
         \A a \in 1..M : Len(B(a)) = 1,
         NEW i \in 1..M, NEW j \in 1..M, i < j
  PROVE  LiteralMember(i) # LiteralMember(j)
<1>1. PICK ci \in Bases :
        /\ B(i) = <<ci>>
        /\ \A k : Len(WithSuffix(B(i), k)) = 2 /\ WithSuffix(B(i), k)[1] = ci
                  /\ WithSuffix(B(i), k)[2] = k
  BY BareIdent DEF B
<1>2. PICK cj \in Bases :
        /\ B(j) = <<cj>>
        /\ \A k : Len(WithSuffix(B(j), k)) = 2 /\ WithSuffix(B(j), k)[1] = cj
                  /\ WithSuffix(B(j), k)[2] = k
  BY BareIdent DEF B
<1>0. /\ i - 1 \in 0..M /\ j - 1 \in 0..M
      /\ i - 1 \in 0..(M - 1) /\ i \in 0..M /\ j - 1 \in i..M
  BY MAssumption
<1>3. Seen(B(i), i - 1) \in 0..(i - 1) /\ Seen(B(j), j - 1) \in 0..(j - 1)
  <2>1. Seen(B(i), i - 1) \in 0..(i - 1)
    BY <1>0, SeenBound
  <2>2. Seen(B(j), j - 1) \in 0..(j - 1)
    BY <1>0, SeenBound
  <2>. QED
    BY <2>1, <2>2
<1>4. B(i) = B(j) => Seen(B(i), i - 1) < Seen(B(j), j - 1)
  <2> HAVE B(i) = B(j)
  <2>1. Seen(B(i), (i - 1) + 1) = Seen(B(i), i - 1) + 1
    BY <1>0, SeenStep
  <2>2. Seen(B(i), i) <= Seen(B(i), j - 1)
    BY <1>0, SeenMono
  <2>3. Seen(B(i), i) \in Nat
    <3>1. Seen(B(i), i) \in 0..i
      BY <1>0, SeenBound
    <3>. QED
      BY <3>1
  <2>4. Seen(B(i), j - 1) = Seen(B(j), j - 1)
    OBVIOUS
  <2>. QED
    BY <1>3, <2>1, <2>2, <2>3, <2>4, MAssumption
(* Both members as names: a bare base, of length 1, or a suffixed one.   *)
<1>7. /\ Len(B(i)) = 1 /\ Len(B(j)) = 1
  OBVIOUS
<1>5. CASE Seen(B(j), j - 1) = 0
  <2>1. B(i) # B(j)
    BY <1>3, <1>4, <1>5
  <2>2. LiteralMember(j) = B(j)
    BY <1>5 DEF LiteralMember, B
  <2>3. CASE Seen(B(i), i - 1) = 0
    <3>1. LiteralMember(i) = B(i)
      BY <2>3 DEF LiteralMember, B
    <3>. QED
      BY <2>1, <2>2, <3>1
  <2>4. CASE Seen(B(i), i - 1) # 0
    <3>1. LiteralMember(i) = WithSuffix(B(i), Seen(B(i), i - 1) + 1)
      BY <2>4 DEF LiteralMember, B
    <3>2. Len(LiteralMember(i)) = 2
      BY <1>1, <3>1
    <3>3. Len(LiteralMember(j)) = 1
      BY <1>7, <2>2
    <3>4. Len(LiteralMember(i)) # Len(LiteralMember(j))
      BY <3>2, <3>3
    <3>. QED
      BY <3>4
  <2>. QED
    BY <2>3, <2>4
<1>6. CASE Seen(B(j), j - 1) # 0
  <2>1. LiteralMember(j) = WithSuffix(B(j), Seen(B(j), j - 1) + 1)
    BY <1>6 DEF LiteralMember, B
  <2>2. CASE Seen(B(i), i - 1) = 0
    <3>1. LiteralMember(i) = B(i)
      BY <2>2 DEF LiteralMember, B
    <3>2. Len(LiteralMember(i)) # Len(LiteralMember(j))
      BY <1>2, <1>7, <2>1, <3>1
    <3>. QED
      BY <3>2
  <2>3. CASE Seen(B(i), i - 1) # 0
    <3>1. LiteralMember(i) = WithSuffix(B(i), Seen(B(i), i - 1) + 1)
      BY <2>3 DEF LiteralMember, B
    <3>. QED
      BY <1>1, <1>2, <1>3, <1>4, <2>1, <3>1
  <2>. QED
    BY <2>2, <2>3
<1>. QED
  BY <1>5, <1>6

(* Every value string has a last occurrence, the one whose member        *)
(* value_to_member keeps (line 590 overwrites earlier ones).  The         *)
(* occurrence with the least distance M - i to the end is found by the    *)
(* well-foundedness of < on Nat.                                          *)
LEMMA LastExists ==
  ASSUME raw \in [1..M -> Raw], NEW t \in {raw[i] : i \in 1..M}
  PROVE  /\ Last(t) \in 1..M
         /\ raw[Last(t)] = t
         /\ \A j \in (Last(t) + 1)..M : raw[j] # t
<1>. DEFINE T == {M - i : i \in {k \in 1..M : raw[k] = t}}
<1>1. T \subseteq Nat /\ T # {}
  BY MAssumption
<1>2. PICK x \in T : \A y \in T : ~(<<y, x>> \in OpToRel(<, Nat))
  BY <1>1, NatLessThanWellFounded, WFMin
<1>3. PICK i \in 1..M : raw[i] = t /\ x = M - i
  OBVIOUS
<1>4. \A j \in (i + 1)..M : raw[j] # t
  <2> SUFFICES ASSUME NEW j \in (i + 1)..M, raw[j] = t PROVE FALSE
    OBVIOUS
  <2>1. M - j \in T
    BY MAssumption
  <2>2. <<M - j, x>> \in OpToRel(<, Nat)
    BY <1>3, MAssumption DEF OpToRel
  <2>. QED
    BY <1>2, <2>1, <2>2
<1>. QED
  BY <1>3, <1>4 DEF Last

-----------------------------------------------------------------------------
(* The loops never change the raw names or their bases, so nothing       *)
(* computed from them changes either.                                     *)
LEMMA Frame ==
  ASSUME raw' = raw, base' = base
  PROVE  /\ LiteralMap' = LiteralMap
         /\ \A i : LiteralMember(i)' = LiteralMember(i) /\ B(i)' = B(i)
         /\ \A n, k : Seen(n, k)' = Seen(n, k)
BY DEF LiteralMap, LiteralMember, Last, Seen, B

LEMMA InitMInv == Init => MInv
<1> SUFFICES ASSUME Init PROVE MInv
  OBVIOUS
<1>1. \A n \in Idents(2) : Seen(n, 0) = 0
  BY FS_EmptySet DEF Seen
<1>. QED
  BY <1>1, MAssumption DEF Init, MInv, Scopes, Counted

LEMMA IndexLiteralsMInv == MInv /\ IndexLiterals => MInv'
<1> SUFFICES ASSUME MInv, IndexLiterals PROVE MInv'
  OBVIOUS
<1>1. LiteralMap' = LiteralMap /\ \A n, k : Seen(n, k)' = Seen(n, k)
  BY Frame DEF IndexLiterals
<1>2. literalMembers' = LiteralMap
  BY DEF IndexLiterals, LiteralMap, Last
<1>. QED
  BY <1>1, <1>2 DEF MInv, IndexLiterals, Counted

(* One iteration of a counted loop keeps used_names equal to the count of *)
(* each base so far and appends LiteralMember of the new index.           *)
LEMMA CountedStepMInv ==
  ASSUME MInv, pc = "emit", scope \in Counted, CountedStep
  PROVE  MInv'
<1>. DEFINE L == Len(out)
            b == B(L + 1)
<1>1. L \in 0..(M - 1) /\ b \in Idents(2) /\ out \in Seq(Names(M))
  BY MAssumption DEF MInv, CountedStep, B
<1>2. usedNames[b] = Seen(b, L)
  BY <1>1 DEF MInv
<1>3. out' = Append(out, LiteralMember(L + 1))
  BY <1>1, <1>2 DEF CountedStep, unique_member_name, LiteralMember, B
<1>4. usedNames' = [n \in Idents(2) |-> Seen(n, L + 1)]
  <2>1. usedNames' = [usedNames EXCEPT ![b] = @ + 1]
    BY DEF CountedStep, unique_member_name, B
  <2>2. \A n \in Idents(2) : Seen(n, L + 1) = IF b = n THEN Seen(n, L) + 1 ELSE Seen(n, L)
    BY <1>1, SeenStep DEF B
  <2>. QED
    BY <1>1, <2>1, <2>2 DEF MInv
<1>5. LiteralMember(L + 1) \in Names(M)
  <2>1. raw \in [1..M -> Raw] /\ base \in [Raw -> Idents(2)] /\ L + 1 \in 1..M
    BY <1>1, MAssumption DEF MInv
  <2>. QED
    BY <2>1, LiteralMemberType
<1>6. /\ out' \in Seq(Names(M))
      /\ Len(out') = L + 1
      /\ \A i \in 1..L : out'[i] = out[i]
      /\ out'[L + 1] = LiteralMember(L + 1)
  BY <1>1, <1>3, <1>5, AppendProperties
<1>7. /\ LiteralMap' = LiteralMap
      /\ \A i : LiteralMember(i)' = LiteralMember(i)
      /\ \A n, k : Seen(n, k)' = Seen(n, k)
  BY Frame DEF CountedStep
<1>8. \A i \in 1..Len(out') : out'[i] = LiteralMember(i)
  BY <1>6 DEF MInv
<1>9. usedNames' = [n \in Idents(2) |-> Seen(n, Len(out))']
  BY <1>4, <1>6, <1>7
<1>10. \A i \in 1..Len(out') : out'[i] = LiteralMember(i)'
  BY <1>7, <1>8
<1>11. UNCHANGED <<scope, raw, base, literalMembers, pc>>
  BY DEF CountedStep
<1>12. literalMembers' = IF scope' = "closed_enum" /\ pc' # "init"
                         THEN LiteralMap' ELSE [t \in {} |-> <<>>]
  BY <1>7, <1>11 DEF MInv
<1>13. Len(out') <= M
  BY <1>1, <1>6, MAssumption
<1>. QED
  BY <1>6, <1>9, <1>10, <1>11, <1>12, <1>13 DEF MInv, Counted

LEMMA EmitCustomMInv == MInv /\ EmitCustom => MInv'
<1> SUFFICES ASSUME MInv, EmitCustom PROVE MInv'
  OBVIOUS
<1>. DEFINE L == Len(out)
<1>1. L \in 0..(M - 1) /\ B(L + 1) \in Names(M) /\ out \in Seq(Names(M))
  BY MAssumption DEF MInv, EmitCustom, B, Names
<1>2. /\ out' \in Seq(Names(M))
      /\ Len(out') = L + 1
      /\ \A i \in 1..L : out'[i] = out[i]
      /\ out'[L + 1] = B(L + 1)
  BY <1>1, AppendProperties DEF EmitCustom, B
<1>3. \A i : B(i)' = B(i)
  BY Frame DEF EmitCustom
<1>4. \A i \in 1..Len(out') : out'[i] = B(i)'
  <2>1. \A i \in 1..L : out[i] = B(i)
    BY DEF MInv, EmitCustom
  <2>. QED
    BY <1>2, <1>3, <2>1
<1>5. UNCHANGED <<scope, raw, base, usedNames, literalMembers, pc>>
  BY DEF EmitCustom
<1>6. usedNames' = [n \in Idents(2) |-> 0] /\ scope' = "custom_enum"
  BY <1>5 DEF MInv, EmitCustom
<1>7. Len(out') <= M
  BY <1>1, <1>2, MAssumption
<1>8. literalMembers' = [t \in {} |-> <<>>]
  BY <1>5, <1>6 DEF MInv
<1>. QED
  BY <1>2, <1>4, <1>5, <1>6, <1>7, <1>8 DEF MInv, Counted, Scopes

LEMMA DoneMInv == MInv /\ Done => MInv'
<1> SUFFICES ASSUME MInv, Done PROVE MInv'
  OBVIOUS
<1>1. /\ LiteralMap' = LiteralMap
      /\ \A i : LiteralMember(i)' = LiteralMember(i) /\ B(i)' = B(i)
      /\ \A n, k : Seen(n, k)' = Seen(n, k)
  BY Frame DEF Done
<1>. QED
  BY <1>1 DEF MInv, Done

LEMMA StutterMInv == MInv /\ (Terminated \/ UNCHANGED vars) => MInv'
<1> SUFFICES ASSUME MInv, Terminated \/ UNCHANGED vars PROVE MInv'
  OBVIOUS
<1>1. UNCHANGED vars
  BY DEF Terminated
<1>2. /\ LiteralMap' = LiteralMap
      /\ \A i : LiteralMember(i)' = LiteralMember(i) /\ B(i)' = B(i)
      /\ \A n, k : Seen(n, k)' = Seen(n, k)
  BY <1>1, Frame DEF vars
<1>. QED
  BY <1>1, <1>2 DEF MInv, vars

-----------------------------------------------------------------------------
(* MInv holds in every state of every member-naming loop. *)
THEOREM MInvHolds == Spec => []MInv
<1>1. Init => MInv
  BY InitMInv
<1>2. MInv /\ [Next]_vars => MInv'
  <2> SUFFICES ASSUME MInv, [Next]_vars PROVE MInv'
    OBVIOUS
  <2>1. CASE EmitMember \/ EmitIntegerMember \/ EmitClosedMember
    BY <2>1, CountedStepMInv DEF EmitMember, EmitIntegerMember, EmitClosedMember,
       Counted
  <2>. QED
    BY <2>1, IndexLiteralsMInv, EmitCustomMInv, DoneMInv, StutterMInv DEF Next
<1>. QED
  BY <1>1, <1>2, PTL DEF Spec

(* For every M: used_names never counts past the member count, no member *)
(* is numbered past M, and the literal map sends value strings to such   *)
(* names (TypeOK of the run member_names).                                *)
THEOREM TypeCorrect == Spec => []TypeOK
<1>1. MInv => TypeOK
  <2> SUFFICES ASSUME MInv PROVE TypeOK
    OBVIOUS
  <2>1. usedNames \in [Idents(2) -> 0..M]
    <3>1. CASE scope \in Counted
      <4>0. Len(out) \in 0..M
        BY DEF MInv
      <4>1. \A n \in Idents(2) : Seen(n, Len(out)) \in 0..M
        <5> TAKE n \in Idents(2)
        <5>1. Seen(n, Len(out)) \in 0..Len(out)
          BY <4>0, SeenBound
        <5>. QED
          BY <4>0, <5>1, MAssumption
      <4>. QED
        BY <3>1, <4>1 DEF MInv
    <3>2. CASE scope \notin Counted
      BY <3>2, MAssumption DEF MInv, Scopes, Counted
    <3>. QED
      BY <3>1, <3>2
  <2>2. /\ DOMAIN literalMembers \subseteq Raw
        /\ \A t \in DOMAIN literalMembers : literalMembers[t] \in Names(M)
    <3>1. \A t \in {raw[i] : i \in 1..M} : LiteralMember(Last(t)) \in Names(M)
      BY LastExists, LiteralMemberType DEF MInv
    <3>. QED
      BY <3>1 DEF MInv, LiteralMap
  <2>. QED
    BY <2>1, <2>2 DEF MInv, TypeOK
<1>. QED
  BY <1>1, MInvHolds, PTL

(* In the struct and the counted enum loops, when no base name already    *)
(* ends in a number, the Counter alone keeps the member names distinct,  *)
(* for every member count: SuffixFreeMembersUnique of the run.           *)
THEOREM SuffixFreeUnique == Spec => []SuffixFreeMembersUnique
<1>1. MInv => SuffixFreeMembersUnique
  <2> SUFFICES ASSUME MInv, scope \in Counted, \A a \in 1..M : Len(base[raw[a]]) = 1,
                      NEW i \in DOMAIN out, NEW j \in DOMAIN out, out[i] = out[j], i # j
               PROVE  FALSE
    BY DEF SuffixFreeMembersUnique, IsInjective
  <2>0. i \in 1..Len(out) /\ j \in 1..Len(out) /\ Len(out) <= M
    BY DEF MInv
  <2>1. i \in 1..M /\ j \in 1..M /\ out[i] = LiteralMember(i) /\ out[j] = LiteralMember(j)
    BY <2>0, MAssumption DEF MInv, Counted
  <2>2. \A a \in 1..M : Len(B(a)) = 1
    BY DEF B
  <2>3. CASE i < j
    BY <2>1, <2>2, <2>3, LiteralMemberInjective DEF MInv
  <2>4. CASE j < i
    BY <2>1, <2>2, <2>4, LiteralMemberInjective DEF MInv
  <2>. QED
    BY <2>1, <2>3, <2>4
<1>. QED
  BY <1>1, MInvHolds, PTL

(* Once a closed string enumeration is emitted, the default Enum::member  *)
(* make_member takes from Generator.__init__'s map for a string is a      *)
(* member emit_enum declared for that string, for every M and however the *)
(* strings repeat: LiteralDefaultIsMember of the run.                     *)
THEOREM LiteralDefaults == Spec => []LiteralDefaultIsMember
<1>1. MInv => LiteralDefaultIsMember
  <2> SUFFICES ASSUME MInv, pc = "done", scope = "closed_enum",
                      NEW t \in DOMAIN literalMembers
               PROVE  \E i \in 1..M : raw[i] = t /\ out[i] = literalMembers[t]
    BY DEF LiteralDefaultIsMember
  <2>1. t \in {raw[i] : i \in 1..M} /\ literalMembers[t] = LiteralMember(Last(t))
    BY DEF MInv, LiteralMap
  <2>2. Last(t) \in 1..M /\ raw[Last(t)] = t
    BY <2>1, LastExists DEF MInv
  <2>3. out[Last(t)] = LiteralMember(Last(t))
    BY <2>2 DEF MInv, Counted
  <2>. QED
    BY <2>1, <2>2, <2>3
<1>. QED
  BY <1>1, MInvHolds, PTL

=============================================================================
