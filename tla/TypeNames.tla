----------------------------- MODULE TypeNames -----------------------------
(***************************************************************************)
(* build_name_map (scripts/lsp_codegen.py 190-202): the C++ name of every *)
(* structure, enumeration and alias.  The definitions are visited in      *)
(* sorted order (1..K here); each is sanitized, and while the candidate   *)
(* is taken the suffix _2, _3, ... is tried on the sanitized base.        *)
(*                                                                         *)
(* sanitize_type_identifier is many-to-one and may already return a       *)
(* suffixed name ("Foo_2" stays "Foo_2"), so Init lets sanitized be any   *)
(* map from the definitions to identifiers of at most one number.         *)
(***************************************************************************)
EXTENDS Identifiers

CONSTANT K   \* number of definition names
ASSUME KAssumption == K \in Nat \ {0}

Defs == 1..K

VARIABLES
  sanitized,  \* sanitized[o]: sanitize_type_identifier(original o)
  pc,         \* "next" (top of the for loop), "probe" (the while), "done"
  cur,        \* index of the definition being named
  candidate,  \* the local candidate
  suffix,     \* the local suffix
  out,        \* out[o] for o < cur, as a sequence in sorted order
  used        \* the set used

vars == <<sanitized, pc, cur, candidate, suffix, out, used>>

Init ==
  /\ sanitized \in [Defs -> Idents(2)]
  /\ pc = "next"
  /\ cur = 1
  /\ candidate = <<>>
  /\ suffix = 2
  /\ out = <<>>
  /\ used = {}

(* Mutant: the suffix is applied before the first test (a do-while). *)
StartSuffixed ==
  /\ pc = "next"
  /\ cur <= K
  /\ candidate' = WithSuffix(sanitized[cur], 2)
  /\ suffix' = 2
  /\ pc' = "probe"
  /\ UNCHANGED <<sanitized, cur, out, used>>

(* Lines 193-196: the next definition in sorted order; candidate = base. *)
Start ==
  /\ pc = "next"
  /\ cur <= K
  /\ candidate' = sanitized[cur]
  /\ suffix' = 2
  /\ pc' = "probe"
  /\ UNCHANGED <<sanitized, cur, out, used>>

(* Mutant: the suffix is appended to the last candidate, not the base. *)
RetryFromCandidate ==
  /\ pc = "probe"
  /\ candidate \in used
  /\ candidate' = WithSuffix(candidate, suffix)
  /\ suffix' = suffix + 1
  /\ UNCHANGED <<sanitized, pc, cur, out, used>>

(* Mutant: the suffix is never advanced. *)
RetryStuck ==
  /\ pc = "probe"
  /\ candidate \in used
  /\ candidate' = WithSuffix(sanitized[cur], suffix)
  /\ UNCHANGED <<sanitized, pc, cur, suffix, out, used>>

(* Lines 197-199: one iteration of the while: the candidate is taken. *)
Retry ==
  /\ pc = "probe"
  /\ candidate \in used
  /\ candidate' = WithSuffix(sanitized[cur], suffix)
  /\ suffix' = suffix + 1
  /\ UNCHANGED <<sanitized, pc, cur, out, used>>

(* Mutant: the chosen name is not recorded in used. *)
AssignUnrecorded ==
  /\ pc = "probe"
  /\ candidate \notin used
  /\ out' = Append(out, candidate)
  /\ cur' = cur + 1
  /\ pc' = "next"
  /\ UNCHANGED <<sanitized, candidate, suffix, used>>

(* Lines 200-201: the candidate is free: out[original] and used take it. *)
Assign ==
  /\ pc = "probe"
  /\ candidate \notin used
  /\ out' = Append(out, candidate)
  /\ used' = used \cup {candidate}
  /\ cur' = cur + 1
  /\ pc' = "next"
  /\ UNCHANGED <<sanitized, candidate, suffix>>

(* Line 202: every definition has its name. *)
Return ==
  /\ pc = "next"
  /\ cur > K
  /\ pc' = "done"
  /\ UNCHANGED <<sanitized, cur, candidate, suffix, out, used>>

Terminated == pc = "done" /\ UNCHANGED vars

Next == Start \/ Retry \/ Assign \/ Return \/ Terminated

(* build_name_map is a plain loop that keeps running until it returns. *)
Spec == Init /\ [][Next]_vars /\ WF_vars(Next)

-----------------------------------------------------------------------------
(* Type invariant: the suffix never passes K + 1 (at most K - 1 taken     *)
(* names can block one base).                                              *)
TypeOK ==
  /\ sanitized \in [Defs -> Idents(2)]
  /\ pc \in {"next", "probe", "done"}
  /\ cur \in 1..(K + 1)
  /\ suffix \in 2..(K + 1)
  /\ candidate \in Names(K + 1) \cup {<<>>}
  /\ out \in Seq(Names(K + 1))
  /\ used \subseteq Range(out)

(* No two definitions get the same C++ name, however the sanitized names  *)
(* collide, a sanitized name that already carries a suffix included (the  *)
(* while loop tests each suffixed candidate against every taken name).     *)
NameMapInjective == IsInjective(out)

(* A definition loses its sanitized name only when an earlier definition  *)
(* in sorted order already holds it, and then it gets that name plus a    *)
(* suffix: the first of the colliding definitions keeps the plain name.    *)
RenamedOnlyOnCollision ==
  \A a \in DOMAIN out :
    \/ out[a] = sanitized[a]
    \/ /\ \E b \in 1..(a - 1) : out[b] = sanitized[a]
       /\ \E k \in 2..(K + 1) : out[a] = WithSuffix(sanitized[a], k)

(* build_name_map returns. *)
Termination == <>(pc = "done")

=============================================================================
