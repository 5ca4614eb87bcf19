---------------------------- MODULE FlattenTwice ----------------------------
(***************************************************************************)
(* Two runs of the generator on the same schema: two processes whose      *)
(* string hash seeds differ visit struct_names in two orders (Flatten).    *)
(* Each has its own memo cache and stack; the parent map is the schema    *)
(* they share.                                                            *)
(***************************************************************************)
EXTENDS Naturals

CONSTANT S

VARIABLES parent, cache1, frames1, ret1, todo1, pc1,
          cache2, frames2, ret2, todo2, pc2

run1 == <<cache1, frames1, ret1, todo1, pc1>>
run2 == <<cache2, frames2, ret2, todo2, pc2>>
vars == <<parent, run1, run2>>

R1 == INSTANCE Flatten WITH cache <- cache1, frames <- frames1, ret <- ret1,
                            todo <- todo1, pc <- pc1
R2 == INSTANCE Flatten WITH cache <- cache2, frames <- frames2, ret <- ret2,
                            todo <- todo2, pc <- pc2

Init == R1!Init /\ R2!Init

Next == (R1!Next /\ UNCHANGED run2) \/ (R2!Next /\ UNCHANGED run1)

Spec == Init /\ [][Next]_vars

(* spec.md 5: a compilation run is deterministic and repeatable for       *)
(* identical input, its flattened-property memo included.  The code       *)
(* breaks it when single parents form a cycle: the first structure of the *)
(* cycle that struct_names yields caches the list truncated by the guard  *)
(* at line 642 for its parent, and which structure comes first depends on *)
(* the hash seed.                                                         *)
FlattenDeterministic ==
  pc1 = "done" /\ pc2 = "done" => cache1 = cache2

=============================================================================
