------------------------------ MODULE Flatten ------------------------------
(***************************************************************************)
(* Generator.collect_flattened_properties (scripts/lsp_codegen.py        *)
(* 631-657), as build_node_dependencies drives it (693-695): one call    *)
(* per structure, through struct_dependencies (659-678), in the iteration *)
(* order of the set struct_names.  That order depends on the per-process  *)
(* string hash seed, so the model lets it be any order.                   *)
(*                                                                         *)
(* The recursion is an explicit call stack of frames.  The Python set     *)
(* `stack` is the set of structures with a frame, and the memo dict       *)
(* flattened_property_cache is the partial function cache.  A structure's *)
(* own properties are abstracted to one block named by the structure, so *)
(* a flattened list is the sequence of the structures that declared its   *)
(* blocks (FlattenedProperty.declared_in).                                *)
(***************************************************************************)
EXTENDS Naturals, Sequences

CONSTANT S   \* number of structures
ASSUME SAssumption == S \in Nat \ {0}

Structs == 1..S

(* Python's recursion limit, far above S: reached only by an unguarded    *)
(* recursion.                                                             *)
Limit == S + 1

VARIABLES
  parent,  \* parent[s]: the single structure parent, 0 when there is none
  cache,   \* flattened_property_cache, a function on the cached structures
  frames,  \* the call stack: [s, phase]; phase "call" before the parent call
  ret,     \* the list the last finished call returned
  todo,    \* structures build_node_dependencies has not yet visited
  pc       \* "run", then "done" when every structure was visited

vars == <<parent, cache, frames, ret, todo, pc>>

OnStack == {frames[i].s : i \in DOMAIN frames}

Top == frames[Len(frames)]

(* Line 649: a structure is flattened into its child only when it is the  *)
(* child's one parent and a structure.  0 covers no parent, several       *)
(* parents and a parent that is not a structure.                          *)
Init ==
  /\ parent \in [Structs -> 0..S]
  /\ cache = [s \in {} |-> <<>>]
  /\ frames = <<>>
  /\ ret = <<>>
  /\ todo = Structs
  /\ pc = "run"

(* Mutant: the recursion guard on `stack` is missing. *)
EnterUnguarded(s, fr) ==
  IF s \in DOMAIN cache
    THEN ret' = cache[s] /\ frames' = fr
    ELSE frames' = Append(fr, [s |-> s, phase |-> "call"]) /\ UNCHANGED ret

(* Mutant: the memo is not consulted on entry. *)
EnterUncached(s, fr) ==
  IF s \in OnStack
    THEN ret' = <<>> /\ frames' = fr
    ELSE frames' = Append(fr, [s |-> s, phase |-> "call"]) /\ UNCHANGED ret

(* Lines 635-643: entry of collect_flattened_properties(s) from a caller  *)
(* whose stack is fr: a cache hit returns the cached list, a structure    *)
(* already on the stack returns [], any other structure gets a frame.     *)
Enter(s, fr) ==
  IF s \in DOMAIN cache
    THEN ret' = cache[s] /\ frames' = fr
  ELSE IF s \in OnStack
    THEN ret' = <<>> /\ frames' = fr
    ELSE frames' = Append(fr, [s |-> s, phase |-> "call"]) /\ UNCHANGED ret

(* Lines 693-695 and 671: the loop over struct_names calls                *)
(* struct_dependencies, which (on a cache miss) calls                     *)
(* collect_flattened_properties with a fresh stack.                        *)
Visit ==
  /\ pc = "run"
  /\ frames = <<>>
  /\ \E s \in todo :
       /\ todo' = todo \ {s}
       /\ Enter(s, <<>>)
  /\ UNCHANGED <<parent, cache, pc>>

(* Lines 646-650: the recursive call on the single parent; without one,  *)
(* the inherited part is empty.                                           *)
CallParent ==
  /\ frames # <<>>
  /\ Top.phase = "call"
  /\ Len(frames) < Limit
  /\ LET fr == [frames EXCEPT ![Len(frames)].phase = "resume"]
     IN  IF parent[Top.s] # 0
           THEN Enter(parent[Top.s], fr)
           ELSE ret' = <<>> /\ frames' = fr
  /\ UNCHANGED <<parent, cache, todo, pc>>

(* Mutant: the structure's own properties come before the inherited ones. *)
ReturnOwnFirst ==
  /\ frames # <<>>
  /\ Top.phase = "resume"
  /\ LET out == <<Top.s>> \o ret
     IN  /\ cache' = [x \in DOMAIN cache \cup {Top.s} |->
                        IF x = Top.s THEN out ELSE cache[x]]
         /\ ret' = out
  /\ frames' = SubSeq(frames, 1, Len(frames) - 1)
  /\ UNCHANGED <<parent, todo, pc>>

(* Lines 652-657: the inherited list extended by the own properties,      *)
(* stored in the cache, the frame popped (stack.remove) and the list      *)
(* returned.                                                               *)
Return ==
  /\ frames # <<>>
  /\ Top.phase = "resume"
  /\ LET out == ret \o <<Top.s>>
     IN  /\ cache' = [x \in DOMAIN cache \cup {Top.s} |->
                        IF x = Top.s THEN out ELSE cache[x]]
         /\ ret' = out
  /\ frames' = SubSeq(frames, 1, Len(frames) - 1)
  /\ UNCHANGED <<parent, todo, pc>>

(* Line 693: the loop over struct_names is over. *)
Finish ==
  /\ pc = "run"
  /\ frames = <<>>
  /\ todo = {}
  /\ pc' = "done"
  /\ UNCHANGED <<parent, cache, frames, ret, todo>>

Terminated == pc = "done" /\ UNCHANGED vars

Next == Visit \/ CallParent \/ Return \/ Finish \/ Terminated

(* A running Python loop keeps taking its next step. *)
Spec == Init /\ [][Next]_vars /\ WF_vars(Next)

-----------------------------------------------------------------------------
(***************************************************************************)
(* Reference definition of spec.md 4.3 for a structure whose chain of     *)
(* single parents ends: the blocks of its root ancestor first, down to    *)
(* its own.  Anc[k][s] is the k-th ancestor of s, 0 past the root.        *)
(***************************************************************************)
Anc[k \in 0..S] ==
  IF k = 0 THEN [s \in Structs |-> s]
  ELSE [s \in Structs |-> IF Anc[k - 1][s] = 0 THEN 0 ELSE parent[Anc[k - 1][s]]]

(* The chain of single parents from s reaches a root. *)
ChainEnds(s) == Anc[S][s] = 0

Depth(s) == CHOOSE k \in 0..(S - 1) : Anc[k + 1][s] = 0 /\ Anc[k][s] # 0

Chain(s) == [i \in 1..(Depth(s) + 1) |-> Anc[Depth(s) + 1 - i][s]]

(* Type invariant: the stack never holds more than one frame per          *)
(* structure (the guard on `stack`, line 642).                             *)
TypeOK ==
  /\ parent \in [Structs -> 0..S]
  /\ DOMAIN cache \subseteq Structs
  /\ \A s \in DOMAIN cache : cache[s] \in Seq(Structs)
  /\ frames \in Seq([s : Structs, phase : {"call", "resume"}])
  /\ Len(frames) <= S
  /\ ret \in Seq(Structs)
  /\ todo \subseteq Structs
  /\ pc \in {"run", "done"}

(* Whatever the order the structures are visited in, and even when other  *)
(* structures inherit in a cycle, the memoised list of a structure whose  *)
(* parent chain ends is exactly its ancestors' blocks, root first, then   *)
(* its own: a partial list cached under the cycle guard never leaks into  *)
(* it.                                                                     *)
AcyclicChainsFlattenExactly ==
  \A s \in DOMAIN cache : ChainEnds(s) => cache[s] = Chain(s)

(* A list stored in flattened_property_cache (line 656) is never replaced *)
(* nor dropped: a structure is cached only on the return of its one frame,  *)
(* and a cached structure is never entered again, so a partial list cached *)
(* under the cycle guard stays what every later caller reads.              *)
CacheEntriesFinal ==
  [][\A s \in DOMAIN cache : s \in DOMAIN cache' /\ cache'[s] = cache[s]]_vars

(* Every structure's flattened list gets computed: the recursion ends,    *)
(* cycles of parents included.                                             *)
Termination == <>(pc = "done" /\ DOMAIN cache = Structs)

=============================================================================
