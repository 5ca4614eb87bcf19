# Formal models of the LSP code generators

This directory holds TLA+ models of the two C++ header generators in
`src/scripts/`. It has three kinds of files:

- specifications of their algorithmic core;
- TLC configurations that model-check them on small instances;
- TLAPS proofs of the main invariants of both dependency sorters and of the
  type-name registry, and of the refinement of `gen_lsp`'s sorter.

The generators are:

- `lsp_codegen.py`, the current generator (spec.md describes it).
- `gen_lsp.py`, the older generator. It still ships with its own renderer and
  sorter.

Both are sequential Python programs, with no threads, callbacks or messages.
What makes them hard is not concurrency. It is:

- **Data-dependent control.** Recursion over the schema, memo caches with a
  recursion guard, and counter-based renaming.
- **Hash-seeded iteration order.** Python iterates sets of strings in an order
  that depends on `PYTHONHASHSEED`.

The models therefore:

- enumerate every input of a small size;
- leave every set-iteration order open;
- check what must hold for all of them.

## The parts of the system and how they interact

`Generator` in `lsp_codegen.py` runs as a pipeline:

1. **Schema model.** It parses the meta-model into structures, enumerations
   and aliases (`parse_schema`).
2. **Naming registry.** It builds collision-free C++ names.
   - Type names come from `build_name_map` (190-202), over
     `sanitize_type_identifier`.
   - Member names come from `unique_member_name` (961-972), inside the member
     loop of `emit_struct`.
   - Integer and closed string enumerations repeat the same Counter dedupe
     inline in `emit_enum` (1066-1080, 1139-1153). `Generator.__init__`
     (575-592) runs it once more to map value strings to members, and
     `make_member` (858-869) takes string-literal defaults from that map.
   - String enumerations with custom values (1093-1120) name their static
     members with no dedupe at all.
3. **Inheritance resolver.**
   - `collect_flattened_properties` (631-657) flattens the `extends` chains.
     It uses a memo cache and an "on the stack" guard.
   - `collect_struct_members` (918-959) merges inherited and local fields.
   - For the merge it asks the **override checker**: `is_safe_override`
     (810-825) over `is_type_subtype` (734-808).
4. **Type renderer.** `TypeRenderer.render_type`/`render_or` (427-555) and the
   optional wrapping in `make_member` (837-857) give each field its C++ type.
5. **Dependency graph and sorter.**
   - `_walk_type_refs` (594-629) and `struct_dependencies` (659-678) find what
     each structure holds by value.
   - `build_node_dependencies` (680-711) turns that into edges between
     declaration nodes.
   - `topological_order` (370-400) orders the declarations.
6. **Emission.** Headers, documentation text and file output.

`gen_lsp.py` has the same shape. Its own `topo_sort` (266-286) uses a LIFO
stack and raises on a cycle.

## Modules and their correspondence to the code

| Module | Models | State (VARIABLES) | Actions ↔ code |
|---|---|---|---|
| `TopoOrder` | The sorter's contract (spec.md 4.2, 7) | `deps`, `out`, `status` | `Emit(n)` of a ready node, `Finish`, `FailCyclic` |
| `TopoSort` | `topological_order` (370-400) | `deps`, `pc`, `reverse`, `indegree`, `queue`, `ordered` | `Build` (374-384), `Pop` (one pass of the while loop, 387-393), `Finish` (400), `Fallback` (395-399) |
| `GenTopoSort` | `gen_lsp.topo_sort` (266-286) | `deps`, `pc`, `in_deg`, `queue`, `order` | `Build` (268-274), `Pop` (276-282, LIFO), `Return` (286), `Raise` (283-285) |
| `Identifiers` | The identifier space the sanitizers produce | — | `Idents`, `WithSuffix` (the `f"{base}_{n}"` of line 198) |
| `TypeNames` | `build_name_map` (190-202) | `sanitized`, `pc`, `cur`, `candidate`, `suffix`, `out`, `used` | `Start` (193-196), `Retry` (the while loop, 197-199), `Assign` (200-201), `Return` (202) |
| `MemberNames` | the four member-naming loops: `emit_struct` (1014-1032) with `unique_member_name` (961-972), and `emit_enum` for integer (1055-1083), custom-value string (1093-1120) and closed string enums (1125-1158), with the literal map of `Generator.__init__` (575-592) | `scope`, `raw`, `base`, `usedNames`, `literalMembers`, `pc`, `out` | `IndexLiterals` (575-592), `EmitMember` (1019-1030), `EmitIntegerMember` (1066-1080), `EmitClosedMember` (1139-1153), `EmitCustom` (1110-1116), `Done` (1032, 1082, 1119, 1155) |
| `Flatten` | `collect_flattened_properties` (631-657), driven by `build_node_dependencies` (693) | `parent`, `cache`, `frames` (the Python call stack), `ret`, `todo`, `pc` | `Visit` (one outer call), `Enter` (cache hit, stack guard, or push: 636-644), `CallParent` (646-650), `Return` (652-657), `Finish` |
| `FlattenTwice` | Two runs of `Flatten` over one schema | two copies of the variables, one `parent` | interleaving of the two runs |
| `Subtype` | `is_type_subtype` (734-808) as a recursive operator | — | reference semantics `SemanticSubtype` and the spec.md 4.3 rules `SpecSubtype` |
| `Override` | `collect_struct_members` (918-959) with `is_safe_override` (810-825) | `parents`, `inherited`, `local`, `members`, `warnings`, `i`, `pc` | `InheritOverridden` (931-936), `InheritKept` (937-944), `ComposeParents` (945-949), `AppendOwn` (951-959) |
| `Render` | `render_type`/`render_or` (427-555), `make_member` (837-857), `_walk_type_refs` (594-629), `struct_dependencies` (671-676) | `owner`, `fields`, `out` | `RenderMember`: one field of the owner, own or inherited |
| `TopoSortProofs` | TLAPS proofs about `TopoSort` | — | — |
| `TypeNamesProofs` | TLAPS proofs about `TypeNames` | — | — |
| `GenTopoSortProofs` | TLAPS proofs about `GenTopoSort`, and its refinement of `TopoOrder` | — | — |
| `MemberNamesProofs` | TLAPS proofs about `MemberNames` | — | — |
| `FlattenProofs` | TLAPS proofs about `Flatten` | — | — |

Each `MC*.tla` module gives the constants their values. Each `.cfg` names the
specification and the properties of one run.

### Abstractions

- **Node ordering.**
  - Declaration nodes are `1..N`. Their numeric order stands for the order
    `sorted()` gives the `(kind, name)` pairs.
  - The dependency map ranges over every map without self edges. These are
    exactly the maps `build_node_dependencies` can return, since it drops self
    edges at 676 and 705.
- **Names.**
  - A name is a base (a model value) with an optional numeric suffix.
  - `sanitize_*` and `camel_to_snake` are arbitrary maps into that space. Only
    whether two names are equal matters to the properties, and an arbitrary map
    covers every collision the sanitizers can create. This includes a base that
    already ends in `_2`.
- **Schema types.**
  - A schema type is a record with the meta-model's `kind`.
  - Rendered C++ types are records `[op, name, args]`.
  - The values a type admits are tagged strings: `"s:a"`, `"i:-1"`, `"null"`,
    `"obj:Name"`, and so on. The subtype check and the renderer are compared
    against these sets of values.
- **Iteration order.** Every iteration over a Python `set` takes any order:
  - `struct_names` in `Flatten`;
  - the `dependents` sets in `GenTopoSort`;
  - the node set in `gen_lsp.main`.

## Runs

| Run | Cfg | Expect | Checks | Shows |
|---|---|---|---|---|
| `topo_all` | `MCTopoSort.cfg` | pass | `TypeOK`, `DepsEmittedFirst`, `OutputIsPermutation`, `FallbackOnlyWhenStuck` | On every map of 4 nodes, cyclic or not, `topological_order` returns a permutation of the nodes. While it loops, no node comes before one of its dependencies. The fallback at 395-399 fires only when every node left over still waits on another node left over, so it never hides a ready node the loop failed to release. |
| `topo_cycle` | `MCTopoSortCycle.cfg` | violation | `AbstractSpec` (refinement of `TopoOrder`) | On a cycle the fallback emits nodes that are not ready and returns without error. |
| `gen_topo` | `MCGenTopoSort.cfg` | pass | `TypeOK`, `AbstractSpec` | `gen_lsp.topo_sort` implements `TopoOrder` on every map of 4 nodes, whatever the hash order. It raises exactly when the remaining nodes wait on each other. |
| `type_names` | `MCTypeNames.cfg` | pass | `TypeOK`, `NameMapInjective`, `RenamedOnlyOnCollision`, `Termination` | Over 4 definitions with any sanitized names, `build_name_map` is injective, renames only on a collision, and its while loop ends. |
| `member_names` | `MCMemberNames.cfg` | pass | `TypeOK`, `SuffixFreeMembersUnique`, `LiteralDefaultIsMember` | In every counted scope, member names are distinct when no base name carries a numeric suffix; the member `__init__` records for a closed-enum string, and `make_member` writes as a default, is one `emit_enum` declares for that string, even when strings repeat. |
| `member_names_dup` | `MCMemberNamesDup.cfg` | violation | `MemberNamesUnique` | Member names of one scope collide. TLC's shortest trace is a custom-value enum whose two values sanitize to `foo`; in the counted scopes `foo, foo, foo_2` give `foo, foo_2, foo_2`. |
| `flatten` | `MCFlatten.cfg` | pass | `TypeOK`, `AcyclicChainsFlattenExactly`, `Termination`, `CacheEntriesFinal` | For every parent map of 4 structures and every visiting order, the memoised list of a structure with an acyclic chain is its ancestors' fields, root first. A list stored in the cache is never replaced or dropped (an action property). The recursion always ends. |
| `flatten_twice` | `MCFlattenTwice.cfg` | violation | `FlattenDeterministic` | Two structures that extend each other are cached differently by two runs that visit `struct_names` in different orders. |
| `override` | `MCOverride.cfg` | pass | `TypeOK`, `OverrideSound` | An inherited field is dropped only for a local field that admits no value the parent's type rejects, and that is optional only where the parent's field was. |
| `override_spec` | `MCOverrideSpec.cfg` | violation | `SpecOverridesReplaced` | A child union `string\|integer` over a parent union `string\|integer\|boolean` is a safe override under spec.md 4.3, yet the code keeps both fields. |
| `render` | `MCRender.cfg` | pass | `TypeOK`, `RenderWidens`, `SelfReferenceIndirect`, `ByValueIsDependency` | Four properties of rendered member types. See below. |
| `render_self` | `MCRenderSelf.cfg` | violation | `NoInlineSelf` | A parent's field that refers to the child makes the child hold itself by value. |

What the four properties of `render` say:

- every member type accepts every value of its schema type;
- an optional variant is rendered `optional_variant<>`, never `optional<variant<>>`;
- a structure's own references go through `std::shared_ptr`;
- everything held by value is a dependency edge.

### Bounds and why they are enough

**`N = 4` declaration nodes** (all 4096 maps) contain:

- several roots;
- a node freed by two pops;
- diamonds;
- a cycle with a node behind it;
- two disjoint cycles.

**`K = 4` definitions over bases `{foo, bar}`** let a sanitized name equal a
later suffixed candidate (`foo`, `foo`, `foo_2`). They also let the loop retry
twice.

**`M = 4` members over 3 raw names and bases `{foo, bar}`** give the
counterexample `foo, foo, foo_2` and its permutations, repeated value strings
(for the "last occurrence wins" of the literal map), and distinct raw names
with equal bases. All four scopes are enumerated in one run.

**`S = 4` structures** (all parent maps) contain:

- chains of length 3;
- two- and three-cycles, with a structure hanging off a cycle;
- every visiting order.

`FlattenTwice` uses `S = 2`, which already shows the divergence.

**The override type pool** has 11 types. It covers:

- base kinds, including `integer` vs `uinteger`;
- string and integer literals;
- unions with and without null;
- arrays of a base and of a literal.

With up to one inherited and two local fields, this gives:

- a local field shadowed by a second of the same member name;
- both optionalities on each side.

**The render pool** has 9 types. It covers:

- references to the owner and to the parent;
- arrays;
- unions with duplicate renderings and with only nulls;
- a nested union.

Each run has two structures and up to two fields.

Every passing run takes between 1 s and 40 s. The mutants below show that each
bound is large enough for the property to bite.

### Mutants

Every property of a passing run is paired with a plausible bug in the modelled
code, and TLC finds that property violated. The mutants are:

- an off-by-one initial queue;
- a counter tested before it is decremented;
- a self-decrement;
- a fallback that appends every node;
- retries from the suffixed candidate, or stuck on one;
- an unrecorded assignment;
- a first candidate that is already suffixed;
- an uncounted or off-by-one member suffix;
- a closed-enum literal map that keeps the undeduplicated member;
- a missing stack guard;
- a memo that is not consulted on entry;
- own fields before inherited ones;
- an override check that ignores optionality;
- `uinteger` accepted as `integer`;
- a skipped inherited field;
- a dropped null branch;
- a missing `shared_ptr` for self references;
- a walker that skips literals;
- an optional wrapping a variant;
- a `topo_sort` that never raises, or that reverses edges.

`PROJECT.json` lists each one.

## Fairness

`GenTopoSort`, `TypeNames` and `Flatten` have liveness properties. Each uses weak
fairness on its whole next-state relation. `TopoSort` carries the same fairness,
because its refinement check against `TopoOrder` (run `topo_cycle`) compares two
specifications that both have it.

A running Python function keeps executing its next statement. Nothing in these
functions waits on anything outside them, so a step that stays enabled is
eventually taken.

The `Terminated`/`Done` steps are explicit stutters. They make the final state a
legitimate end of the function, not a deadlock.

## What is proved (TLAPS)

`TopoSortProofs` proves these theorems for every `N \in Nat \ {0}`:

| Theorem | Statement |
|---|---|
| `IInvHolds` | `Spec => []IInv` |
| `TypeCorrect` | `Spec => []TypeOK` |
| `DepsFirst` | `Spec => []DepsEmittedFirst` |
| `Permutation` | `Spec => []OutputIsPermutation` |
| `FallbackStuck` | `Spec => FallbackOnlyWhenStuck` (an action property) |

`TypeOK` includes that `indegree` never goes below zero.

`DepsEmittedFirst` is not inductive. It alone does not say why a node popped
from the deque is ready. The strengthening `IInv` (in `TopoSort.tla`) adds that,
during the loop:

- `reverse` is the reversed dependency map;
- the counter of every node not yet ordered equals the number of its
  dependencies not yet ordered (`CountersExact`);
- every queued node has all its dependencies ordered (`QueueReady`);
- the deque is duplicate-free and disjoint from the output.

The argument for `Pop` runs as follows:

1. The popped head is ready, so appending it keeps `DepsEmittedFirst`.
2. Decrementing exactly its dependents keeps `CountersExact`.
3. A dependent whose counter was 1 has no dependency left, so queuing it keeps
   `QueueReady`.

`IInv` was checked with TLC as an invariant before it was proved. The proof has:

- one lemma per action: `InitIInv`, `BuildIInv`, `PopIInv`, `ReturnIInv`,
  `StutterIInv`;
- lemmas on `Elems` of `Append`, `\o` and `Tail`, on `Distinct` of a
  concatenation, and on sorted sequences;
- a final step that combines them `BY PTL`.

`OutputIsPermutation` needs one more fact, that `ordered` never repeats a
node, so `Permutation` proves `[](IInv /\ PermInv)` with
`PermInv == Distinct(ordered) /\ OutputIsPermutation`. The argument:

- `Pop` keeps `ordered` duplicate-free because the deque is disjoint from it
  (a conjunct of `LoopInv`).
- `Finish`: a duplicate-free list of `N` nodes has `N` distinct elements
  (`DistinctCard`), so they are all of `Nodes` (`FS_Subset`).
- `Fallback` appends `sorted(Nodes \ Ordered)`, which lists each missing
  node once (`SortedSeqsElems`). The result is duplicate-free, has all of
  `Nodes` as its elements, and so has length `N`.

`PermInv` together with `IInv` was checked with TLC on `MCTopoSort` (15900
states) before it was proved.

`FallbackStuck` needs the converse of `QueueReady`. `CInv` says that during the
loop, every node not yet ordered whose dependencies are all ordered is in the
deque (`QueueComplete`). When the deque is empty, every node left over therefore
has a dependency left over. That is the body of `FallbackOnlyWhenStuck` on the
one step that can take `pc` from `"loop"` to `"done"` with nodes missing,
which is `Fallback`. `PopCInv` keeps `QueueComplete` for this reason: a node that
becomes ready when the head `h` is ordered had `h` as its only dependency left.
`CountersExact` then gives its counter as 1, so the pop queued it. The theorem
combines `IInv /\ CInv` with the step lemma `StuckStep` `BY PTL`. TLC finds the
property violated when a dependent's counter is tested before it is decremented
(mutant `PopTestBeforeDecrement`). That bug leaves ready nodes unreleased, and
the fallback would append them silently.

`TypeNamesProofs` proves, for every number `K` of definitions:

| Theorem | Statement |
|---|---|
| `NameInvHolds` | `Spec => []NameInv` |
| `NamesInjective` | `Spec => []NameMapInjective` |
| `RenamedOnCollision` | `Spec => []RenamedOnlyOnCollision` |
| `TypeCorrect` | `Spec => []TypeOK` |

`NameMapInjective` alone is not inductive: `Assign` appends the candidate, and
that is safe only because the while loop has just tested it against `used`.
`NameInv` adds that `used` is exactly the range of the names assigned so far
(line 201 adds each assigned name and nothing else), with the shapes of the
variables. Lemma `AppendFresh` says that appending a name outside the range
keeps a sequence injective.

`NameInv` also carries `ProbeInv`, what the while loop (197-199) knows:

- the candidate is the bare sanitized name when `suffix = 2`, and
  `WithSuffix(base, suffix - 1)` after that;
- every name tried before it is already in `used`.

So a renamed definition was renamed because its bare name was taken, which is
`RenamedOnlyOnCollision`. The bound `suffix <= K + 1` of `TypeOK` rests on the
lemma `RetryBound`. While the loop retries, the bare name and the suffixes
`2..suffix-1` are `suffix - 1` distinct names, all in `used`. `used` holds at
most the `cur - 1 < K` names assigned so far (`RangeBound`). An injection into
`used` (`FS_Injection`) therefore gives `suffix <= K`, and one more
increment stays within `K + 1`.

`MemberNamesProofs` proves, for every member count `M \in Nat \ {0}` and every
assignment of sanitized bases:

| Theorem | Statement |
|---|---|
| `MInvHolds` | `Spec => []MInv` |
| `TypeCorrect` | `Spec => []TypeOK` |
| `SuffixFreeUnique` | `Spec => []SuffixFreeMembersUnique` |
| `LiteralDefaults` | `Spec => []LiteralDefaultIsMember` |

The two properties speak of `out` and of the literal map, but what keeps them
true is the `Counter`. `MInv` states that, in the three counted loops,
`usedNames[n]` equals `Seen(n, Len(out))`, the number of members emitted so
far whose base is `n`. Consequently the `i`-th member emitted is
`LiteralMember(i)`, the name `Generator.__init__` (575-592) computes for value
index `i`. In the custom-value loop `usedNames` stays zero and `out[i]` is the
bare base. The literal map is `LiteralMember` of each string's last
occurrence, because line 590 overwrites earlier ones.

The argument has three parts:

- `SeenStep` says one emitted member increments the count of its own base
  only. `CountedStepMInv` uses it for the three counted loops at once, since
  they share the step `CountedStep`.
- `LiteralMemberInjective`: when every base is bare, two indices `i < j` get
  different names. If their bases differ, a bare name and a suffixed one
  differ in length. If the bases agree, `Seen(b, i - 1) < Seen(b, j - 1)`
  (by `SeenStep` and `SeenMono`), so the suffixes differ and the later one is
  never bare.
- `LastExists`: every string has a last occurrence. It is the least element
  of `{M - i : raw[i] = t}`, which exists by `WFMin` and the
  well-foundedness of `<` on `Nat`, so no induction is needed. Its member
  is `out[Last(t)]` once the loop is done.

`MInv` was checked with TLC on the `member_names` instance (129600 states)
before it was proved.

`GenTopoSortProofs` proves, for every `N \in Nat \ {0}`:

| Theorem | Statement |
|---|---|
| `GInvHolds` | `Spec => []GInv` |
| `TypeCorrect` | `Spec => []TypeOK` |
| `Refinement` | `Spec => Abstract!Init /\ [][Abstract!Next]_Abstract!vars` |

`Refinement` is the safety part of `AbstractSpec`, which the run `gen_topo`
checks with its fairness. Every step of `topo_sort` is a step of `TopoOrder`:

- `Pop` is `Emit(n)` of the top of the stack;
- `Return` is `Finish`;
- `Raise` is `FailCyclic`.

The invariant `GInv` is what makes these steps legal. During the loop:

- `in_deg[n]` equals the number of dependencies of `n` not yet in `order`
  (`CountersExact`);
- every stacked node is ready and not yet emitted (`StackReady`);
- every ready unemitted node is on the stack (`StackComplete`), so an empty
  stack means no node is ready, which is what `FailCyclic` requires;
- `order` is closed under dependencies and duplicate-free, so
  `Cardinality(Elems(order)) = Len(order)`, and `Len(order) = N` means every
  node is out, which is what `Finish` requires.

`FlattenProofs` proves, for every number `S \in Nat \ {0}` of structures and
every parent map, cyclic ones included:

| Theorem | Statement |
|---|---|
| `FInvHolds` | `Spec => []FInv` |
| `TypeCorrect` | `Spec => []TypeOK` |
| `CacheFinal` | `Spec => CacheEntriesFinal`, the action property `[][\A s \in DOMAIN cache : s \in DOMAIN cache' /\ cache'[s] = cache[s]]_vars` |

The interesting conjunct of `TypeOK` is `Len(frames) <= S`: the recursion
never goes deeper than the number of structures, whatever the cycles. It is
not inductive alone. `FInv` adds `FramesDistinct(frames)`: no structure has
two frames. The argument:

- `Enter` (lines 635-643) pushes a frame only for a structure that is neither
  cached nor in `stack`. `CallParent` changes only the phase of the top
  frame, so `stack` is the same set. `Return` pops the top frame.
  `EnterFacts` proves the three cases once, for `Visit` and `CallParent`.
- `StackBound`: a stack of distinct structures maps its places injectively
  into `Structs`, so `FS_Injection` bounds its length by `S`.

`FInv` was checked with TLC on `MCFlatten` before it was proved.

`CacheFinal` says that `flattened_property_cache` (line 656) is write-once.
A partial list cached while the stack guard cut a cycle short is therefore
what every later caller reads. Only `Return` writes the cache, and it writes
at the key of the popped frame. The step proof needs the invariant
`StackUncached`: no structure that has a frame is in `DOMAIN cache`. It holds
for three reasons:

- `Enter` pushes only uncached structures (`EnterUncachedFacts`).
- `CallParent` leaves the cache unchanged.
- `Return` caches the top structure, which `FramesDistinct` shows has just
  left the stack.

`UncachedStep` proves that `FInv /\ StackUncached` is preserved.
`CacheKeptStep` then shows that every step keeps each existing entry, and
PTL combines the two.

## What is only model-checked

Some things are beyond the prover:

- **Liveness** (`Termination`, and the liveness part of `AbstractSpec`) uses
  fairness and `ENABLED`, so it stays with TLC. `TopoSort`'s refinement fails
  on cycles, so there is nothing to prove there.
- **Recursive modules.** `Subtype`, `Override` and `Render` reach RECURSIVE
  operators. TLAPS's SMT backend is unavailable in modules that reach one.
- **Recursive data.** `Flatten`'s `AcyclicChainsFlattenExactly` compares the
  cache with `Chain(s)`, built from the recursive function `Anc`. Proving it
  for every `S` would need induction along the parent chain. The library's
  induction theorems take an operator parameter that the installed provers
  cannot instantiate. It stays with TLC, as does `FlattenTwice`'s
  `FlattenDeterministic`.

## Findings

1. **Cycle fallback** (`lsp_codegen.py:395`, run `topo_cycle`).
   - On a dependency cycle `topological_order` appends the remaining nodes in
     sorted order and returns.
   - spec.md 4.2/7/9 require a fatal `CyclicDependency`.
   - `gen_lsp.topo_sort` does raise.
2. **Member-name collision** (`lsp_codegen.py:968`, run `member_names_dup`).
   - The suffix `f"{base}_{index+1}"` is never tested against names already
     used.
   - Members `foo, foo, foo_2` produce the C++ member `foo_2` twice. The
     inline enum copies give `A, A2, A2` for the values `a, a, a2`.
3. **Custom-value enum members without dedupe** (`lsp_codegen.py:1110`, run
   `member_names_dup`).
   - A string enumeration with `supportsCustomValues` names each static member
     `sanitize_identifier(camel_to_snake(value.name))`, with no Counter.
   - Two value names that sanitize alike (`foo`, `Foo`) give two `foo`
     members, a C++ redefinition. spec.md 3 requires unique member names.
   - This is the trace TLC reports first.
4. **Nondeterministic flattening on inheritance cycles** (`lsp_codegen.py:643`
   and `656`, run `flatten_twice`).
   - The truncated list that the recursion guard causes is cached.
   - Which structure gets the truncated list depends on the hash order of
     `struct_names`, against the determinism of spec.md 5.
5. **Union narrowing rejected** (`lsp_codegen.py:741`, run `override_spec`).
   - `is_type_subtype` checks a union parent before a union child, so a union
     that narrows a parent union is judged unsafe.
   - spec.md 4.3 makes it a safe override.
   - The code differs from the spec in the other direction too: it requires
     every branch of a child union, null included, to fit the parent. That is
     the semantically sound side, and `OverrideSound` confirms it.
6. **Inherited self reference by value** (`lsp_codegen.py:840`, run
   `render_self`).
   - An inherited field is rendered with `current_struct` set to its declaring
     parent. A parent field of the child's type is therefore stored by value in
     the child.
   - Line 676 drops the self edge that would have exposed it.

## Not modelled

- **`gen_lsp`'s `TypeRenderer.render` and `collect_literal_types`.** These are
  the literal cache keyed by `json.dumps(sort_keys=True)`.
- **Parts of the renderer:**
  - object-literal property walking;
  - aliases;
  - references to closed enumerations in the render pools;
  - the unsupported-kind error.
- **I/O and formatting**, which spec.md 1 places outside the core:
  - schema parsing;
  - documentation formatting;
  - header and file emission;
  - the CLI and network fetch.
