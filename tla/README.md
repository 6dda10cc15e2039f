# TLA+ verification of the ISL `HashSet` and its neighbours

This directory holds TLA+ models of the parts of the Interactive Smartlog (ISL)
front-end in `src/`. It has TLC configurations that model-check them on
small instances, and TLAPS proofs of their invariants for every value of
the constants.

## 1. Inventory

| Component | Source | State it keeps | Modules | Status |
|---|---|---|---|---|
| **HashSet** | `src/addons/isl/src/dag/set.ts` | An immutable value. What changes is the callers' variables holding HashSets. | `HashSetTypes`, `HashSet`, `HashSetSpec`, `HashSetProofs`, `MC_HashSet` | modelled |
| **Feature flags** | `src/addons/isl/src/featureFlags.ts` | A weak per-name atom cache of fetch promises. The fetches awaiting `nextMessageMatching`. | `FeatureFlagTypes`, `FeatureFlags`, `FeatureFlagSpec`, `FeatureFlagsProofs`, `FeatureFlagsRefinement`, `MC_FeatureFlags` | modelled |
| **Smart actions dropdown** | `src/addons/isl/src/smartActions/SmartActionsDropdown.tsx` | The bulk-flag atom, the `selectedAction` state, what the last render showed, and the open context menu. | `SmartActions`, `SmartActionsProofs`, `MC_SmartActions` | modelled |
| **Cwd selector** | `src/addons/isl/src/CwdSelector.tsx` | The `availableCwds` atom. It reads `serverCwd`, `repositoryInfo` and `submodulesByRoot`. | `CwdPaths`, `MC_CwdPaths`, `CwdPathsProofs`, `CwdSelector`, `MC_CwdSelector`, `CwdSelectorProofs` | partly: the display label helpers are left out |
| verifyInternal script | `src/addons/scripts/verifyInternal.ts` | none | none | not modelled: no state, and a no-op in the open-source build |

**How they interact.** `HashSet` is a pure value type that the DAG code
combines for rendering. `SmartActionsDropdown` calls `bulkFetchFeatureFlags`
and `useFeatureFlagSync` from `featureFlags.ts`. So `SmartActions` EXTENDS
`FeatureFlags` and drives its actions: the two components share the same
atoms, fetches and channel. `CwdSelector` posts `changeCwd` and
subscription messages, and reads atoms the server's messages write.

All asynchrony is in two places:
- the messages of `serverAPI` (`postMessage`, `nextMessageMatching`,
  `onMessageOfType`);
- React's cycle of render, commit and passive effect.

The models make both explicit:
- a message is in flight until a server step handles it;
- a render records what it showed, and the handlers act on that record,
  not on the current atoms.

Each hazard these models aim at is listed at its line, with the properties
that catch it, under `"hazards"` in `PROJECT.json`.

## 2. Conventions

- One module per component, parameterised by CONSTANTS with named ASSUMEs.
  An `MC_` module gives the constants values for TLC.
- A mutant of a mapped definition sits just before it, marked
  `(* Mutant: ... *)`. It is the plausible bug used to show that a property
  can fail (`"mutants"` in `PROJECT.json`). No specification uses it.
- Definitions keep the source's names. `"map"` in `PROJECT.json` gives the
  lines each one translates. Where the code is outside `src/` (the server,
  `serverAPI`, `atomFamilyWeak`, `smartActionsOrdering`, the context
  menu), the definition is modelled from its uses and marked
  `spec_modelled`.

## 3. The HashSet model

### Modules

- `HashSetTypes`: the constants and the value domains both levels share.
  - `Hash` is the set of hashes. A hash is a string written as its sequence
    of UTF-16 code units. This lets iterating over a string (one-character
    strings) and the default string comparison of `Array.prototype.sort`
    be modelled by what they do.
  - `Reg` is the set of caller variables holding HashSets.
  - `MaxIter` bounds the length of a `SetLike` argument.
  - `SetLike` (set.ts line 112) is a tagged record `[kind, val]`. Its kinds
    are `null`, `hash`, `hashSet`, `orderedSet`, `iterable` (duplicates
    allowed) and `imSet` (an unordered Immutable Set: `val` is its
    iteration order, so every order is a possible input).
- `HashSet` is the detailed model. Its variables:
  - `reg[r]`: the iteration order of the ImSet inside the HashSet in
    variable `r`;
  - `call`: the method call in progress;
  - `pc`, `items`, `i`, `conv`, `acc`: the loop state of the call.

  Each method call takes these steps:
  1. `CallFromHashes`, `CallUnion`, `CallIntersect`, `CallSubtract` or
     `CallReverse` binds the receiver and the argument, and starts
     `HashSet.fromHashes(other)`. `Wrapped`/`Pending` follow the branches
     of lines 23-35: `null`, `HashSet`, `string`, `OrderedSet`, other
     iterable.
  2. The loops Immutable.js runs for the call, one step per item:
     - `ConvertStep` adds the next item of an iterable (`ImSet(hashes)`:
       a repeat keeps its first place);
     - `UnionStep` adds the other set's next hash to this set;
     - `IntersectStep` and `SubtractStep` keep or drop this set's next
       hash.
  3. `FromHashesReturn` / `ApplyReturn` / `ReverseReturn` wraps the result
     in `new HashSet(...)` and stores it in the destination variable.

  Only the steps of the running call are enabled, so every call is atomic
  to its caller, as the synchronous code is. The loop steps exist so that
  the invariants can be proved by induction on steps, without induction
  over data. The read-only views are operators: `ToArray`, `Size`,
  `ContainsHash` and `ToSortedArray` (with `LexLess`, the default string
  order). `arrayFromHashes` is left out: it is a pure function that repeats
  `fromHashes`' branches on its argument, which a unit test reaches.
- `HashSetSpec` is the contract from the doc comments of set.ts and
  spec.md §4.1. A call is `Invoke` followed by one atomic `Return`, and the
  result is given declaratively:
  - `union`: `self \o SelectSeq(other, new)`;
  - `intersect` / `subtract`: `SelectSeq(self, ...)`;
  - `reverse`: `Reverse(self)`;
  - `fromHashes` of an array: `FirstOccurrences` (first occurrence wins).

  `Return` uses the argument recorded by `Invoke`, so a refinement cannot
  answer a call with the result some other argument would give.

### Runs

| Run | Checks | Shows |
|---|---|---|
| `hashset_contracts` (`MC_HashSet.cfg`) | `TypeOK`, `Uniqueness`, `ImplementsContract` (`HashSetSpec!Spec` via `INSTANCE`) | Every sequence of calls with every kind of argument returns what the contracts promise and never lists a hash twice. 296,509 distinct states, depth 20. |

**Bounds.** `Hash = {"ab", "ba", "b"}`: two two-character hashes and a
one-character one. Splitting a hash by mistake therefore yields a string that
is not a hash ("a") as well as one that is ("b"), and `LexLess` sees both a
prefix case and a differing-unit case. `Reg = {r1, r2}` under symmetry: two
variables are enough for a call whose receiver and argument are different
held sets, and for one whose result overwrites its own receiver.
`MaxIter = 2` allows an array with a repeat and an ordered set of two. Unions
then build sets of all three hashes, so each loop runs over 0 to 3 items.

Each property has a mutant that breaks it (`PROJECT.json` `"mutants"`):

- a missing string test (`PendingSplitsString`) breaks `TypeOK`;
- `add` without its membership test (`ImAddNoCheck`) breaks `Uniqueness`;
- `add` that moves an existing hash last (`ImAddMoveToEnd`) breaks
  `ImplementsContract` only.

No fairness is assumed. The HashSet properties are all safety properties, and
a caller may stop calling at any time.

### Proofs (`HashSetProofs`, checked by `tlapm`)

- `TypeCorrect`: `Spec => []TypeOK`.
- `UniquenessInvariant`: `Spec => []Uniqueness`. No held set lists a hash
  twice, for every `Hash`, `Reg` and `MaxIter`.

Assumptions: `Hash \subseteq Seq(Nat)`, `Reg # {}`, `MaxIter \in Nat`.

Both theorems rest on the inductive invariant `IInv`. It strengthens
`Uniqueness` because a `Return` stores `conv` or `acc`, so these must be
free of repeats as well. `union` starts `acc` from the receiver
(`call.self`), so that must be repeat-free too. And an intersect/subtract step
appends the receiver's `i`-th hash, so `AccFromPrefix` requires `acc` to hold
only hashes the receiver lists before position `i`. TLC checked `IInv` on the
`MC_HashSet` instance before it was proved.

The step proof has one case per action, and the lemmas it cites are:
- `AppendFresh`, `ImAddInjective` and `ReverseInjective`: these operations
  keep a sequence injective;
- `ToSetAppend` and `BoundedSeqIsSeq`;
- `InputsTyped`: every argument is well typed, and what `fromHashes` wraps
  at once is repeat-free;
- `NoCallTyped`.

### What stays with TLC

- `ImplementsContract`. Its statement uses
  `SelectSeq` and `FirstOccurrences`, which are defined by recursion over a
  sequence. The installed provers cannot instantiate the induction needed to
  reason about what such a recursive definition computes, so these
  properties are model-checked only.
- Liveness, whenever a later module states it. It is out of the prover's
  reach.

### Not modelled in HashSet

- Structural sharing and the Immutable.js internals (hash tries, the list
  holes `remove` leaves). Only the iteration order they produce is
  modelled, as the contract of the ordered-set primitive (spec.md §6).
- `toSortedArray` assumes the hashes compare as strings of code units. No
  property is stated about it: its correctness would only restate
  `SortSeq`.

## 4. Feature flags

### Modules

- `FeatureFlagTypes` declares the constants:
  - `Names`: the flag names;
  - `NullName`: the `undefined` name of the open-source build;
  - `FlagValue`: the server's answer per kind and name;
  - `MaxFetches`: the bound on fetches.

  It also defines `ServerResult`, what the server replies.
- `FeatureFlags` is the client. Its variables:
  - `cache[k][n]`: the weak atom families `featureFlagAsync`
    (`k = "feature"`) and `qeFlagAsync` (`"qe"`). An entry is no atom, the
    open-source `Promise.resolve(false)`, or the promise of fetch `fid`;
  - `fetches`: every fetch started, with its kind, names, whether it
    still awaits `nextMessageMatching`, and its result;
  - `toServer`, `fromServer`: the channel, as sets, so messages can
    arrive in any order.

  The actions:
  - `ReadFlag`: a read that creates the atom, with the fetch function's
    body up to its `await` (`StartFetch`);
  - `BulkFetch`;
  - `Evict`: `atomFamilyWeak` forgetting an atom;
  - `ServerAnswer`;
  - `Deliver`: every waiting listener whose predicate (`Matches`: the
    type, then the name or the bulk id) accepts the reply resolves.

  serverAPI's socket is outside src. The model takes it to deliver every
  message, so a message lost by the socket is not modelled.

  A bulk id is the fetch's own number. This models `randomId` as never
  repeating.
- `FeatureFlagSpec` is the promise of the flag cache, with the channel
  hidden:
  - a flag is absent, loading, or has data;
  - loading settles to the server's value;
  - an atom may be forgotten;
  - a bulk request settles to the server's values.

  `FeatureFlags` maps the client onto it with `INSTANCE ... WITH`:
  - `loadableBar[k][n]` is `featureFlagLoadable` of the flag: absent
    without an atom, the data of a settled fetch, loading otherwise;
  - `bulkBar` is the bulk fetches, numbered by their position in
    `fetches`.

  The run checks `ImplementsFeatureFlagSpec` (`Abstract!FairSpec`) as a
  PROPERTY; the theorem `Refinement` proves its safety part,
  `ImplementsFeatureFlagSafety` (`Abstract!Spec`).
  `MC_FeatureFlags` only gives the constants their values.

### Fairness

`Spec` has weak fairness on the server handling a request (`ServerStep`)
and on the client's message handler (`ClientStep`). The server answers
every request it gets, and the socket's `onmessage` handler runs for every
message that arrives. Reads, bulk fetches and evictions are the user's and
the garbage collector's, so they owe nothing.

### Runs

| Run | Checks | Shows |
|---|---|---|
| `feature_flags` | `TypeOK`, `AnswerMatchesRequest`, `EveryFetchReturns`, `ImplementsFeatureFlagSpec` | Concurrent single, QE and bulk fetches, including two fetches of one name after an eviction, each return the server's value for their own request. Every fetch returns. The client refines the flag-cache promise, with its liveness. About 119,000 states. |

**Bounds.** Two names whose values differ by name and by kind, so a reply
taken for the wrong request shows as a wrong value. `MaxFetches = 3`: enough
for a single fetch, a QE fetch of the same name and a bulk fetch to be in
flight together, or for a second fetch after an eviction.

### Proofs (`FeatureFlagsProofs`, `FeatureFlagsRefinement`)

`AnswersMatchRequests` proves `Spec => []AnswerMatchesRequest` for every
value of the constants. `AnswerMatchesRequest` is not inductive on its own:
a `Deliver` step can copy any reply in `fromServer` into a fetch. The
inductive invariant `Inv` adds two conjuncts:
- `RepliesCorrect`: every reply in flight carries the server's result for
  its own kind and names;
- `BulkIdsKnown`: a bulk message's id names a bulk fetch with the same
  names.

Together they make "the reply matched this fetch" imply "the reply is this
fetch's answer". There is one lemma per action. `FlagsTypeCorrect`
proves `Spec => []TypeOK` from the same `Inv`.

`Refinement` (in `FeatureFlagsRefinement`) proves
`Spec => ImplementsFeatureFlagSafety`: every step of the client, with
reordered messages, is a step of `FeatureFlagSpec` or a stutter under
the mapping. `Inv` is not enough for this. The mapping reads
`fetches[cache[k][n].fid]`, so the proof also needs `CacheRefs`: every atom
is either none, the `undefined` name's resolved promise, or the promise of
an existing fetch of the same kind for exactly that one name.
`RefInv == Inv /\ CacheRefs` is inductive. The proof then has four parts:
- `Init` maps to `Abstract!Init`;
- `ReadFlag` maps to `Load`, and `Evict` to `Forget`;
- `BulkFetch` maps to `BulkStart` of its position;
- `Deliver` settles the flags whose atom holds a fetch the reply matches,
  and the bulk fetch it answers (`Settle`, `BulkSettle`). Every other step
  is a stutter.

The case a reader might doubt is a delivery that resolves a fetch no atom
holds any more (after an eviction). It changes nothing abstract, so it is
a stutter. `BulkStart` and `BulkSettle` in `FeatureFlagSpec` are
written with plain function constructors rather than `:>` and `@@`, which
the prover cannot expand.

## 5. Smart actions dropdown

### Module

`SmartActions` EXTENDS `FeatureFlags`. Its constants:
- `ActionOrder`: the config order;
- `ShouldShow`: per action, the contexts where its platform restriction
  and `shouldShow` pass;
- `Gate`: no flag, a key that `Internal.featureFlags` does not map, or the
  flag name;
- `MenuFlag`;
- `ShowSmartActions`: `Internal.showSmartActions`. It is undefined, so
  false, in the open-source build, whose `Internal` is empty; then the
  component renders nothing (line 134). The runs set it to `TRUE`, the
  build that shows the dropdown;
- `MaxUses`: the cap on usage counts.

The actions:
- `ReadFlagsAtom`: `smartActionFeatureFlagsAtom`'s body. It calls
  `BulkFetch` with the mapped flag names, or resolves `{}` when there are
  none;
- `ReadMenuFlag`: `useFeatureFlagSync(SmartActionsMenu)`;
- `FlagServerStep`, `FlagClientStep`;
- `Render`: reads the atoms, computes `AvailableActionItems` and
  `SortedActions`, and records what it showed. It schedules the effect
  when the memo's dependencies changed;
- `SelectionEffect`: `setSelectedAction(sortedActionItems[0])`;
- `OpenMenu`, `PickMenuItem`, `CloseMenu`: the context menu, built from the
  rendered list when it opens;
- `ClickAction`: with one action, runs it; otherwise runs the selected one
  and bumps its usage;
- `ChangeContext`.

Render waits for pending effects, as React flushes passive effects before
rendering again. The handlers act on what the last render showed.

**The list.** `availableActionItems` walks `smartActionsConfig` in order
and keeps the configs that should show. `AvailableActionItems` is that set;
its order is the config order, `ConfigIndex`. `useSortedActions` sorts it
stably, most used first. `Precedes(u, a, b)` is that order under the
counts `u`, and `SortedActions` puts at position `k` the item that `k - 1`
items precede (`Rank`). This is the list a stable sort of the filtered
array gives. TLC confirmed that it equals `SortSeq` applied to the
`SelectSeq` filter in every reachable state of both runs. Unlike those
library operators, it can be reasoned about without induction.

**Fairness.** These are weakly fair:
- the atom and flag reads of the mount;
- the server and the message handler;
- `Render` and `SelectionEffect`: React renders and runs effects once they
  are due.

The user (menu, clicks) and the context owe nothing.

### Runs

| Run | Checks | Shows |
|---|---|---|
| `smart_actions` | `UITypeOK`, `RunsOnlyEnabledActions`, `EnabledMenuShows` | A click only runs actions the server has enabled, even though the component renders before the bulk reply. In a build with `Internal.showSmartActions`, once the server enables the menu and every context has an enabled action, the dropdown is eventually shown for good, whatever the user does. |
| `smart_actions_stale_selection` (violation) | `RunsAvailableAction` | A context change renders the new list with the old selection. A click before the effect and the next render runs the old action with the new context. A pick from a menu left open across a context change does the same with no window at all. Recorded as a `code_bug` finding. |

**Bounds.** Four actions cover the gate kinds: no flag, an enabled flag, a
disabled flag, and an unmapped key. There are two contexts, one of which
hides an action. `MaxUses = 1`, so a single bump can re-sort the list. The
stale run uses three actions, each shown in a different set of contexts.

### Proofs (`SmartActionsProofs`)

- `UITypeCorrect`: `UISpec => []UITypeOK`.
- `ClicksRunEnabledActions`: `UISpec => []RunsOnlyEnabledActions`.

Both rest on the inductive invariant `UIInv`, which TLC checked on
both runs before it was proved. `RunsOnlyEnabledActions` alone is not
inductive, because a click runs what an earlier render showed. `UIInv`
therefore says:
- `Inv /\ CacheRefs` (`RefInv` of the flag client);
- `AtomInv`: the fetch the flags atom waits on is a bulk fetch for exactly
  `FlagNames`, and a ready atom means there are no flag names;
- `ViewInv`: the rendered list, the open menu, the selected action and the
  rendered selection hold only actions whose gate is open on the server.
  A rendered `menuEnabled` means the server has the menu flag on.

The step cases:
- A `Render` keeps `ViewInv`:
  - an action passes its flag only if the bulk reply has the server's
    value for it (`PassesFlagOpen`, from `AnswerMatchesRequest`);
  - `useFeatureFlagSync` is true only if the menu flag's fetch asked for
    that flag alone (`MenuSyncOnServer`, from `CacheRefs`).
- Every step of the dropdown is a step of the flag client or leaves it
  unchanged (`UIStepIsFlagStep`). So `NextInv` and `NextCacheRefs` of the
  flag-client proofs carry `Inv` and `CacheRefs` over.
- The flag client never shortens the fetch list, nor changes what an
  earlier fetch asked for (`FetchesKept`). So `AtomInv` survives.
- A render's list holds only available actions: the lemmas on `Rank`
  (`RankType`, `RankInjective`, `RankOnto`, resting on `PrecedesOrder`
  and `FS_Injection`) give `SortedActionsType`, that position `k` holds an
  item of rank `k`, and so an item of the set.

## 6. Cwd selector

### Modules

- `CwdPaths` holds `relativePath` and `joinPaths`. A path is a sequence of
  one-character strings, and `String.replace` with a string pattern is
  `ReplaceFirstSubSeq` of SequencesExt. The replace is unanchored and not
  global. `MC_CwdPaths` checks the helpers on every absolute path of up to
  6 characters over `{/, a, b}`. Each state is one call.
- `CwdSelector` has these variables:
  - `serverCwd`, `available`: the atoms;
  - `toServer`: the posted messages, a FIFO sequence. The server handles
    them in order, and its answers come back in order, so a handled
    message updates the atom at once. The order and the handling of
    `changeCwd` are the server's and the socket's, outside `src`: they
    are the environment `ServerHandle` assumes, not code it checks. Only
    its `platform/availableCwds` branch translates `src` (lines 96-102);
  - `rendered`: what the last render read. `ViewOf(cwd, avail)` is the
    render for given atoms, and `View` is that of the current ones. The
    dropdown's `filter(opt => opt.valid)` is `ValidOnly`, which restricts
    the options to their valid positions. That keeps the same options, in
    the same order and number, and `Cardinality(DOMAIN ...)` is the
    filtered list's `length`;
  - `dirty`;
  - `lastSent`: a history variable.

  The actions:
  - `DropdownPick`, `RadioPick`, `SubmodulePick`: the three handlers, with
    the guards of lines 165, 191, 289, 313, 317 and 203;
  - `ChangeCwd`;
  - `Reconnect`: `onConnectOrReconnect` subscribing again;
  - `ServerHandle`;
  - `Render`.

  The constants give, for each path:
  - its repository root;
  - the listed options;
  - each repository's submodules.

  The ASSUMEs tie these together: an option's `repoRoot` is the path's
  repository, and an active submodule is a repository.

**Fairness.** `ServerHandle` and `Render` are weakly fair. The user and the
connection owe nothing.

### Runs

| Run | Checks | Shows |
|---|---|---|
| `cwd_paths` | `RelativePathIsRest` | For a cwd inside its root, the unanchored `replace` removes the leading root even when the root occurs again later in the path. |
| `cwd_paths_join` (violation) | `RelativeInvertsJoin` | `relativePath(root, joinPaths(root, rel))` is `/rel`, not `rel`: the separator stays. The doc comment's example promises `'user'`. The submodule selector compares this value with the submodule paths (lines 201 and 203). If those are repo-relative paths without a leading separator, as the type `RepoRelativePath` suggests, they never match it. Recorded as a `spec_code_divergence`. |
| `cwd_selector` | `CwdTypeOK`, `ChangesOnlyToRepos`, `LastChoiceWins` | The dropdown's filter, the radio's disabled options and the submodule filter together never ask for a path that is not a repository. With up to three messages in flight, the server ends in the cwd of the last `changeCwd` sent, whatever the stale-render comparisons let through. A pick that the early return of line 317 swallows is never sent, so this property does not see it (see section 8). 873 states. |

**Bounds.** The instance has:
- a repository `/r`, with an active submodule `s` that is its own
  repository and an inactive one `t`;
- a second repository `/p`;
- a listed path `/q` that is no repository.

So every handler has a valid and an invalid target. The dropdown shows in
`/p` and `/r/s` (no submodules), and the submodule selector shows in `/r`.
`MaxPending = 3` allows two picks and a resubscription in flight together.

### Proofs (`CwdPathsProofs`, `CwdSelectorProofs`)

- `RelativePathRest` proves `Spec => []RelativePathIsRest`, from the lemma
  `RelativePathOfPrefix`, which holds for sequences of any length over any
  alphabet. The argument is in `FirstOccurrenceOfPrefix`. If `root` is a
  prefix of `path`, no prefix of `path` shorter than `root` contains `root`
  (its subsequences are too short). So the `CHOOSE` of `IndexFirstSubSeq`
  has the single witness `Len(root)`, the first occurrence starts at 1, and
  `ReplaceSubSeqAt` leaves the rest after `root`.
- `RelativeOfJoin` states for every root and relative path what the
  `cwd_paths_join` violation shows on small ones:
  `relativePath(root, joinPaths(root, rel))` is `rel` when `root` ends
  with `/`, and `/` followed by `rel` otherwise.
- `CwdTypeCorrect` and `OnlyRepos` prove `CwdTypeOK` and
  `ChangesOnlyToRepos` under the module's ASSUMEs. `ChangesOnlyToRepos` is not inductive: a handler
  posts what the last render offered, and that render may be stale. The
  inductive invariant `IInv` adds `rendered \in Views`: whatever was
  rendered is `ViewOf(c, a)` for some listed cwd `c`, with `available`
  either empty or the server's list. `ViewOffersRepos` shows that such a
  view offers only repositories in each of its three pickers.

## 7. What is proved and what is only model-checked

| Theorem | Module | Statement |
|---|---|---|
| `TypeCorrect` | `HashSetProofs` | `Spec => []TypeOK` |
| `UniquenessInvariant` | `HashSetProofs` | `Spec => []Uniqueness` |
| `AnswersMatchRequests` | `FeatureFlagsProofs` | `Spec => []AnswerMatchesRequest` |
| `FlagsTypeCorrect` | `FeatureFlagsProofs` | `Spec => []TypeOK` |
| `Refinement` | `FeatureFlagsRefinement` | `Spec => ImplementsFeatureFlagSafety` (step refinement of `FeatureFlagSpec`) |
| `RelativePathRest` | `CwdPathsProofs` | `Spec => []RelativePathIsRest`, from a lemma for all sequences |
| `RelativeOfJoin` | `CwdPathsProofs` | what `relativePath` returns for a joined path, for all sequences |
| `CwdTypeCorrect` | `CwdSelectorProofs` | `CwdSpec => []CwdTypeOK` |
| `OnlyRepos` | `CwdSelectorProofs` | `CwdSpec => []ChangesOnlyToRepos` |
| `UITypeCorrect` | `SmartActionsProofs` | `UISpec => []UITypeOK` |
| `ClicksRunEnabledActions` | `SmartActionsProofs` | `UISpec => []RunsOnlyEnabledActions` |

Each proof holds for every value of the constants that satisfies the ASSUMEs
of its module. `MC_` modules evaluate the same ASSUMEs on the instances TLC
checks.

TLC alone checks:
- every liveness property: `EveryFetchReturns`, `EnabledMenuShows`,
  `LastChoiceWins`, and the fair refinement `ImplementsFeatureFlagSpec`.
  Liveness and `ENABLED` are out of the prover's reach;
- `ImplementsContract` (the refinement of `HashSet` to `HashSetSpec`). It
  compares the implementation with
  `HashSetSpec`'s reference definitions: `FirstOccurrences` and the
  `SelectSeq` filters of `union`, `intersect` and `subtract`. Saying what
  those compute needs induction over the sequence, and the installed
  provers cannot instantiate the library's induction theorems. The smart
  actions dropdown avoids this. Its filter is a set and its sort is by rank
  (section 5), neither recursive, and the cwd selector's `ValidOnly` is a
  restriction.

## 8. Not modelled

- `verifyInternal.ts`: one awaited optional hook and no state.
- `getRepoLabel`, `maybeTrim`, `guessPathSep` and `basename` build the
  cwd label; no property is about the text shown. Also left out:
  `CwdDetails`, `SubmoduleHint`, tooltips and styling.
- `serverAPI.cwdChanged()`: its effect lives outside `src`.
- A rejected bulk flag fetch, and a message lost by the socket. `serverAPI`
  is outside `src`, so there is no modelled error path, and the channel
  delivers every message. What a lost reply would do (leave its fetch
  waiting for ever: the `await` of `featureFlags.ts` 67 has no timeout) is
  reached in the model only through client-side causes, which
  `EveryFetchReturns` catches: a request never posted, or a predicate that
  rejects its own reply.
- A pick back to the cwd still shown while an earlier `changeCwd` is in
  flight. The handlers' early return (`CwdSelector.tsx` 317, "nothing to
  change") compares with the stale render, so such a pick would be dropped
  and the server would still move to the earlier pick. The widgets that
  emit picks (`ButtonDropdown`, `RadioGroup`) are outside `src` and show
  that cwd as selected, so the model has no event for picking it again.
- `useSortedActions` and `bumpSmartAction` (in `smartActionsOrdering`,
  outside `src`). They are modelled as most-used first, ties in config
  order, with a saturating count.
- The analytics call of `runSmartAction`, and the positioning arithmetic
  of the menu button.
