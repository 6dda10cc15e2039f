------------------------- MODULE SmartActionsProofs -------------------------
(***************************************************************************)
(* Proofs about the smart actions dropdown composed with the feature-flag *)
(* client, for every action config, every set of contexts and flags, and  *)
(* every bound: the component's state keeps its types, and a click only   *)
(* runs an action the server enabled.                                      *)
(***************************************************************************)
EXTENDS SmartActions, FeatureFlagsRefinement, FiniteSetTheorems, TLAPS

-----------------------------------------------------------------------------
(***************************************************************************)
(* The order useSortedActions sorts by.                                    *)
(***************************************************************************)

\* Every config has its place in smartActionsConfig.
LEMMA ConfigIndexType ==
  ASSUME NEW a \in Actions
  PROVE  /\ ConfigIndex(a) \in 1..Len(ActionOrder)
         /\ ActionOrder[ConfigIndex(a)] = a
<1>1. DOMAIN ActionOrder = 1..Len(ActionOrder)
  BY ActionOrderAssumption
<1>2. \E i \in DOMAIN ActionOrder : ActionOrder[i] = a
  BY DEF Actions, ToSet
<1>3. QED
  BY <1>1, <1>2 DEF ConfigIndex

\* Under any usage counts, Precedes is a strict total order on the configs.
LEMMA PrecedesOrder ==
  ASSUME NEW u \in [Actions -> Nat]
  PROVE  /\ \A a \in Actions : ~Precedes(u, a, a)
         /\ \A a, b, c \in Actions :
              Precedes(u, a, b) /\ Precedes(u, b, c) => Precedes(u, a, c)
         /\ \A a, b \in Actions : a # b => Precedes(u, a, b) \/ Precedes(u, b, a)
<1>1. \A a \in Actions : ConfigIndex(a) \in Nat
  BY ConfigIndexType
<1>2. \A a, b \in Actions : a # b => ConfigIndex(a) # ConfigIndex(b)
  BY ConfigIndexType
<1>3. QED
  BY <1>1, <1>2 DEF Precedes

\* smartActionsConfig is a finite list.
LEMMA ActionsFinite == IsFiniteSet(Actions)
<1> DEFINE n == Len(ActionOrder)
<1>1. n \in Nat /\ ActionOrder \in [1..n -> Actions]
  BY ActionOrderAssumption
<1>2. ActionOrder \in Surjection(1..n, Actions)
  BY <1>1 DEF Surjection, Actions, ToSet
<1>3. IsFiniteSet(1..n)
  BY <1>1, FS_Interval
<1>4. QED
  BY <1>2, <1>3, FS_Surjection

\* An item's rank is a position of the sorted list.
LEMMA RankType ==
  ASSUME NEW u \in [Actions -> Nat], NEW S \in SUBSET Actions, NEW a \in S
  PROVE  /\ IsFiniteSet(S)
         /\ Rank(u, a, S) \in 1..Cardinality(S)
<1> DEFINE B == {b \in S : Precedes(u, b, a)}
<1>1. IsFiniteSet(S) /\ Cardinality(S) \in Nat
  BY ActionsFinite, FS_Subset, FS_CardinalityType
<1>2. IsFiniteSet(S \ {a}) /\ Cardinality(S \ {a}) = Cardinality(S) - 1
  BY <1>1, FS_RemoveElement
<1>3. B \subseteq S \ {a}
  BY PrecedesOrder
<1>4. IsFiniteSet(B) /\ Cardinality(B) \in Nat /\ Cardinality(B) <= Cardinality(S) - 1
  BY <1>2, <1>3, FS_Subset, FS_CardinalityType
<1>5. QED
  BY <1>1, <1>4 DEF Rank

\* Of two items the one that precedes has fewer items before it.
LEMMA RankMonotone ==
  ASSUME NEW u \in [Actions -> Nat], NEW S \in SUBSET Actions,
         NEW x \in S, NEW y \in S, Precedes(u, x, y)
  PROVE  Rank(u, x, S) < Rank(u, y, S)
<1> DEFINE Before(z) == {w \in S : Precedes(u, w, z)}
<1>1. IsFiniteSet(S)
  BY RankType
<1>2. Before(x) \cup {x} \subseteq Before(y)
  BY PrecedesOrder
<1>3. x \notin Before(x)
  BY PrecedesOrder
<1>4. IsFiniteSet(Before(x)) /\ IsFiniteSet(Before(y))
  BY <1>1, FS_Subset
<1>5. Cardinality(Before(x) \cup {x}) = Cardinality(Before(x)) + 1
  BY <1>3, <1>4, FS_AddElement
<1>6. Cardinality(Before(x) \cup {x}) <= Cardinality(Before(y))
  BY <1>2, <1>4, FS_Subset
<1>7. QED
  BY <1>4, <1>5, <1>6, FS_CardinalityType DEF Rank

\* Two items never share a rank.
LEMMA RankInjective ==
  ASSUME NEW u \in [Actions -> Nat], NEW S \in SUBSET Actions,
         NEW a \in S, NEW b \in S, a # b
  PROVE  Rank(u, a, S) # Rank(u, b, S)
<1>1. Rank(u, a, S) \in Nat /\ Rank(u, b, S) \in Nat
  BY RankType
<1>2. Precedes(u, a, b) \/ Precedes(u, b, a)
  BY PrecedesOrder
<1>3. QED
  BY <1>1, <1>2, RankMonotone

\* Every position up to the number of items is the rank of an item.
LEMMA RankOnto ==
  ASSUME NEW u \in [Actions -> Nat], NEW S \in SUBSET Actions
  PROVE  \A k \in 1..Cardinality(S) : \E a \in S : Rank(u, a, S) = k
<1> DEFINE n == Cardinality(S)
           r == [a \in S |-> Rank(u, a, S)]
<1>1. IsFiniteSet(S) /\ n \in Nat
  BY ActionsFinite, FS_Subset, FS_CardinalityType
<1>2. r \in Injection(S, 1..n)
  <2>1. r \in [S -> 1..n]
    BY RankType
  <2>2. \A a, b \in S : r[a] = r[b] => a = b
    BY RankInjective
  <2>3. QED
    BY <2>1, <2>2 DEF Injection, IsInjective
<1>3. IsFiniteSet(1..n) /\ Cardinality(1..n) = n
  BY <1>1, FS_Interval
<1>4. r \in Surjection(S, 1..n)
  BY <1>2, <1>3, FS_Injection
<1>5. QED
  BY <1>4 DEF Surjection

\* useSortedActions lists available actions only: position k holds the
\* item of rank k.
LEMMA SortedActionsType ==
  ASSUME NEW u \in [Actions -> Nat], NEW S \in SUBSET Actions
  PROVE  /\ SortedActions(u, S) \in Seq(S)
         /\ Len(SortedActions(u, S)) = Cardinality(S)
         /\ \A k \in 1..Cardinality(S) :
              Rank(u, SortedActions(u, S)[k], S) = k
<1> DEFINE n == Cardinality(S)
<1>1. n \in Nat
  BY ActionsFinite, FS_Subset, FS_CardinalityType
<1>2. \A k \in 1..n : /\ SortedActions(u, S)[k] \in S
                      /\ Rank(u, SortedActions(u, S)[k], S) = k
  BY RankOnto DEF SortedActions
<1>3. SortedActions(u, S) \in [1..n -> S]
  BY <1>2 DEF SortedActions
<1>4. QED
  BY <1>1, <1>2, <1>3

-----------------------------------------------------------------------------
(***************************************************************************)
(* The inductive invariant behind RunsOnlyEnabledActions.  The property   *)
(* alone is not inductive: a click runs what the last render showed, so   *)
(* everything a render can show or the user can select (the sorted list, *)
(* the open menu, the selected action and the one rendered) must already *)
(* be enabled on the server, and a rendered menuEnabled must be the       *)
(* server's value.  That in turn rests on the flag client: the bulk fetch *)
(* the flags atom waits on asks for exactly FlagNames and, once answered, *)
(* holds the server's values (AnswerMatchesRequest of Inv), and the menu  *)
(* flag's atom refers to a fetch for that flag alone (CacheRefs).         *)
(***************************************************************************)
OpenActions == {a \in Actions : GateOpen(a)}

AtomInv ==
  /\ flagsAtom \in [st : {"unread", "fetching", "ready"}, fid : 0..MaxFetches]
  /\ flagsAtom.st = "fetching" =>
       /\ flagsAtom.fid \in DOMAIN fetches
       /\ fetches[flagsAtom.fid].kind = "bulk"
       /\ fetches[flagsAtom.fid].names = FlagNames
  /\ flagsAtom.st = "ready" => FlagNames = {}

ViewInv ==
  /\ ctx \in Contexts
  /\ usage \in [Actions -> 0..MaxUses]
  /\ effectPending \in BOOLEAN /\ dirty \in BOOLEAN
  /\ rendered.ctx \in Contexts \/ rendered.sorted = <<>>
  /\ rendered.menuEnabled => MenuOnServer
  /\ rendered.sorted \in Seq(OpenActions)
  /\ rendered.selected \in OpenActions \cup {None}
  /\ selected \in OpenActions \cup {None}
  /\ menu \in Seq(OpenActions)
  /\ lastRun \in [action : Actions, ctx : Contexts] \cup {NoRun}
  /\ RunsOnlyEnabledActions

UIInv == Inv /\ CacheRefs /\ AtomInv /\ ViewInv

-----------------------------------------------------------------------------

\* A step of the flag client never shortens the list of fetches nor changes
\* what an earlier fetch asked for.
LEMMA FetchesKept ==
  ASSUME Inv, [Next]_vars
  PROVE  /\ Len(fetches) <= Len(fetches')
         /\ \A j \in 1..Len(fetches) : /\ fetches'[j].kind = fetches[j].kind
                                       /\ fetches'[j].names = fetches[j].names
<1>1. fetches \in Seq(Fetch)
  BY DEF Inv, TypeOK
<1>2. ASSUME NEW kind, NEW ns, StartFetch(kind, ns)
      PROVE  /\ Len(fetches) <= Len(fetches')
             /\ \A j \in 1..Len(fetches) : fetches'[j] = fetches[j]
  BY <1>1, <1>2 DEF StartFetch
<1>3. ASSUME NEW m \in fromServer, Deliver(m)
      PROVE  /\ Len(fetches) <= Len(fetches')
             /\ \A j \in 1..Len(fetches) : /\ fetches'[j].kind = fetches[j].kind
                                           /\ fetches'[j].names = fetches[j].names
  <2>1. Len(fetches') = Len(fetches)
    BY <1>3, DeliverShape, Zenon
  <2>2. \A j \in 1..Len(fetches) : /\ fetches'[j].kind = fetches[j].kind
                                  /\ fetches'[j].names = fetches[j].names
    BY <1>3, DeliverShape, Zenon
  <2>3. QED
    BY <1>1, <2>1, <2>2
<1>4. CASE UNCHANGED fetches
  BY <1>4
<1>5. QED
  BY <1>2, <1>3, <1>4
  DEF Next, ReadFlag, BulkFetch, Evict, ServerStep, ServerAnswer, ClientStep, vars

\* Once the flags atom has data, a config passes its flag only if the
\* server enabled it: the bulk reply carries the server's values.
LEMMA PassesFlagOpen ==
  ASSUME Inv, AtomInv, FlagsHaveData, NEW a \in Actions, PassesFlag(a)
  PROVE  GateOpen(a)
<1>1. CASE Gate[a] = "none"
  BY <1>1 DEF GateOpen
<1>2. CASE Gate[a] = "unmapped"
  BY <1>2 DEF PassesFlag
<1>3. CASE Gate[a] \in Names /\ Gate[a] # "none" /\ Gate[a] # "unmapped"
  <2>1. Gate[a] \in FlagNames
    BY <1>3 DEF FlagNames
  <2>2. flagsAtom.st = "fetching" /\ ~fetches[flagsAtom.fid].waiting
    BY <2>1 DEF FlagsHaveData, AtomInv
  <2>3. /\ flagsAtom.fid \in DOMAIN fetches
        /\ fetches[flagsAtom.fid].kind = "bulk"
        /\ fetches[flagsAtom.fid].names = FlagNames
    BY <2>2 DEF AtomInv
  <2>4. fetches[flagsAtom.fid].result = ServerResult("bulk", FlagNames)
    BY <2>2, <2>3 DEF Inv, AnswerMatchesRequest
  <2>5. fetches[flagsAtom.fid].result[Gate[a]] = FlagValue["feature"][Gate[a]]
    BY <2>1, <2>4 DEF ServerResult
  <2>6. PassesFlag(a) = fetches[flagsAtom.fid].result[Gate[a]]
    BY <1>3 DEF PassesFlag
  <2>7. QED
    BY <1>3, <2>5, <2>6 DEF GateOpen
<1>4. QED
  BY <1>1, <1>2, <1>3, GateAssumption

\* useFeatureFlagSync(SmartActionsMenu) is true only when the server has the
\* menu flag on: its atom's fetch asked for that flag alone.
LEMMA MenuSyncOnServer ==
  ASSUME Inv, CacheRefs, UseFeatureFlagSync(MenuFlag)
  PROVE  MenuOnServer
<1> DEFINE e == cache["feature"][MenuFlag]
<1>1. e.st = "fetch" /\ ~fetches[e.fid].waiting /\ fetches[e.fid].result[MenuFlag]
  BY DEF UseFeatureFlagSync
<1>2. /\ e.fid \in 1..Len(fetches)
      /\ MenuFlag \in Names
      /\ fetches[e.fid].kind = "feature"
      /\ fetches[e.fid].names = {MenuFlag}
  BY <1>1, MenuFlagAssumption DEF CacheRefs, NoAtom, OssAtom, FlagKinds
<1>3. fetches \in Seq(Fetch)
  BY DEF Inv, TypeOK
<1>4. e.fid \in DOMAIN fetches
  BY <1>2, <1>3
<1>5. fetches[e.fid].result = ServerResult(fetches[e.fid].kind, fetches[e.fid].names)
  BY <1>1, <1>4 DEF Inv, AnswerMatchesRequest
<1>6. fetches[e.fid].result = [x \in {MenuFlag} |-> FlagValue["feature"][x]]
  BY <1>2, <1>5 DEF ServerResult
<1>7. FlagValue["feature"][MenuFlag]
  BY <1>1, <1>6
<1>8. QED
  BY <1>2, <1>7 DEF MenuOnServer
\* A sequence over a set is a sequence over any larger set.
LEMMA SeqMonotone ==
  ASSUME NEW S, NEW T, S \subseteq T, NEW s \in Seq(S)
  PROVE  s \in Seq(T)
OBVIOUS

\* Every step of the dropdown is a step of the flag client or leaves its
\* state alone: the component reads atoms, it never writes the flag cache.
LEMMA UIStepIsFlagStep ==
  ASSUME UINext
  PROVE  [Next]_vars
<1>1. FlagNames \subseteq Names
  BY DEF FlagNames
<1>2. CASE ReadFlagsAtom
  <2>1. CASE FlagNames = {}
    BY <1>2, <2>1 DEF ReadFlagsAtom
  <2>2. CASE FlagNames # {}
    <3>1. BulkFetch(FlagNames)
      BY <1>2, <2>2 DEF ReadFlagsAtom
    <3>2. QED
      BY <1>1, <2>2, <3>1 DEF Next
  <2>3. QED
    BY <2>1, <2>2
<1>3. CASE ReadMenuFlag
  BY <1>3, MenuFlagAssumption DEF ReadMenuFlag, Next, FlagKinds
<1>4. CASE FlagServerStep \/ FlagClientStep
  BY <1>4 DEF FlagServerStep, FlagClientStep, Next
<1>5. CASE \/ Render \/ SelectionEffect \/ OpenMenu \/ CloseMenu
           \/ \E a \in Actions : PickMenuItem(a)
           \/ ClickAction \/ \E c \in Contexts : ChangeContext(c)
  BY <1>5 DEF Render, SelectionEffect, OpenMenu, CloseMenu, PickMenuItem,
              ClickAction, ChangeContext
<1>6. QED
  BY <1>2, <1>3, <1>4, <1>5 DEF UINext

\* The mount: no atom read, nothing rendered, selected or run.
LEMMA InitUIInv == UIInit => UIInv
<1> SUFFICES ASSUME UIInit PROVE UIInv
  OBVIOUS
<1>1. Inv /\ CacheRefs
  BY InitInv, InitCacheRefs DEF UIInit
<1>2. AtomInv
  BY MaxFetchesAssumption DEF UIInit, AtomInv
<1>3. ViewInv
  <2>1. usage \in [Actions -> 0..MaxUses]
    BY MaxUsesAssumption DEF UIInit
  <2>2. /\ rendered.sorted = <<>> /\ ~rendered.menuEnabled
        /\ rendered.selected = None /\ selected = None /\ menu = <<>>
        /\ lastRun = NoRun
    BY DEF UIInit
  <2>3. ctx \in Contexts /\ effectPending \in BOOLEAN /\ dirty \in BOOLEAN
    BY DEF UIInit
  <2>4. <<>> \in Seq(OpenActions)
    OBVIOUS
  <2>5. None \in OpenActions \cup {None} /\ NoRun \in [action : Actions, ctx : Contexts] \cup {NoRun}
    OBVIOUS
  <2>6. QED
    BY <2>1, <2>2, <2>3, <2>4, <2>5 DEF ViewInv, RunsOnlyEnabledActions
<1>4. QED
  BY <1>1, <1>2, <1>3 DEF UIInv
\* The flags atom keeps waiting on its bulk fetch, which keeps asking for
\* FlagNames, whatever the flag client does meanwhile.
LEMMA AtomInvStep ==
  ASSUME UIInv, [UINext]_allVars, [Next]_vars, Inv'
  PROVE  AtomInv'
<1>1. /\ Len(fetches) <= Len(fetches')
      /\ \A j \in 1..Len(fetches) : /\ fetches'[j].kind = fetches[j].kind
                                    /\ fetches'[j].names = fetches[j].names
  BY FetchesKept DEF UIInv
<1>2. fetches \in Seq(Fetch) /\ fetches' \in Seq(Fetch)
  BY DEF UIInv, Inv, TypeOK
<1>3. CASE ReadFlagsAtom
  <2>1. CASE FlagNames = {}
    BY <1>3, <2>1, MaxFetchesAssumption DEF ReadFlagsAtom, AtomInv
  <2>2. CASE FlagNames # {}
    <3>1. /\ fetches' = Append(fetches, [kind |-> "bulk", names |-> FlagNames,
                                         waiting |-> TRUE, result |-> <<>>])
          /\ Len(fetches) < MaxFetches
          /\ flagsAtom' = [st |-> "fetching", fid |-> Len(fetches) + 1]
      BY <1>3, <2>2 DEF ReadFlagsAtom, BulkFetch, StartFetch
    <3>2. QED
      BY <1>2, <3>1, MaxFetchesAssumption DEF AtomInv
  <2>3. QED
    BY <2>1, <2>2
<1>4. CASE UNCHANGED flagsAtom
  <2>1. flagsAtom.st = "fetching" => flagsAtom.fid \in 1..Len(fetches)
    BY <1>2 DEF UIInv, AtomInv
  <2>2. QED
    BY <1>1, <1>2, <1>4, <2>1 DEF UIInv, AtomInv
<1>5. QED
  BY <1>3, <1>4
  DEF UINext, ReadMenuFlag, FlagServerStep, FlagClientStep, Render, SelectionEffect,
      OpenMenu, CloseMenu, PickMenuItem, ClickAction, ChangeContext, allVars, uiVars
\* A render shows only enabled actions, and shows the menu enabled only if
\* the server has it on.
LEMMA RenderViewInv ==
  ASSUME UIInv, Render
  PROVE  ViewInv'
<1> DEFINE S == AvailableActionItems(ctx)
<1>1. S \subseteq OpenActions
  BY PassesFlagOpen DEF UIInv, AvailableActionItems, ShouldShowSmartAction, OpenActions
<1>2. usage \in [Actions -> Nat]
  BY DEF UIInv, ViewInv
<1>3. SortedActions(usage, S) \in Seq(OpenActions)
  <2>1. SortedActions(usage, S) \in Seq(S)
    BY <1>2, SortedActionsType DEF AvailableActionItems
  <2>2. QED
    BY <1>1, <2>1, SeqMonotone
<1>4. UseFeatureFlagSync(MenuFlag) => MenuOnServer
  BY MenuSyncOnServer DEF UIInv
<1>5. /\ rendered'.sorted = SortedActions(usage, S)
      /\ rendered'.selected = selected
      /\ rendered'.ctx = ctx
      /\ rendered'.menuEnabled = UseFeatureFlagSync(MenuFlag)
      /\ effectPending' \in BOOLEAN /\ dirty' = FALSE
      /\ UNCHANGED <<ctx, usage, selected, menu, lastRun>>
  BY DEF Render
<1>6. QED
  BY <1>3, <1>4, <1>5 DEF UIInv, ViewInv, RunsOnlyEnabledActions

\* A click runs the action the last render showed, which was enabled, with
\* the menu the server has on; bumpSmartAction keeps the count bounded.
LEMMA ClickViewInv ==
  ASSUME UIInv, ClickAction
  PROVE  ViewInv'
<1>1. /\ MenuOnServer
      /\ rendered.ctx \in Contexts
      /\ rendered.sorted \in Seq(OpenActions) /\ rendered.sorted # <<>>
      /\ rendered.selected \in OpenActions
  BY DEF ClickAction, Visible, UIInv, ViewInv
<1>2. usage \in [Actions -> 0..MaxUses]
  BY DEF UIInv, ViewInv
<1>3. CASE Len(rendered.sorted) = 1
  <2>1. rendered.sorted[1] \in OpenActions
    BY <1>1, <1>3
  <2>2. /\ lastRun' = [action |-> rendered.sorted[1], ctx |-> rendered.ctx]
        /\ UNCHANGED <<usage, dirty>>
    BY <1>3 DEF ClickAction
  <2>3. QED
    BY <1>1, <2>1, <2>2 DEF ClickAction, UIInv, ViewInv, RunsOnlyEnabledActions, OpenActions
<1>4. CASE Len(rendered.sorted) # 1
  <2>1. /\ lastRun' = [action |-> rendered.selected, ctx |-> rendered.ctx]
        /\ usage' = Bump(rendered.selected)
        /\ dirty' = (dirty \/ usage' # usage)
    BY <1>4, Zenon DEF ClickAction
  <2>2. dirty' \in BOOLEAN
    BY <2>1
  <2>3. usage' \in [Actions -> 0..MaxUses]
    <3>1. rendered.selected \in Actions
      BY <1>1 DEF OpenActions
    <3>2. CASE usage[rendered.selected] < MaxUses
      BY <1>2, <2>1, <3>1, <3>2, MaxUsesAssumption DEF Bump
    <3>3. CASE ~(usage[rendered.selected] < MaxUses)
      BY <1>2, <2>1, <3>3 DEF Bump
    <3>4. QED
      BY <3>2, <3>3
  <2>4. QED
    BY <1>1, <2>1, <2>2, <2>3 DEF ClickAction, UIInv, ViewInv, RunsOnlyEnabledActions, OpenActions
<1>5. QED
  BY <1>3, <1>4

\* Every step of the dropdown or the flag client keeps the view invariant.
LEMMA ViewInvStep ==
  ASSUME UIInv, [UINext]_allVars
  PROVE  ViewInv'
<1>1. CASE \/ ReadFlagsAtom \/ ReadMenuFlag \/ FlagServerStep \/ FlagClientStep
           \/ CloseMenu \/ UNCHANGED allVars
  <2>1. /\ UNCHANGED <<ctx, usage, rendered, selected, effectPending, lastRun>>
        /\ menu' \in {menu, <<>>}
        /\ dirty' \in BOOLEAN
    BY <1>1 DEF ReadFlagsAtom, ReadMenuFlag, FlagServerStep, FlagClientStep,
                CloseMenu, allVars, uiVars, UIInv, ViewInv
  <2>2. <<>> \in Seq(OpenActions)
    OBVIOUS
  <2>3. QED
    BY <2>1, <2>2 DEF UIInv, ViewInv, RunsOnlyEnabledActions
<1>2. CASE Render
  BY <1>2, RenderViewInv
<1>3. CASE ClickAction
  BY <1>3, ClickViewInv
<1>4. CASE SelectionEffect
  <2>1. At(rendered.sorted, 1) \in OpenActions \cup {None}
    BY DEF UIInv, ViewInv, At
  <2>2. QED
    BY <1>4, <2>1 DEF SelectionEffect, UIInv, ViewInv, RunsOnlyEnabledActions
<1>5. CASE OpenMenu
  BY <1>5 DEF OpenMenu, UIInv, ViewInv, RunsOnlyEnabledActions
<1>6. CASE \E a \in Actions : PickMenuItem(a)
  <2>1. PICK a \in Actions : PickMenuItem(a)
    BY <1>6
  <2>2. a \in OpenActions
    BY <2>1 DEF PickMenuItem, UIInv, ViewInv, ToSet
  <2>3. <<>> \in Seq(OpenActions)
    OBVIOUS
  <2>4. QED
    BY <2>1, <2>2, <2>3 DEF PickMenuItem, UIInv, ViewInv, RunsOnlyEnabledActions
<1>7. CASE \E c \in Contexts : ChangeContext(c)
  BY <1>7 DEF ChangeContext, UIInv, ViewInv, RunsOnlyEnabledActions
<1>8. QED
  BY <1>1, <1>2, <1>3, <1>4, <1>5, <1>6, <1>7 DEF UINext
\* UIInv is inductive.
LEMMA NextUIInv == UIInv /\ [UINext]_allVars => UIInv'
<1> SUFFICES ASSUME UIInv, [UINext]_allVars PROVE UIInv'
  OBVIOUS
<1>1. [Next]_vars
  <2>1. CASE UINext
    BY <2>1, UIStepIsFlagStep
  <2>2. CASE UNCHANGED allVars
    BY <2>2 DEF allVars
  <2>3. QED
    BY <2>1, <2>2
<1>2. Inv' /\ CacheRefs'
  BY <1>1, NextInv, NextCacheRefs DEF UIInv
<1>3. AtomInv'
  BY <1>1, <1>2, AtomInvStep
<1>4. ViewInv'
  BY ViewInvStep
<1>5. QED
  BY <1>2, <1>3, <1>4 DEF UIInv

\* The invariant gives the component's types.
LEMMA UIInvTypeOK == UIInv => UITypeOK
<1> SUFFICES ASSUME UIInv PROVE UITypeOK
  OBVIOUS
<1>1. OpenActions \subseteq Actions
  BY DEF OpenActions
<1>2. rendered.sorted \in Seq(Actions) /\ menu \in Seq(Actions)
  BY <1>1, SeqMonotone DEF UIInv, ViewInv
<1>3. QED
  BY <1>1, <1>2 DEF UIInv, Inv, AtomInv, ViewInv, UITypeOK

(***************************************************************************)
(* Every state of the dropdown composed with the flag client is well      *)
(* typed: the flags atom waits on a bulk fetch the client made, and the   *)
(* sorted list, the menu and the selection hold configured actions only.  *)
(***************************************************************************)
THEOREM UITypeCorrect == UISpec => []UITypeOK
<1>1. UIInit => UIInv
  BY InitUIInv
<1>2. UIInv /\ [UINext]_allVars => UIInv'
  BY NextUIInv
<1>3. UIInv => UITypeOK
  BY UIInvTypeOK
<1>4. QED
  BY <1>1, <1>2, <1>3, PTL DEF UISpec

(***************************************************************************)
(* A click on the dropdown (runSmartAction) never runs an action the      *)
(* server has not enabled, whatever the order in which the menu flag's    *)
(* reply, the bulk reply, renders, effects and clicks happen: the menu    *)
(* flag is on and the action's gate flag passes on the server.            *)
(***************************************************************************)
THEOREM ClicksRunEnabledActions == UISpec => []RunsOnlyEnabledActions
<1>1. UIInv => RunsOnlyEnabledActions
  BY DEF UIInv, ViewInv
<1>2. QED
  BY <1>1, InitUIInv, NextUIInv, PTL DEF UISpec

=============================================================================
