----------------------------- MODULE SmartActions -----------------------------
(***************************************************************************)
(* The smart actions dropdown (addons/isl/src/smartActions/                *)
(* SmartActionsDropdown.tsx) composed with the feature-flag client it     *)
(* reads: the SmartActionsMenu flag through useFeatureFlagSync, and the   *)
(* actions' gate flags through one bulkFetchFeatureFlags call made by the *)
(* global smartActionFeatureFlagsAtom.                                    *)
(*                                                                         *)
(* React's cycle is explicit: a Render reads the atoms and computes the   *)
(* sorted action list, which the browser shows; the passive effect that   *)
(* resets the selection runs as a later step, and the user's clicks and   *)
(* menu picks act on what the last render showed.  React flushes pending *)
(* passive effects before it renders again.                                *)
(***************************************************************************)
EXTENDS FeatureFlags, SequencesExt, TLC

CONSTANTS
  ActionOrder,  \* the ids of smartActionsConfig, in config order
  Contexts,     \* the ActionContexts {commit, repoPath, conflicts} that occur
  ShouldShow,   \* ShouldShow[a]: contexts where a's platform restriction and
                \*   shouldShow(context) both pass
  Gate,         \* Gate[a]: "none" (no featureFlag), "unmapped" (a
                \*   featureFlag key Internal.featureFlags lacks), or the
                \*   flag name Internal.featureFlags maps it to
  MenuFlag,     \* Internal.featureFlags?.SmartActionsMenu
  ShowSmartActions, \* Internal.showSmartActions (undefined, so false, in
                \*   the open-source build, whose Internal is empty)
  MaxUses       \* bound on the usage count bumpSmartAction keeps

Actions == ToSet(ActionOrder)
None == "none"

ASSUME ActionOrderAssumption ==
  ActionOrder \in Seq(Actions) /\ IsInjective(ActionOrder) /\ None \notin Actions
ASSUME ShouldShowAssumption == ShouldShow \in [Actions -> SUBSET Contexts]
ASSUME GateAssumption == Gate \in [Actions -> Names \cup {"none", "unmapped"}]
ASSUME MenuFlagAssumption == MenuFlag \in AllNames
ASSUME MaxUsesAssumption == MaxUses \in Nat
ASSUME ShowSmartActionsAssumption == ShowSmartActions \in BOOLEAN

VARIABLES
  flagsAtom,      \* smartActionFeatureFlagsAtom: unread, fetching (fetch fid), ready
  ctx,            \* the ActionContext the component would compute now
  usage,          \* the usage counts behind useSortedActions
  rendered,       \* what the last render computed and the browser shows
  selected,       \* the selectedAction state
  effectPending,  \* the selection effect is scheduled but has not run
  dirty,          \* an atom or state the component reads changed since it rendered
  menu,           \* the items of the open context menu, <<>> when closed
  lastRun         \* the action the last click ran, and the context it got

uiVars == <<flagsAtom, ctx, usage, rendered, selected, effectPending, dirty, menu, lastRun>>
allVars == <<vars, uiVars>>

NoRun == [action |-> None, ctx |-> None]

(***************************************************************************)
(* Lines 35-40: the flag names of the configs whose featureFlag key       *)
(* Internal.featureFlags maps.                                            *)
(***************************************************************************)
FlagNames == {Gate[a] : a \in {b \in Actions : Gate[b] \in Names}}

(* Mutant: the atom waits on the previous fetch. *)
ReadFlagsAtomPrevFetch ==
  /\ flagsAtom.st = "unread"
  /\ \/ /\ FlagNames = {}
        /\ flagsAtom' = [st |-> "ready", fid |-> 0]
        /\ UNCHANGED vars
     \/ /\ FlagNames # {}
        /\ BulkFetch(FlagNames)
        /\ flagsAtom' = [st |-> "fetching", fid |-> Len(fetches)]
  /\ dirty' = TRUE
  /\ UNCHANGED <<ctx, usage, rendered, selected, effectPending, menu, lastRun>>

(***************************************************************************)
(* Reading smartActionFeatureFlagsAtom for the first time runs its async  *)
(* body: with no flag names it resolves {} at once; otherwise it calls    *)
(* bulkFetchFeatureFlags.                                                  *)
(***************************************************************************)
ReadFlagsAtom ==
  /\ flagsAtom.st = "unread"
  /\ \/ /\ FlagNames = {}
        /\ flagsAtom' = [st |-> "ready", fid |-> 0]
        /\ UNCHANGED vars
     \/ /\ FlagNames # {}
        /\ BulkFetch(FlagNames)
        /\ flagsAtom' = [st |-> "fetching", fid |-> Len(fetches) + 1]
  /\ dirty' = TRUE
  /\ UNCHANGED <<ctx, usage, rendered, selected, effectPending, menu, lastRun>>

(***************************************************************************)
(* loadableFeatureFlagsAtom: hasData once the atom's promise resolved.    *)
(***************************************************************************)
FlagsHaveData ==
  \/ flagsAtom.st = "ready"
  \/ flagsAtom.st = "fetching" /\ ~fetches[flagsAtom.fid].waiting

(* Mutant: a key with no flag name passes. *)
PassesFlagDefaultTrue(a) ==
  IF Gate[a] \in Names THEN fetches[flagsAtom.fid].result[Gate[a]] ELSE TRUE

(***************************************************************************)
(* Lines 49-54 and 88: whether a's flag passes, given the flags record.   *)
(* A key with no flag name is never fetched, so it reads undefined.       *)
(***************************************************************************)
PassesFlag(a) ==
  CASE Gate[a] = "none"     -> TRUE
    [] Gate[a] = "unmapped" -> FALSE
    [] OTHER                -> fetches[flagsAtom.fid].result[Gate[a]]

(***************************************************************************)
(* shouldShowSmartAction(config, context, passesFeatureFlag).              *)
(***************************************************************************)
ShouldShowSmartAction(a, c) == PassesFlag(a) /\ c \in ShouldShow[a]

(***************************************************************************)
(* availableActionItems (lines 77-101): the configs that should show, once *)
(* the flags loaded.  The loop walks smartActionsConfig in order, so the   *)
(* array lists this set in the order of ConfigIndex.                       *)
(***************************************************************************)
AvailableActionItems(c) ==
  {a \in Actions : FlagsHaveData /\ ShouldShowSmartAction(a, c)}

ConfigIndex(a) == CHOOSE i \in DOMAIN ActionOrder : ActionOrder[i] = a

(***************************************************************************)
(* The order useSortedActions sorts by, under usage counts u: a comes     *)
(* before b when it was used more, or as often and earlier in the config  *)
(* (the sort is stable and its input is in config order).                 *)
(***************************************************************************)
Precedes(u, a, b) ==
  \/ u[a] > u[b]
  \/ u[a] = u[b] /\ ConfigIndex(a) < ConfigIndex(b)

Rank(u, a, items) == Cardinality({b \in items : Precedes(u, b, a)}) + 1

(***************************************************************************)
(* useSortedActions(items) under usage counts u: position k holds the     *)
(* item that k - 1 items precede.                                          *)
(***************************************************************************)
SortedActions(u, items) ==
  [k \in 1..Cardinality(items) |-> CHOOSE a \in items : Rank(u, a, items) = k]

(***************************************************************************)
(* A render of SmartActionsDropdown.  The memoised context, item list and *)
(* sorted list are new arrays when their dependencies changed, and a new  *)
(* sorted array schedules the selection effect (lines 107-110).           *)
(***************************************************************************)
Render ==
  LET deps == <<ctx, FlagsHaveData, usage>>
      sorted == SortedActions(usage, AvailableActionItems(ctx))
  IN  /\ dirty
      /\ ~effectPending
      /\ flagsAtom.st # "unread"
      /\ cache["feature"][MenuFlag] # NoAtom
      /\ rendered' = [sorted |-> sorted, selected |-> selected, ctx |-> ctx,
                      menuEnabled |-> UseFeatureFlagSync(MenuFlag),
                      hasData |-> FlagsHaveData, deps |-> deps]
      /\ effectPending' = (deps # rendered.deps)
      /\ dirty' = FALSE
      /\ UNCHANGED <<vars, flagsAtom, ctx, usage, selected, menu, lastRun>>

(***************************************************************************)
(* s[k - 1] in JavaScript: undefined past the end.                         *)
(***************************************************************************)
At(s, k) == IF k \in 1..Len(s) THEN s[k] ELSE None

(* Mutant: the effect selects the second action. *)
SelectionEffectSecond ==
  /\ effectPending
  /\ selected' = At(rendered.sorted, 2)
  /\ effectPending' = FALSE
  /\ dirty' = TRUE
  /\ UNCHANGED <<vars, flagsAtom, ctx, usage, rendered, menu, lastRun>>

(***************************************************************************)
(* The effect: setSelectedAction(sortedActionItems[0]).                    *)
(***************************************************************************)
SelectionEffect ==
  /\ effectPending
  /\ selected' = At(rendered.sorted, 1)
  /\ effectPending' = FALSE
  /\ dirty' = TRUE
  /\ UNCHANGED <<vars, flagsAtom, ctx, usage, rendered, menu, lastRun>>

(***************************************************************************)
(* Lines 128-139: the component renders nothing until the flags loaded,   *)
(* the menu flag is on, the build shows smart actions, and there is a     *)
(* selected action.                                                        *)
(***************************************************************************)
Visible ==
  /\ rendered.hasData
  /\ rendered.menuEnabled
  /\ ShowSmartActions
  /\ rendered.sorted # <<>>
  /\ rendered.selected # None

(***************************************************************************)
(* The select button opens the context menu, whose items are built from   *)
(* the rendered list when it opens (lines 112-126, 169-189).              *)
(***************************************************************************)
OpenMenu ==
  /\ Visible
  /\ Len(rendered.sorted) > 1
  /\ menu' = rendered.sorted
  /\ UNCHANGED <<vars, flagsAtom, ctx, usage, rendered, selected, effectPending, dirty, lastRun>>

PickMenuItem(a) ==
  /\ a \in ToSet(menu)
  /\ selected' = a
  /\ menu' = <<>>
  /\ dirty' = TRUE
  /\ UNCHANGED <<vars, flagsAtom, ctx, usage, rendered, effectPending, lastRun>>

CloseMenu ==
  /\ menu # <<>>
  /\ menu' = <<>>
  /\ UNCHANGED <<vars, flagsAtom, ctx, usage, rendered, selected, effectPending, dirty, lastRun>>

(***************************************************************************)
(* A click on the button.  With one action the button runs it (line 145); *)
(* otherwise it runs the selected action and bumps its usage (162-166).   *)
(* runSmartAction posts the action's payload for the rendered context.    *)
(***************************************************************************)
Bump(a) == IF usage[a] < MaxUses THEN [usage EXCEPT ![a] = @ + 1] ELSE usage

ClickAction ==
  /\ Visible
  /\ \/ /\ Len(rendered.sorted) = 1
        /\ lastRun' = [action |-> rendered.sorted[1], ctx |-> rendered.ctx]
        /\ UNCHANGED <<usage, dirty>>
     \/ /\ Len(rendered.sorted) > 1
        /\ lastRun' = [action |-> rendered.selected, ctx |-> rendered.ctx]
        /\ usage' = Bump(rendered.selected)
        /\ dirty' = (dirty \/ usage' # usage)
  /\ UNCHANGED <<vars, flagsAtom, ctx, rendered, selected, effectPending, menu>>

(***************************************************************************)
(* The commit, repository or merge conflicts change.                       *)
(***************************************************************************)
ChangeContext(c) ==
  /\ c # ctx
  /\ ctx' = c
  /\ dirty' = TRUE
  /\ UNCHANGED <<vars, flagsAtom, usage, rendered, selected, effectPending, menu, lastRun>>

(***************************************************************************)
(* The feature-flag client's steps this component causes or observes: the *)
(* mount reads the menu flag's atom, and a delivered reply notifies the   *)
(* atoms' subscribers.                                                     *)
(***************************************************************************)
ReadMenuFlag ==
  /\ ReadFlag("feature", MenuFlag)
  /\ dirty' = TRUE
  /\ UNCHANGED <<flagsAtom, ctx, usage, rendered, selected, effectPending, menu, lastRun>>

FlagServerStep ==
  /\ ServerStep
  /\ UNCHANGED uiVars

FlagClientStep ==
  /\ ClientStep
  /\ dirty' = TRUE
  /\ UNCHANGED <<flagsAtom, ctx, usage, rendered, selected, effectPending, menu, lastRun>>

UIInit ==
  /\ Init
  /\ flagsAtom = [st |-> "unread", fid |-> 0]
  /\ ctx \in Contexts
  /\ usage = [a \in Actions |-> 0]
  /\ rendered = [sorted |-> <<>>, selected |-> None, ctx |-> None, menuEnabled |-> FALSE,
                 hasData |-> FALSE, deps |-> <<>>]
  /\ selected = None
  /\ effectPending = FALSE
  /\ dirty = TRUE
  /\ menu = <<>>
  /\ lastRun = NoRun

UINext ==
  \/ ReadFlagsAtom \/ ReadMenuFlag \/ FlagServerStep \/ FlagClientStep
  \/ Render \/ SelectionEffect
  \/ OpenMenu \/ CloseMenu \/ \E a \in Actions : PickMenuItem(a)
  \/ ClickAction
  \/ \E c \in Contexts : ChangeContext(c)

(***************************************************************************)
(* React renders the component (reading its atoms) and runs its effects  *)
(* whenever they are due; the server answers and the client handles the   *)
(* answers.  The user and the context are under no obligation.            *)
(***************************************************************************)
UISpec ==
  /\ UIInit /\ [][UINext]_allVars
  /\ WF_allVars(ReadFlagsAtom) /\ WF_allVars(ReadMenuFlag)
  /\ WF_allVars(Render) /\ WF_allVars(SelectionEffect)
  /\ WF_allVars(FlagServerStep) /\ WF_allVars(FlagClientStep)

UITypeOK ==
  /\ TypeOK
  /\ flagsAtom \in [st : {"unread", "fetching", "ready"}, fid : 0..MaxFetches]
  /\ flagsAtom.st = "fetching" =>
       flagsAtom.fid \in DOMAIN fetches /\ fetches[flagsAtom.fid].kind = "bulk"
  /\ ctx \in Contexts
  /\ usage \in [Actions -> 0..MaxUses]
  /\ selected \in Actions \cup {None}
  /\ rendered.sorted \in Seq(Actions) /\ rendered.selected \in Actions \cup {None}
  /\ effectPending \in BOOLEAN /\ dirty \in BOOLEAN
  /\ menu \in Seq(Actions)
  /\ lastRun \in [action : Actions, ctx : Contexts] \cup {NoRun}

(***************************************************************************)
(* The server's own view: the menu flag is on, and a's gate passes.       *)
(***************************************************************************)
MenuOnServer == MenuFlag \in Names /\ FlagValue["feature"][MenuFlag]

GateOpen(a) ==
  \/ Gate[a] = "none"
  \/ Gate[a] \in Names /\ FlagValue["feature"][Gate[a]]

(***************************************************************************)
(* A click never runs an action the server has not enabled: the           *)
(* SmartActionsMenu flag is on and the action's own flag passes, though   *)
(* the flags arrive in one bulk reply after the component has rendered.  *)
(***************************************************************************)
RunsOnlyEnabledActions ==
  lastRun # NoRun =>
    /\ MenuOnServer
    /\ GateOpen(lastRun.action)

(***************************************************************************)
(* The action a click runs is available for the context it is run with:   *)
(* the selection effect (line 107: "Update selected action when available *)
(* actions change") keeps the selected action among the shown ones.       *)
(***************************************************************************)
RunsAvailableAction ==
  lastRun # NoRun => lastRun.ctx \in ShouldShow[lastRun.action]

(***************************************************************************)
(* In a build that shows smart actions (Internal.showSmartActions, line   *)
(* 134), when the server turns the menu on and every context has an      *)
(* action whose flag passes, the dropdown is eventually shown for good:   *)
(* the bulk reply arrives, the component re-renders, and the selection    *)
(* effect selects the first action, whatever the user and the context do *)
(* meanwhile.                                                              *)
(***************************************************************************)
EnabledMenuShows ==
  (/\ ShowSmartActions
   /\ MenuOnServer
   /\ \A c \in Contexts : \E a \in Actions : GateOpen(a) /\ c \in ShouldShow[a])
    => <>[]Visible

=============================================================================
