CONSTANTS
  f1 = f1
  f2 = f2
  undef = undef
  a1 = a1
  a2 = a2
  a3 = a3
  a4 = a4
  c1 = c1
  c2 = c2
  Names <- MC_Names
  NullName = undef
  FlagValue <- MC_FlagValue
  MaxFetches <- MC_MaxFetches
  ActionOrder <- MC_ActionOrder
  Contexts <- MC_Contexts
  ShouldShow <- MC_ShouldShow
  Gate <- MC_Gate
  MenuFlag = f1
  ShowSmartActions = TRUE
  MaxUses <- MC_MaxUses

SPECIFICATION UISpec

INVARIANTS
  UITypeOK
  RunsOnlyEnabledActions
PROPERTIES
  EnabledMenuShows
