CONSTANTS
  f1 = f1
  f2 = f2
  undef = undef
  Names <- MC_Names
  NullName = undef
  FlagValue <- MC_FlagValue
  MaxFetches <- MC_MaxFetches

SPECIFICATION Spec

INVARIANTS
  TypeOK
  AnswerMatchesRequest

PROPERTIES
  EveryFetchReturns
  ImplementsFeatureFlagSpec
