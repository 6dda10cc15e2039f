CONSTANTS
  NoRoot = none
  none = none
  Cwds <- MC_Cwds
  RepoRootOf <- MC_RepoRootOf
  CwdList <- MC_CwdList
  SubmodulesOf <- MC_SubmodulesOf
  InitCwd <- R
  MaxPending <- MC_MaxPending
SPECIFICATION CwdSpec
INVARIANTS CwdTypeOK ChangesOnlyToRepos
PROPERTIES LastChoiceWins
