SPECIFICATION Spec
CONSTANTS
  Null = Null
  Cpf = {ana, rui, eva}
  LongCpf = {eva}
  Name = {"Ana"}
  NameOf <- MCNameOf
  Uninit <- MCUninit
  MaxBanks = 1
  SeedAdmins = {0}
  MaxClock = 1
  MaxDeparted = 2
INVARIANTS
  TypeOK
  StoredIsListed
  CountFollowsMembers
  ListedIsStored
  PanelNeedsSeed
SYMMETRY Symmetry
