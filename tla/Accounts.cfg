SPECIFICATION Spec
CONSTANTS
  NoUser = NoUser
  Process = {p1, p2}
  Cpf = {ana, rui, eva}
  LongCpf = {eva}
  DbMayFail = TRUE
  CallocMayFail = TRUE
  MaxClock = 1
INVARIANTS
  TypeOK
  CpfUniqueInProcess
  ListedIsSavedUnlessClash
SYMMETRY ProcessSymmetry
