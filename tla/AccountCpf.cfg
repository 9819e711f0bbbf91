SPECIFICATION Spec
CONSTANTS
  NoUser = NoUser
  Process = {p1, p2}
  Cpf = {ana, rui, eva}
  LongCpf = {}
  DbMayFail = FALSE
  CallocMayFail = FALSE
  MaxClock = 1
INVARIANT
  CpfIsOneAccount
