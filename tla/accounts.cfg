SPECIFICATION FairSpec
CONSTANTS
  e1 = e1
  Emails = {e1}
  Clients = {c1, c2}
  EmailOf <- OneAddress
  Passwords = {p1, p2}
  Codes = {k1, k2, k3, k4}
  Nobody = Nobody
  CodeLife = 0
  TokenLife = 1
  MaxClock = 2
  MaxFaults = 1
  MaxMoves = 1
INVARIANTS AuthorIsIn RefreshReplacesItsToken CodeWorksOnce
PROPERTIES RefinesRegister AccountRecovered SignedInAgain
CHECK_DEADLOCK FALSE
