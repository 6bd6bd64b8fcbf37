SPECIFICATION FairSpec
CONSTANTS
  Users = {u1, u2}
  Devices = {d1}
  Handlers = {h1, h2}
  Nobody = Nobody
  MaxNotices = 1
  MaxRegs = 3
  MaxFaults = 1
INVARIANT PushStaysWithHolder
PROPERTIES ReachableStays BellSettles
CHECK_DEADLOCK FALSE
