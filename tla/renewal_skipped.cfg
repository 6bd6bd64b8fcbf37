SPECIFICATION Spec
CONSTANTS
  u1 = u1
  k1 = k1
  Users = {u1}
  Payments = {p1, p2}
  Packs = {}
  Handlers = {h1, h2}
  Null = Null
  Owner <- OwnerIsU1
  PackOf <- WithoutPack
  DurationDays = {0, 1}
  DefaultDays = 1
  GatewayStatuses = {"PENDING", "COMPLETED"}
  Ops = {"initiate", "verify", "clock"}
  MaxTime = 1
  MaxSubs = 2
  MaxFaults = 0
SYMMETRY HandlerSymmetry
PROPERTY SkippedOnlyIfUsable
CHECK_DEADLOCK FALSE
