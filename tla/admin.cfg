SPECIFICATION Spec
CONSTANTS
  u1 = u1
  k1 = k1
  Users = {u1}
  Payments = {p1}
  Packs = {}
  Handlers = {h1, h2}
  Null = Null
  Owner <- OwnerIsU1
  PackOf <- WithoutPack
  DurationDays = {}
  DefaultDays = 1
  GatewayStatuses = {"PENDING", "COMPLETED"}
  Ops = {"initiate", "verify", "grant", "amend", "remove", "clock"}
  MaxTime = 1
  MaxSubs = 2
  MaxFaults = 1
SYMMETRY HandlerSymmetry
PROPERTY RefinesLedger
CHECK_DEADLOCK FALSE
