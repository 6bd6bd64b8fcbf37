SPECIFICATION FairSpec
CONSTANTS
  u1 = u1
  k1 = k1
  Users = {u1}
  Payments = {p1}
  Packs = {k1}
  Handlers = {h1, h2}
  Null = Null
  Owner <- OwnerIsU1
  PackOf <- ForPack
  DurationDays = {1}
  DefaultDays = 1
  GatewayStatuses = {"PENDING", "COMPLETED"}
  Ops = {"initiate", "verify", "notify", "fail", "packs"}
  MaxTime = 0
  MaxSubs = 2
  MaxFaults = 1
PROPERTIES CompletedIsConfirmed ClientLearns
CHECK_DEADLOCK FALSE
