SPECIFICATION Spec
CONSTANTS
  u1 = u1
  k1 = k1
  Users = {u1, u2}
  Payments = {p1}
  Packs = {k1}
  Handlers = {h1, h2}
  Null = Null
  Owner <- OwnerIsU1
  PackOf <- ForPack
  DurationDays = {0, 1}
  DefaultDays = 1
  GatewayStatuses = {"PENDING", "COMPLETED"}
  Ops = {"initiate", "verify", "subscribe", "packs", "clock"}
  MaxTime = 1
  MaxSubs = 2
  MaxFaults = 0
SYMMETRY HandlerSymmetry
INVARIANT SubscriptionsArePaidFor
CHECK_DEADLOCK FALSE
