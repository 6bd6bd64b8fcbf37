SPECIFICATION Spec
CONSTANTS
  u1 = u1
  k1 = k1
  Users = {u1}
  Payments = {p1}
  Packs = {}
  Handlers = {h1, h2}
  Null = Null
  Owner <- OwnerIsU1
  PackOf <- WithoutPack
  DurationDays = {}
  DefaultDays = 1
  GatewayStatuses = {"PENDING", "COMPLETED", "FAILED", "REFUNDED"}
  Ops = {"initiate", "verify", "notify", "check", "averify", "fail"}
  MaxTime = 0
  MaxSubs = 2
  MaxFaults = 1
SYMMETRY HandlerSymmetry
INVARIANTS StatusesAreGenuine GrantsOnlyIfMissing
PROPERTY ConfirmationIsKept
CHECK_DEADLOCK FALSE
