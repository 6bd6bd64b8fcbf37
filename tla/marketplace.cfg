SPECIFICATION FairSpec
CONSTANTS
  Owners = {u1, u3}
  Nounus = {u2}
  Handlers = {h1, h2}
  Nobody = Nobody
  Rows = 2
  MaxJobs = 2
  MaxApps = 2
  MaxReviews = 2
  MaxMoves = 4
  MaxFaults = 1
INVARIANTS JobsAreWhole PagesAreAPartition OwnerKnowsTheDecision PointsAverageTheReviews TogglesAreCounted
PROPERTY OwnerHears
CHECK_DEADLOCK FALSE
