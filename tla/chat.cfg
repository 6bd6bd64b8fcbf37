SPECIFICATION FairSpec
CONSTANTS
  u1 = u1
  u2 = u2
  Users = {u1, u2}
  Pairs <- ThreePairs
  Senders = {u1}
  Readers = {u2}
  Nounus = {u1}
  Handlers = {h1, h2}
  Nobody = Nobody
  MaxRooms = 2
  MaxMsgs = 2
  MaxMoves = 3
  MaxFaults = 1
INVARIANTS DoublesOnlyByRace CountedAtMostOnce
PROPERTIES BadgeClears Alerted
CHECK_DEADLOCK FALSE
