SPECIFICATION FairSpec
CONSTANTS
  a = a
  b = b
  Users = {u1}
  Handlers = {h1, h2}
  Items = {a, b}
  Forms <- OneForm
  Nobody = Nobody
  MaxProfiles = 2
  MaxMedia = 2
  MaxMoves = 3
  MaxFaults = 1
INVARIANTS PreferencesAreTheLastForm DoublesOnlyByRace PhotoKept
PROPERTY PreferencesRepaired
CHECK_DEADLOCK FALSE
