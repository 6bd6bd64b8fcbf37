SPECIFICATION FairSpec
CONSTANTS
  Handlers = {h1, h2}
  MaxPayouts = 2
  MaxMoves = 2
  MaxFaults = 1
INVARIANTS PayoutsAreRecorded DoublesOnlyByRace
PROPERTIES RefinesBook SummarySettles NounuIsTold
CHECK_DEADLOCK FALSE
