SPECIFICATION Spec
CONSTANTS
    Scripts = {s1, s2}
    Handlers = {h1, h2}
    Perms = {"packs", "write"}
    DemoPerms = {"write"}
    Prefs = 2
    MaxStarts = 2
    MaxMoves = 2
    MaxFaults = 1
SYMMETRY ProcessSymmetry
INVARIANTS  SubAdminIsAuthorised NounuKnowsTheDecision
PROPERTIES SeedOpensTheDoor RepeatAddsNothing
CHECK_DEADLOCK FALSE
