\* Typed turns over connections of a live client that was disconnected before.
CONSTANTS
    Leds <- MCLeds
    JointIds = {"pan"}
    Profiles <- MCProfiles
    FirstProfile <- StackChan
    Ids = {1, 2, 3}
    Fixtures <- MCFixtures
    Files <- MCFiles
    LookValues = {0, 1}
    JointValues = {0, 3}
    Times = {0, 1}
    MaxTick = 5
    DefaultFrame <- MCDefaultFrame
    MaxFrames = 3
    Budgets <- TurnLostBudget
    Expressions = {1, 2}
    Visemes = {11}
    Pictures <- MCPictures
    Grids <- MCGrids
    SheetTargets <- MCSheetTargets
    MaxImages = 2
    MaxJobs = 2
SPECIFICATION Spec
INVARIANTS
    TurnsAreSettled
CHECK_DEADLOCK FALSE
