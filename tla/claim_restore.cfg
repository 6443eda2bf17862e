\* Two versions of a story, one that calls, one that fails, at the grain of the instruction.
SPECIFICATION MCForgeSpec
CONSTANTS
    Program <- MCProgram
    Weave <- MCWeave
    Seed = {1}
    PrngStates = 5
    MaxSteps = 45
    MaxDepth = 3
    MaxTurns = 2
    MaxVisits = 3
    Fuel = 20
    Length = 1
PROPERTY RestoredOrUntouched
CHECK_DEADLOCK FALSE
