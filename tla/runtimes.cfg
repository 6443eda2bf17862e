\* The AI queue; a plugin; two versions of a story, one that calls, one that fails; weaves.
SPECIFICATION RuntimesSpec
CONSTANTS
    Task = {t1, t2, t3, t4}
    Concurrency = 2
    Request = {r1, r2}
    MaxRestarts = 2
    MaxSandboxes = 2
    MaxWorkers = 4
    Program <- MCProgram
    Weave <- MCWeave
    Seed = {1}
    PrngStates = 5
    MaxSteps = 45
    MaxDepth = 3
    MaxTurns = 2
    MaxVisits = 3
    Fuel = 20
    Length = 3
INVARIANTS SlotsAgree RestartBudget
INVARIANTS StopsAreClean SavesAreComplete RewindReproduces OnceOnlyIsTakenOnce ShuffleIsFair PlaysAsWritten
PROPERTIES SettledOnce EveryTaskSettles DisableEnds EnableEnds
CHECK_DEADLOCK FALSE
