CONSTANTS
    c1 = c1 c2 = c2 w1 = w1 w2 = w2 x = x y = y
    None = None
    Cpu <- OneCpu
    Worker <- TwoWorkers
    Prio <- TwoConsole
    Chan <- TwoChans
    Durations = {0, 2}
    MaxTick = 3
    MaxPending = 3
SPECIFICATION FairSpec
INVARIANTS NoOrphan BlockNeverFallsThrough
PROPERTIES NeverEarly TopPriorityRuns TimeoutsFire
