CONSTANTS
    c1 = c1 c2 = c2 w1 = w1 w2 = w2 x = x y = y
    None = None
    Cpu <- TwoCpus
    Worker <- OneWorker
    Prio <- OneConsole
    Chan <- OneChan
    Durations = {1}
    MaxTick = 1
    MaxPending = 1
SPECIFICATION Spec
INVARIANT StackExclusive
