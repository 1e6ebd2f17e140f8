CONSTANTS
    c1 = c1 c2 = c2 w1 = w1 w2 = w2 x = x y = y
    None = None
    Cpu <- TwoCpus
    Worker <- TwoWorkers
    Prio <- ShellAndConsole
    Chan <- OneChan
    Durations = {2}
    MaxTick = 3
    MaxPending = 2
SPECIFICATION FairSpec
INVARIANTS ThreadInOnePlace NoThreadLost OnlySavedResumed InterruptDiscipline
PROPERTIES QueueLockReleased ImplementsWaitChannels
