CONSTANTS
    t1 = t1 t2 = t2 t3 = t3 t4 = t4 p1 = p1 p2 = p2 r1 = r1 a = a
    Thread <- Tasks
    Chan = Chan
    None = None
    CPUs = {c1, c2}
    MaxInterrupts = 2
    N = 3
    Indices = {0, 1, 3, 4, 5, 9}
    Values = {1, 2}
SPECIFICATION MCSpec
INVARIANTS MutualExclusion NoLostWakeup ArrayIsMap
PROPERTIES ImplementsLock Progress Delivery CallsReturn
