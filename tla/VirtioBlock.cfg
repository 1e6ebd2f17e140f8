CONSTANTS
    None = None
    Queue = Queue
    Irq = Irq
    Task = {t1, t2, t3, t4}
    Size = 8
SPECIFICATION FairSpec
INVARIANTS BuffersOutliveRequest AnsweredByDevice NoLostWakeup
PROPERTIES EveryRequestReturns SomebodyIsServed
