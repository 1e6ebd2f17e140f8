CONSTANTS
    p1 = p1 p2 = p2 r1 = r1 r2 = r2 a = a b = b
    None = None
    Producer <- TwoProducers
    Consumer <- TwoConsumers
    Item <- TwoItems
    N = 2
SPECIFICATION Spec
INVARIANTS NoLostWakeup
SYMMETRY Swaps
PROPERTIES ImplementsChannel
