SPECIFICATION QueueSpec
CONSTANTS
    Writer = prod
    Consumers = {c1, c2, c3}
    MaxSize = 3
    Elems = {e1, e2}
INVARIANT NoLostWakeup
PROPERTY AtomicSpec
