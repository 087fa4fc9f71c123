\* Three workers, two callers, a producer and an aborter share three tasks.
CONSTANTS
    Worker = {w1, w2, w3}
    Caller = {c1, c2}
    Producer = {p1}
    Aborter = {a1}
    Thread = {w1, w2, w3, c1, c2, p1, a1}
    Executor = Executor
    Handler = {Executor}
    Task = {t1, t2, t3}
    NoThread = NoThread
    NoTask = NoTask
SPECIFICATION Spec
SYMMETRY Symmetric
INVARIANTS
    TypeOK
    NoTaskStranded
    ActiveCount
    NoEarlyExit
    NoDanglingHandler
    NoLostWakeUp
PROPERTY ImplementsPool
