
CONSTANTS
    Worker = {w1, w2}
    Caller = {c1}
    Producer = {p1}
    Aborter = {}
    Thread = {w1, w2, c1, p1}
    Executor = Executor
    Handler = {Executor}
    Task = {t1, t2}
    NoThread = NoThread
    NoTask = NoTask
SPECIFICATION Spec
INVARIANT NoReadyLost
