\* Nobody aborts: two workers, two callers and a producer share two tasks.
CONSTANTS
    Worker = {w1, w2}
    Caller = {c1, c2}
    Producer = {p1}
    Aborter = {}
    Thread = {w1, w2, c1, c2, p1}
    Executor = Executor
    Handler = {Executor}
    Task = {t1, t2}
    NoThread = NoThread
    NoTask = NoTask
SPECIFICATION FairSpec
PROPERTY CallsReturn
