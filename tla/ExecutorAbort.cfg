CONSTANTS
    Worker = {w1, w2}
    Caller = {c1}
    Producer={}
    Aborter={a1}
    Thread = {w1, w2, c1, a1}
    Handler = {Executor}
    Task = {t1, t2}
    Executor = Executor
    NoThread = NoThread
    NoTask = NoTask
SPECIFICATION FairSpec
PROPERTY AbortsReturn
