\* A producer, a waiter and the owner, with one task.
CONSTANTS
    Producer = {p1}
    Consumer = {}
    Waiter = {w1}
    Controller = {}
    Owner = o1
    Thread = {p1, w1, o1}
    Watcher = Watcher
    Handler = {Watcher}
    Task = {t1}
    NoThread = NoThread
    NoTask = NoTask
SPECIFICATION FairSpec
CHECK_DEADLOCK FALSE
PROPERTY AddReturns
