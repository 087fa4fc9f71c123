\* One thread in each role, but for two producers, and three tasks.  An operation on the
\* queue and waitForState() may lock each other out for good: see WatcherDeadlock.cfg.
CONSTANTS
    Producer = {p1, c2}
    Consumer = {c1, c2}
    Waiter = {w1}
    Controller = {k1}
    Owner = o1
    Thread = {p1, c1, c2, w1, k1, o1}
    Watcher = Watcher
    Handler = {Watcher}
    Task = {t1, t2, t3}
    NoThread = NoThread
    NoTask = NoTask
SPECIFICATION Spec
SYMMETRY TaskSymmetry
CHECK_DEADLOCK FALSE
INVARIANTS
    NoCallAfterDestroy
    StateAgrees
    ProgressCounts
    LoneWaiterWakes
