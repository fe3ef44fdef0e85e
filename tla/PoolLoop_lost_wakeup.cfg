\* stop() notifies without queueMutex.
CONSTANTS
    f1 = f1  f2 = f2  c1 = c1  c2 = c2  c3 = c3  w1 = w1  w2 = w2
    None = None  ListenFd = ListenFd  StopFd = StopFd
    Fds <- OneFd
    Conns <- TwoConns
    Workers <- TwoWorkers
    Expirable = {}
    MaxSignals = 1
    EpollMayFail = FALSE
SPECIFICATION Spec
INVARIANT NoSleeperAtJoin
CHECK_DEADLOCK FALSE
