\* Sweep, descriptor reuse and a queued event: two workers on one Connection.
CONSTANTS
    f1 = f1  f2 = f2  c1 = c1  c2 = c2  c3 = c3  w1 = w1  w2 = w2
    None = None  ListenFd = ListenFd  StopFd = StopFd
    Fds <- OneFd
    Conns <- TwoConns
    Workers <- TwoWorkers
    Expirable <- TwoConns
    MaxSignals = 0
    EpollMayFail = FALSE
SPECIFICATION Spec
INVARIANT SingleOwner
CHECK_DEADLOCK FALSE
