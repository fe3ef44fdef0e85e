\* Two descriptors, two clients, two workers, no idle client.
CONSTANTS
    f1 = f1  f2 = f2  c1 = c1  c2 = c2  c3 = c3  w1 = w1  w2 = w2
    None = None  ListenFd = ListenFd  StopFd = StopFd
    Fds <- TwoFds
    Conns <- TwoConns
    Workers <- TwoWorkers
    Expirable = {}
    MaxSignals = 0
    EpollMayFail = FALSE
SPECIFICATION FairSpec
INVARIANTS SingleOwner NoCrossTalk
PROPERTIES EventServed
CHECK_DEADLOCK FALSE
