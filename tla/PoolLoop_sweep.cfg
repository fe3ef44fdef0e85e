\* Idle sweep, descriptor reuse and one signal.
CONSTANTS
    f1 = f1  f2 = f2  c1 = c1  c2 = c2  c3 = c3  w1 = w1  w2 = w2
    None = None  ListenFd = ListenFd  StopFd = StopFd
    Fds <- TwoFds
    Conns <- TwoConns
    Workers <- TwoWorkers
    Expirable <- TwoConns
    MaxSignals = 1
    EpollMayFail = TRUE
SPECIFICATION Spec
INVARIANTS TypeOK OneCustodian ActiveConnectionsAccounted NoneStranded AllButOneClosedAtExit
PROPERTIES ImplementsEventLoop
SYMMETRY PoolSymmetry
CHECK_DEADLOCK FALSE
