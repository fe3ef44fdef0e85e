\* Two reactors sharing two descriptor numbers, two clients, one signal.
CONSTANTS
    f1 = f1  f2 = f2  c1 = c1  c2 = c2  r1 = r1  r2 = r2
    None = None
    Fds <- TwoFds
    Conns <- TwoConns
    Reactors <- TwoReactors
    MaxSignals = 1
SPECIFICATION FairSpec
INVARIANTS TypeOK OneReactorOwns EventIsCurrent ActiveConnectionsAccounted
PROPERTIES ImplementsEventLoop StopTerminates
CHECK_DEADLOCK FALSE
