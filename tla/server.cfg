\* Two addresses, four descriptors, one outgoing socket.
SPECIFICATION Spec
CONSTANTS
    Addrs = {"a", "b"}
    Sockets = {"s1", "s2", "s3", "s4", "s5"}
    MaxFd = 4
    MaxConns = 2
    MaxCalls = 5
INVARIANTS
    FdOwned
PROPERTIES
    StopSilences
    StartedAccepts
