SPECIFICATION Spec
CONSTANTS
    s1 = s1
    s2 = s2
    t1 = t1
    t2 = t2
    x = x
    Sock <- Socks
    Thread <- Threads
    Addr <- Addrs
    None = None
    RcvBuf = 2
    MaxPackets = 4
INVARIANTS
    TypeOK
    InOrder
    FourPackets
PROPERTIES
    Served
CHECK_DEADLOCK FALSE
