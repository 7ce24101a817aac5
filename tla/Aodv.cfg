CONSTANTS
    a = a
    b = b
    c = c
    Nodes <- MCNodes
    Links <- MCLinks
    Packets <- MCPackets
    AODV_TTL_START = 1
    AODV_TTL_INCREMENT = 2
    AODV_TTL_THRESHOLD = 1
    AODV_NET_DIAMETER = 3
    AODV_RREQ_RETRIES = 1
    RerrLimit = 0
    AODV_ACTIVE_ROUTE_TIMEOUT = 2
    AODV_DELETE_PERIOD = 3
    ReverseLife = 3
    HelloLife = 1
    RingTime = 1
    AODV_NET_TRAVERSAL_TIME = 1
    MaxFloods = 2
    MaxAir = 1
SPECIFICATION FairSpec
INVARIANTS TypeOK WaitingHasTimer ErrorFindsPrecursors
PROPERTIES EarlyRemovalNeedsStale QueuedIsServed
CHECK_DEADLOCK FALSE
