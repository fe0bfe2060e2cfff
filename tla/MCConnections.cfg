SPECIFICATION LinkFairSpec
CONSTANTS
    Socket <- MCSocket
    Silence = 3
    Poller = {p1, p2}
    Troubles = 3
INVARIANT Linked
PROPERTIES StaysClosed Settles
CHECK_DEADLOCK FALSE
