SPECIFICATION MCSpec
CONSTANTS
    a = a
    b = b
    c = c
    near = near
    far = far
    Characters = {a, b, c}
    Parties = {1, 2}
    Handlers = {1, 2}
    Hosts = {near, far}
    HostOf <- HostOfVal
    Nats = {1}
    Ports = {1, 2, 3, 4, 5, 6}
    NoEndpoint = NoEndpoint
    MaxGen = 2
    MaxMade = 8
    MaxInFlight = 1
    MaxChanges = 3
INVARIANTS SocketsAccounted RelayFollowsParty DatagramsFindThePeer
PROPERTIES CloseEnds
CHECK_DEADLOCK FALSE
