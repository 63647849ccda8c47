SPECIFICATION FairSpec
CONSTANTS
    Conn = {1, 2, 3}
    Host = {host}
    Name = {host, localhost}
    Resolve <- MCResolve
    Bootstrap = {localhost}
    MaxConnections = 1
    Descriptors = 2
    cli = cli
    saver = saver
    node = node
    acceptor = acceptor
    Nobody = Nobody
    host = host
    localhost = localhost
INVARIANTS TypeOK EntriesLive ReachableUnlessShared SlotsBalance PanicsExplained
PROPERTIES ShutdownEnds
CHECK_DEADLOCK FALSE
