SPECIFICATION FairSpec
CONSTANTS
    n1 = n1
    n2 = n2
    n3 = n3
    NodeNames <- MCNodeNames
    DefaultGrpcPort = 65534
    HttpPort = 9650
    Faults = {"net", "file", "port", "stop", "tests"}
    MaxSignals = 3
INVARIANT TypeOK
INVARIANT UrlsMatchConfig
INVARIANT UrlsReachNodes
INVARIANT DistinctPorts
INVARIANT NeverAbandoned
INVARIANT PanicTakesTwo
INVARIANT NodesLeftOnFailureOnly
PROPERTY SignalEndsRun
PROPERTY ImplementsShutdown
