CONSTANTS
    Clients <- Three
    PortOf <- ThreePorts
    Reqs <- RouteReqs
    ClientOf <- RouteClientOf
    SrcId <- RouteSrcId
    Kind <- RouteKinds
    NoReq = NoReq
    NoClient = NoClient
    NoId = NoId
SPECIFICATION Spec
INVARIANTS RoutedHome TableFresh
PROPERTY ClosedByOwner
\* a download whose file cannot be opened ends the process
CHECK_DEADLOCK FALSE
