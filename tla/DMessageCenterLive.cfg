CONSTANTS
    Clients <- One
    PortOf <- OnePort
    Reqs <- LiveReqs
    ClientOf <- LiveClientOf
    SrcId <- LiveSrcId
    Kind <- LiveKinds
    NoReq = NoReq
    NoClient = NoClient
    NoId = NoId
SPECIFICATION FairSpec
PROPERTY PortReleased EventuallyAnswered
