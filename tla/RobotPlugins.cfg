SPECIFICATION PluginsSpec
CONSTANTS
    Scenarios <- MCScenarios
    MaxRequests = 6
    PortNames <- MCPorts
    VirtualPorts <- MCVirtual
    Smb2Ports <- MCSmb2
    Scripts <- MCScripts
    MaxPackets = 5
    SerialPorts <- MCSerialPorts
    Sessions <- MCSessions
    MaxAsks = 4
    SerialNames <- MCSerialNames
    Addresses <- MCAddresses
    Plays <- MCPlays
    MaxCalls = 6
    Orders <- MCOrders
    MaxOrders = 4
    m_iMaxThreadCount = 2
    Task <- MCTasks
    Objects <- MCObjects
INVARIANTS OneAnswer AnswersTrue M1FinishHonest LoopsLive NoTaskSleeps
PROPERTY AllAnswered
CHECK_DEADLOCK FALSE
