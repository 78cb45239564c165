SPECIFICATION PluginsSpec
CONSTANTS
    Scenarios <- NoScenarios
    MaxRequests = 6
    PortNames <- MCPorts
    VirtualPorts <- MCVirtual
    Smb2Ports <- MCSmb2
    Scripts <- NoScripts
    MaxPackets = 5
    SerialPorts <- MCSerialPorts
    Sessions <- NoSessions
    MaxAsks = 4
    SerialNames <- MCSerialNames
    Addresses <- MCAddresses
    Plays <- StoppedOnly
    MaxCalls = 6
    Orders <- NoOrders
    MaxOrders = 4
    m_iMaxThreadCount = 2
    Task <- MCTasks
    Objects <- MCObjects
PROPERTY StopsReturn
CHECK_DEADLOCK FALSE
