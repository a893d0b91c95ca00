CONSTANTS
    Unset = Unset
    NoProcess = NoProcess
    Self = self
    System = system
    app = app
    other = other
    Processes = {app, other}
    MaxItems = 2
    MaxEdits = 4
    MaxStarts = 1
    MaxFailures = 1
    MaxTicks = 2
    Inputs <- MCInputs
    Filters <- MCFilters
    Unresolvable <- MCUnresolvable
    Peers <- MCPeers
    Ports <- MCPorts
    TcpPorts <- MCTcpPorts
    UdpPorts <- MCUdpPorts
SPECIFICATION Spec
INVARIANT RightDestination
INVARIANT InUseIsTranslated
INVARIANT NoLoop
INVARIANT ListedExactly
INVARIANT OwnFilters
CHECK_DEADLOCK FALSE
