SPECIFICATION MCSpec
CONSTANTS
    Ports = {1, 2}
    Bindings <- BindingsOfPorts
    app = app
    other = other
    Programs = {app, other}
    Listed = {app}
    NoProcess = NoProcess
    Workers = 2
    Credentials = "valid"
    Lengths = {23}
    AnswerLengths = {32}
    MaxSockets = 2
    MaxSends = 2
    MaxDatagrams = 2
    MaxAnswers = 1
    MaxFailures = 1
    MaxTicks = 6
    MaxRebinds = 2
    PoolCountLimit = 1
INVARIANT TypeOK
INVARIANT RightClient
INVARIANT ServerListens
INVARIANT SteadyClients
INVARIANT ListedExactly
INVARIANT PacketsFit
PROPERTY RefusedAreRemoved
PROPERTY StopReturns
CHECK_DEADLOCK FALSE
