SPECIFICATION MCSpec
CONSTANTS
    Devices <- MCDevices
    MaxSockets = 3
    Address = {a, b, c}
    Timeout = 2
    MayFail = TRUE
    MaxTime = 4
    Known <- MCKnown
    InstanceField <- MCInstanceField
    Scenarios <- MCScenarios
    StreamAge = 100
    SecondsBetweenFetches = 2
INVARIANTS PortsSound ClientsServed NothingSwallowed AcceptedOnce CallersServed
PROPERTIES Reconnects
CHECK_DEADLOCK FALSE
