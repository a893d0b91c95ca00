CONSTANTS BufferSize = 3
SPECIFICATION HSpec
INVARIANT HTypeOK
INVARIANT RemovedWhenUnused
INVARIANT LengthsTell
INVARIANT NegotiationAdvances
PROPERTY RelayOnlyIfGranted
PROPERTY PasswordOnlyIfChosen
PROPERTY ImplementsTcpProxySocket
PROPERTY Reclaimed
CHECK_DEADLOCK FALSE
