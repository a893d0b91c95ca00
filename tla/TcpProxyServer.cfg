CONSTANTS Conns = {c1, c2}
          NoConn = NoConn
          MaxWait = 4
          MaxStarts = 2
SPECIFICATION FairSpec
INVARIANT TypeOK
INVARIANT OneOwner
PROPERTY RightConnection
PROPERTY ReadyIsAdopted
PROPERTY StopReturns
CHECK_DEADLOCK FALSE
