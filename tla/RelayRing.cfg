CONSTANTS BufferSize = 4
          StreamLength = 10
SPECIFICATION FairSpec
INVARIANT TypeOK
INVARIANT RelayedInOrder
INVARIANT RecvSendDisjoint
INVARIANT NeverStalls
PROPERTY ImplementsChannel
PROPERTY StreamArrives
CHECK_DEADLOCK FALSE
