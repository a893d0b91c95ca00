CONSTANTS Adapters <- MCAdapters
          Interfaces <- MCInterfaces
          NoAdapter = NoAdapter
          MaxChanges = 2
          MaxStarts = 2
SPECIFICATION FairSpec
INVARIANT OneAtATime
INVARIANT InterfacesKept
INVARIANT FollowsNetwork
PROPERTY EndsOrHangs
CHECK_DEADLOCK FALSE
