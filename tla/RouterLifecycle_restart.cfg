CONSTANTS Adapters <- MCAdapters
          Interfaces <- MCInterfaces
          NoAdapter = NoAdapter
          MaxChanges = 1
          MaxStarts = 1
SPECIFICATION FairSpec
PROPERTY RestartEnds
CHECK_DEADLOCK FALSE
