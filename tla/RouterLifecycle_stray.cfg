CONSTANTS Adapters <- MCAdapters
          Interfaces <- MCInterfaces
          NoAdapter = NoAdapter
          MaxChanges = 1
          MaxStarts = 1
SPECIFICATION Spec
INVARIANT StoppedFilterStays
CHECK_DEADLOCK FALSE
