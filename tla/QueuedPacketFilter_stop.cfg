CONSTANTS Blocks = {b1, b2}
          NoBlock = NoBlock
          BlockSize = 1
          MaxPackets = 1
          Sent = {1}
          MaxStarts = 1
SPECIFICATION FairSpec
PROPERTY StopCompletes
CHECK_DEADLOCK FALSE
