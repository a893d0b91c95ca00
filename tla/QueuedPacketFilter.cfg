CONSTANTS Blocks = {b1, b2}
          NoBlock = NoBlock
          BlockSize = 2
          MaxPackets = 2
          Sent = {1}
          MaxStarts = 2
SPECIFICATION Spec
INVARIANT PacketsKept
INVARIANT BlocksCirculate
INVARIANT StopLeavesNothing
INVARIANT NoLostWakeup
CHECK_DEADLOCK FALSE
