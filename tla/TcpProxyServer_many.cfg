CONSTANTS Conns = {c1, c2}
          NoConn = NoConn
          MaxWait = 3
          MaxStarts = 1
SPECIFICATION Spec
PROPERTY RightConnection
CHECK_DEADLOCK FALSE
