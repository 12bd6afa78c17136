\* Heights up to 4 with a K-block at height 2, so one epoch ends and the
\* next begins; cmdCh of capacity 2 as in NewPacemaker; EpochEndCh of 1.
CONSTANTS
  MaxHeight = 4
  KHeights = {2}
  CmdCap = 2
  EpochEndCap = 1
SPECIFICATION Spec
PROPERTY EpochEndRegulates
CHECK_DEADLOCK FALSE
