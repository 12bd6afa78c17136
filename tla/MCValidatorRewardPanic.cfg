CONSTANTS
  Addrs <- MCAddrs
  Unit = 10
  BaseReward = 2
  Totals <- MCTotals
  Powers <- MCPowers
  Commissions <- MCCommissions
  ShareSet <- MCShareSet
  AutobidSet <- MCAutobidSet
  MaxDelegates = 2
  MaxDists = 1
SPECIFICATION Spec
INVARIANT NoPanic
CHECK_DEADLOCK FALSE
