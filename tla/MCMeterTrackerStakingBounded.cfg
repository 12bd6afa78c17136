\* As MCMeterTrackerStaking.cfg: is all bounded balance in listed buckets?
CONSTANTS
  a1 = a1
  a2 = a2
  a3 = a3
  Addrs <- MCAddrs
  Cands <- MCCands
  MaxBuckets = 3
  Amounts = {1, 2}
  MinBound = 1
  InitBalance = 3
  GenesisBonus = 1
SPECIFICATION Spec
CHECK_DEADLOCK FALSE
INVARIANT BoundedInBuckets
