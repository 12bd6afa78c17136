\* Three addresses, two of them candidates; three bucket IDs; amounts 1
\* and 2 with a minimal bound of 1; a genesis bucket may carry bonus votes.
CONSTANTS
  a1 = a1
  a2 = a2
  a3 = a3
  Addrs <- MCAddrs
  Cands <- MCCands
  MaxBuckets = 3
  Amounts = {1, 2}
  MinBound = 1
  InitBalance = 3
  GenesisBonus = 1
SPECIFICATION Spec
CHECK_DEADLOCK FALSE
INVARIANT TypeOK
PROPERTY LedgerSpec
INVARIANT BucketsBacked
INVARIANT VotesCoverValue
