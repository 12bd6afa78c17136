CONSTANTS
  k1 = k1
  k2 = k2
  k3 = k3
  hGood = hGood
  hBad = hBad
  Voters <- MCVoters
  Keys <- MCKeys
  Hashes <- MCHashes
SPECIFICATION Spec
INVARIANT QCHasQuorum
