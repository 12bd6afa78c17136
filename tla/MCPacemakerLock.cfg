\* Four members run; ValidateProposal may fail; no timer fires.
CONSTANTS
  N = 4
  MaxRound = 2
  CurEpoch = 1
  ExecFailRounds = {0, 1, 2}
  Nil = Nil
  Active = {0, 1, 2, 3}
  FireRounds = {}
SPECIFICATION Spec
PROPERTY LockMonotone
