\* Three members run, one is down; timers of round 0 fire; the proposal
\* of round 0 may fail validation.
CONSTANTS
  N = 4
  MaxRound = 2
  CurEpoch = 1
  ExecFailRounds = {0}
  Nil = Nil
  Active = {0, 1, 2}
  FireRounds = {0}
SPECIFICATION Spec
INVARIANT TypeOK
INVARIANT CommitHasTwoChain
