\* Four members run; timers of round 1 fire.
CONSTANTS
  N = 4
  MaxRound = 2
  CurEpoch = 1
  ExecFailRounds = {}
  Nil = Nil
  Active = {0, 1, 2, 3}
  FireRounds = {1}
SPECIFICATION Spec
INVARIANT NoPanic
