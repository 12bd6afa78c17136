\* A round timeout fired before the round advanced is handled late.
CONSTANTS
  N = 4
  MaxRound = 2
  CurEpoch = 1
  ExecFailRounds = {}
  Nil = Nil
  Active = {0, 1, 2}
  FireRounds = {0}
SPECIFICATION Spec
PROPERTY RoundMonotone
