CONSTANTS
  r1 = r1  r2 = r2  d1 = d1  d2 = d2
  Rates = {2083333, 2083334, 53333334}
  MayFail = TRUE
  MayLose = TRUE
  MaxLeft = 2
  Second = 60
  Rate <- MCRate
  Stamp <- MCStamp
  Delay <- MCDelay
  Reg = {r1, r2}  Value = {0, 1}  Hello = 55  Tries = 2  MaxAsked = 3  MaxSets = 1
  Board = {d1, d2}  Sizes = {1, 2}  MaxStream = 3
SPECIFICATION MCSpec
INVARIANTS LowRateHasFir FirsAgree Settled StaleAnswers ReadsOwnWrites
INVARIANTS ReadsOneFrame TimesAreNearest
PROPERTIES CallEnds StreamReadEnds
