SPECIFICATION Spec
CONSTANTS
  t1 = t1
  t2 = t2
  Null = Null
  Thread = {t1, t2}
  Reg = {1}
  Value = {0}
  MayLose = TRUE
  MayBeLate = TRUE
  Errors <- AllErrors
  MaxLate = 2
PROPERTY OnlyLossStarves
