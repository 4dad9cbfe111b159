SPECIFICATION Spec
CONSTANTS
  t1 = t1
  t2 = t2
  Null = Null
  Thread = {t1}
  Reg = {1, 2}
  Value = {0, 1}
  MayLose = FALSE
  MayBeLate = TRUE
  Errors <- SendtoErrors
  MaxLate = 2
INVARIANTS SuccessIsOwn
