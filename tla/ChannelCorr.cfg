SPECIFICATION MCSpec
CONSTANTS
  t1 = t1
  Null = Null
  Thread = {t1}
  Reg <- MCReg
  Value <- MCValue
  Coef <- MCCoef
  Channels = {1, 2}
  Plain <- MCPlain
  Chip <- MCChip
  MayLose = TRUE
  MayBeLate = FALSE
  Errors <- SendtoErrors
  MaxLate = 2
INVARIANTS CorrTypeOK SwitchSet
PROPERTIES CorrReturns ServiceSpec PortsSpec
