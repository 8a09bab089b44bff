SPECIFICATION MCSpec
CONSTANTS
  Threads = {gsm, sip, tmr}
  Owner = gsm
  SysCap = 1
  MaxExt = 1
  Attempts = 2
  MaxSends = 2
  MayFail = TRUE
INVARIANTS TypeOK InOrder Ownership CountNotNegative
PROPERTY IsFifo
CHECK_DEADLOCK FALSE
