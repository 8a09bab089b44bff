SPECIFICATION MCSpec
CONSTANTS
  Threads = {gsm, sip}
  Owner = gsm
  SysCap = 1
  MaxExt = 2
  Attempts = 2
  MaxSends = 3
  MayFail = FALSE
INVARIANT NoStranded
PROPERTIES SentIsRead SendReturns ImplementsFifo
