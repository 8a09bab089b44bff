SPECIFICATION MCSpec
CONSTANTS
  Clients = {gsm, sip}
  Timers = {t1, t2}
  UserOf <- OneEach
  Calls = {"start", "cancel", "update", "destroy"}
  Durations = {1, 2}
  MaxInt = 7
  QCap = 1
  MaxCalls <- Calls31
  Grain = 2
  MaxTime = 2
  CreateRace = FALSE
INVARIANTS TypeOK ListMatchesActive OwnResult OnTime CancelEffective
PROPERTIES IsTimerService CallReturns TimerEnds
