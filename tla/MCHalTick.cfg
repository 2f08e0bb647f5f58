SPECIFICATION FairSpec
CONSTANTS
  Range = 32
  Freqs = {1, 3, 8}
  DefaultFreq = 1
  Clocks = {2, 15}
  HSI = 2
  ReloadMax = 63
  Delays = {0, 1, 6, 22, 24, 30, 31}
  Lag = 1
  MaxElapsed = 64
CHECK_DEADLOCK FALSE
INVARIANTS
  PeriodMatches
PROPERTIES
  DelayAtLeast
  DelayAtMost
  DelayReturns
