SPECIFICATION FairSpec
CONSTANTS
  Range = 8
  Freqs = {1}
  DefaultFreq = 1
  Clocks = {2, 15}
  HSI = 2
  PLL = 15
  ReloadMax = 63
  Delays = {1, 3}
  MainDelay = 3
  Lag = 0
  MaxElapsed = 16
  tty = tty
  lcd = lcd
  Nil = Nil
  Modules <- MCModules
  HeapLow = 4
  HeapHighs = {4, 7, 10}
  Need <- MCNeed
  MaxResets = 1
INVARIANTS
  UsesLoaded
  SdramUp
  NothingLost
  HeapSound
  Registered
PROPERTIES
  KeepsPrinting
