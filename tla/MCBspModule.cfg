SPECIFICATION FairSpec
CONSTANTS
  tty = tty
  lcd = lcd
  other = other
  Nil = Nil
  Modules <- MCModules
  HasPrepare <- MCHasPrepare
  HasSetup <- MCHasSetup
  HasDesetup <- MCHasDesetup
  Retries = FALSE
  Disciplined = TRUE
INVARIANTS
  WellFormed
  LiveIsLinked
  SetupGetsDescriptor
PROPERTIES
  ImplementsRegistry
  LoopsEnd
