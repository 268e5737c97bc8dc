\* Somebody else sends a SIGCHLD.
CONSTANTS
  Children = {c1, c2}
  MayKill = {}
  TimerRaces = FALSE
  Spurious = TRUE
  TermSignals = {}
  NoChild = NoChild
SPECIFICATION FairSpec
PROPERTY HandlerReturns
