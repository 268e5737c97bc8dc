\* A process dies and another waits for ever.
CONSTANTS
  Children = {c1, c2}
  MayKill = {}
  TimerRaces = TRUE
  Spurious = FALSE
  TermSignals = {}
  NoChild = NoChild
SPECIFICATION Spec
INVARIANT SomeoneRuns
