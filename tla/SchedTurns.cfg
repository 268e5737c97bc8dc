\* The timer never expires inside the handler of SIGCHLD.
CONSTANTS
  Children = {c1, c2, c3}
  MayKill = {c1}
  TimerRaces = FALSE
  Spurious = FALSE
  TermSignals = {}
  NoChild = NoChild
SPECIFICATION FairSpec
PROPERTY TurnComes
