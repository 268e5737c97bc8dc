\* Three children, anything may happen at any point.
CONSTANTS
  Children = {c1, c2, c3}
  MayKill = {c1, c2, c3}
  TimerRaces = TRUE
  Spurious = TRUE
  TermSignals = {"INT", "TERM"}
  NoChild = NoChild
SPECIFICATION Spec
SYMMETRY ChildSymmetry
INVARIANTS TypeOK OneRunner ListMatchesChildren OnlyTheRunnerRuns ListShowsOneRunner NobodyOutlivesQuit
