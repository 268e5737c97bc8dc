\* Two files through pipes of two items, anything failing.
CONSTANTS
  NumFiles = 2
  PipeSize = 2
  MayFail = {1, 2, 3}
  MayDie = {1, 2, 3}
  ParentMayFail = TRUE
  Shrinking = {1}
SPECIFICATION FairSpec
INVARIANTS TypeOK ArchiveInOrder AtMostOneIsTorn EndInOrder KillsChildren LeavesNoOrphans
PROPERTIES ImplementsJob EverybodyEnds
