\* A child ended by a signal, anything failing.
CONSTANTS
  NumFiles = 1
  PipeSize = 1
  MayFail = {1, 2, 3}
  MayDie = {1, 2, 3}
  ParentMayFail = TRUE
  Shrinking = {}
SPECIFICATION FairSpec
INVARIANT KillSparesTheReaped
