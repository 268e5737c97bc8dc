\* Four commands, anything striking once.
CONSTANTS
  Base = 4
  SizeBytes = 2
  Weight <- Powers
  BlockSize = 2
  Sources <- SomeFiles
  Patterns <- AllOrSome
  Faults = {"kill", "full", "short", "shrink"}
  MaxCommands = 4
  MaxFaults = 1
SPECIFICATION FairSpec
INVARIANTS TypeOK FileWellFormed MoveLosesNothing
PROPERTIES ImplementsStore CommandsEnd CrashSparesWhatIsInFront
