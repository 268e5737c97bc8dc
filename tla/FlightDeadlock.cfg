\* The deadlock agent.c:357 means to avoid.
CONSTANTS
  Agents = {a1, a2}
  NumFlights = 1
  InitSeats <- OneFlight
  MaxAgents = 1
  MaxPending = 5
  Amounts <- AnySign
  MaxCommands = 2
  Crashes = {}
  ServerMayCrash = FALSE
  NoAgent = NoAgent
  NoPid = NoPid
  JunkPid = JunkPid
SPECIFICATION FairSpec
PROPERTY WaitersAreServed
CHECK_DEADLOCK FALSE
