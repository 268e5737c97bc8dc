\* Liveness with two agents.
CONSTANTS
  Agents = {a1, a2}
  NumFlights = 1
  InitSeats <- OneFlight
  MaxAgents = 2
  MaxPending = 5
  Amounts <- OneSeat
  MaxCommands = 1
  Crashes = {}
  ServerMayCrash = FALSE
  NoAgent = NoAgent
  NoPid = NoPid
  JunkPid = JunkPid
SPECIFICATION FairSpec
PROPERTIES WaitersAreServed ConnectionsAreAnswered QuitEnds MessagesAreRead
