\* Agents and server killed at any point.
CONSTANTS
  Agents = {a1, a2}
  NumFlights = 1
  InitSeats <- OneFlight
  MaxAgents = 2
  MaxPending = 5
  Amounts <- OneSeat
  MaxCommands = 2
  Crashes = {a1, a2}
  ServerMayCrash = TRUE
  NoAgent = NoAgent
  NoPid = NoPid
  JunkPid = JunkPid
SPECIFICATION Spec
SYMMETRY AgentSymmetry
INVARIANTS TypeOK SemaphoreIsLock ConfirmedSeatsAreGone FileReflectsSales
PROPERTY ImplementsLedger
