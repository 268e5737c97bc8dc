\* Three agents, room for two, two flights: FULL answers, slots and descriptors
\* reused, the server told to quit at any moment.
CONSTANTS
  Agents = {a1, a2, a3}
  NumFlights = 2
  InitSeats <- TwoFlights
  MaxAgents = 2
  MaxPending = 5
  Amounts <- OneOrTwo
  MaxCommands = 1
  Crashes = {}
  ServerMayCrash = FALSE
  NoAgent = NoAgent
  NoPid = NoPid
  JunkPid = JunkPid
SPECIFICATION Spec
SYMMETRY AgentSymmetry
INVARIANTS NoOversell SalesAreFiled LedgerAddsUp TableConsistent OnlyLeaversAreClosed
PROPERTY NoSaleAfterUpdate
