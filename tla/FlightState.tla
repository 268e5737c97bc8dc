---------------------------- MODULE FlightState ----------------------------
(***************************************************************************)
(* The state of the flight reservation system of hw3: one server and its   *)
(* agents, each a process of its own, that share the seat table in System  *)
(* V shared memory, one semaphore, and a UNIX stream socket per agent.     *)
(*                                                                         *)
(* The two programs' locals, the kernel objects they share, and the        *)
(* history variables the properties are stated with are declared here;     *)
(* FlightAgent and FlightServer hold the actions of agent.c and server.c.  *)
(***************************************************************************)
EXTENDS AgentArray, Sequences, FiniteSets

CONSTANTS
  Agents,         \* the agent processes a user may start
  NumFlights,     \* flight_num
  InitSeats,      \* the seats of each flight in the flight file
  MaxPending,     \* MAX_PENDING, the listen() backlog
  Amounts,        \* the numbers a user may give as NUM
  MaxCommands,    \* bound: FIND and RESERVE commands per agent
  Crashes,        \* bound: the agents that may be killed from outside
  ServerMayCrash, \* bound: whether the server may be killed from outside
  NoAgent, JunkPid

VARIABLES
  \* IPC objects and the flight file
  seats,      \* flights[k].seats in shared memory
  sem,        \* value of the semaphore
  ipc,        \* which of semaphore and shared memory still exist
  file,       \* the seats column of the flight file, a line per flight
  \* sockets, as the kernel sees them
  backlog,    \* connections the server has not accepted yet
  srv,        \* the server's end of each agent's connection
  sfd,        \* the descriptor of that end in the server
  pidState,   \* the pid message of the handshake
  toServer,   \* the ints on their way to the server
  reply,      \* the server's answer to the connection
  \* agent.c
  apc,        \* where each agent is
  cmd,        \* option and flight_info of the command being executed
  sawSock,    \* the agents whose last select reported age_sock
  budget,     \* commands the user may still type
  \* server.c
  spc,        \* where the server is
  stdin,      \* the server's: "empty", "quit" ("Q" or ^D is next), "pair" (another
              \* line, then "Q"), or "held" (the "Q" is in fgets's buffer)
  rset,       \* sel_nfo.r_set, less what has been processed
  master,     \* sel_nfo.r_master_set
  nfds,       \* sel_nfo.nfds
  agent_array,
  agentNum,   \* agent_num
  cur,        \* the agent process_connection_request is dealing with
  ret,        \* what server_loop is going to return
  \* history
  holder,     \* the agent whose sem_down has not been matched by a sem_up
  sold,       \* seats of each flight whose sale was sent to the server
  booked,     \* seats each agent has sent to the server
  confirmed   \* seats of each flight a user was told [SUCCESS] of

ipcVars    == <<seats, sem, ipc, holder>>
sockVars   == <<backlog, srv, sfd, pidState, toServer, reply>>
agentVars  == <<apc, cmd, sawSock, budget>>
serverVars == <<spc, stdin, rset, master, nfds, agent_array, agentNum, cur, ret>>
history    == <<sold, booked, confirmed>>
vars       == <<ipcVars, file, sockVars, agentVars, serverVars, history>>

-----------------------------------------------------------------------------
Flights == 1 .. NumFlights
NoFlight == 0           \* a flight the table does not have

BYE == -1

(* What the server may take for an agent's pid.                            *)
Pids == Agents \cup {NoPid, JunkPid}

Stdin    == 0
ListenFd == 3
\* one descriptor per table slot, and one for a connection being refused
AgentFds == (ListenFd + 1) .. (ListenFd + 1 + MaxAgents)

ASSUME ConstantsAssumption ==
  /\ NumFlights \in Nat
  /\ InitSeats \in [Flights -> Nat]
  /\ MaxPending \in Nat
  /\ Amounts \subseteq Int
  /\ MaxCommands \in Nat
  /\ Crashes \subseteq Agents
  /\ ServerMayCrash \in BOOLEAN
  /\ IsFiniteSet(Agents)
  /\ NoAgent \notin Agents
  /\ NoPid \notin Agents
  /\ JunkPid \notin Agents \cup {NoPid}

Commands ==
  [op : {"reserve"}, flight : Flights \cup {NoFlight}, num : Amounts]
  \cup {[op |-> "find", flight |-> NoFlight, num |-> 0],
        [op |-> "exit", flight |-> NoFlight, num |-> 0]}

-----------------------------------------------------------------------------
(* Program counters of an agent.                                           *)
Critical == {"check", "take", "report", "confirm", "up"}  \* between down and up
Attached == {"loop", "down", "bye"} \cup Critical         \* has the table mapped
Running  == {"sendpid", "handshake", "attach"} \cup Attached
Ended    == {"exited", "failed", "killed"}                \* status 0, 1, a signal

(* Program counters of the server.                                         *)
Answering == {"readpid", "sendipc", "sendfull"}
Serving   == {"select", "accept", "messages"} \cup Answering
Unlinked  == {"rmsem", "rmshm", "done"}             \* listener closed
Closing   == {"truncate", "write", "unlisten"}      \* agents disconnected

Listening == spc \notin Unlinked \cup {"killed"}

(* A process's sockets are closed when it ends, so the agent's end of a    *)
(* connection is open exactly while the agent runs.                        *)
ClientGone(a) == apc[a] \in Ended

(* Bytes the server has received from a and not read.  AF_UNIX gives the   *)
(* peer ECONNRESET rather than an end of file if a socket is closed over   *)
(* unread bytes.                                                           *)
UnreadByServer(a) == pidState[a] = "sent" \/ toServer[a] # <<>>

(* select() reports the server's end: data, or the peer has closed.        *)
Readable(a) == toServer[a] # <<>> \/ ClientGone(a)

FreeFds == {fd \in AgentFds : \A a \in Agents : ~(srv[a] = "open" /\ sfd[a] = fd)}

(* Closing server ends, given as a set of agents.                          *)
Closed(S) == [a \in Agents |-> IF a \in S THEN "closed" ELSE srv[a]]

=============================================================================
