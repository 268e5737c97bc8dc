---------------------------- MODULE FlightSystem ----------------------------
(***************************************************************************)
(* The flight reservation system: FlightServer and FlightAgent over the    *)
(* shared state of FlightState, and what the two together must guarantee.  *)
(***************************************************************************)
EXTENDS FlightServer, FlightAgent, SequencesExt

Init ==
  \* load_flight_file, sem_create and create_listener_socket have succeeded
  /\ seats = InitSeats /\ sem = 1 /\ ipc = "live"
  /\ file = [k \in 1 .. NumFlights |-> InitSeats[k]]
  /\ backlog = <<>>
  /\ srv      = [a \in Agents |-> "none"]
  /\ sfd      = [a \in Agents |-> 0]
  /\ pidState = [a \in Agents |-> "unsent"]
  /\ toServer = [a \in Agents |-> <<>>]
  /\ reply    = [a \in Agents |-> "none"]
  /\ apc      = [a \in Agents |-> "start"]
  /\ cmd      = [a \in Agents |-> [op |-> "find", flight |-> NoFlight, num |-> 0]]
  /\ sawSock  = {}
  /\ budget   = [a \in Agents |-> MaxCommands]
  /\ spc = "select" /\ stdin = "empty" /\ rset = {}
  /\ master = {Stdin, ListenFd} /\ nfds = ListenFd + 1
  /\ agent_array = agent_arr_init /\ agentNum = 0
  /\ cur = NoAgent /\ ret = 0
  /\ holder = NoAgent
  /\ sold      = [f \in Flights |-> 0]
  /\ booked    = [a \in Agents |-> 0]
  /\ confirmed = [f \in Flights |-> 0]

(* Every process has ended: the only way the system may stop.              *)
Terminated ==
  /\ spc \in {"done", "killed"} /\ \A a \in Agents : apc[a] \in Ended
  /\ UNCHANGED vars

Next ==
  \/ ServerStep \/ TypeQuit \/ ServerCrash
  \/ \E a \in Agents : AgentStep(a) \/ UserStep(a)
  \/ Terminated

Spec == Init /\ [][Next]_vars

(* The kernel schedules every process that can run, and hands a semaphore  *)
(* to those waiting in semop() in the order they arrived, so nobody is     *)
(* overtaken for ever.  Users owe the system nothing: no fairness for      *)
(* starting an agent, typing a command, typing "Q" or killing anybody.     *)
Fairness ==
  /\ WF_vars(ServerStep)
  /\ \A a \in Agents : WF_vars(AgentStep(a)) /\ SF_vars(Down(a))

FairSpec == Spec /\ Fairness

-----------------------------------------------------------------------------
AgentPc  == {"start"} \cup Running \cup Ended
ServerPc == Serving \cup {"summary", "clear"} \cup Closing \cup Unlinked \cup {"killed"}
Descriptors == {Stdin, ListenFd} \cup AgentFds

IpcTypeOK ==
  /\ seats \in [Flights -> Int]
  /\ sem \in Int
  /\ ipc \in {"live", "noSem", "gone"}
  /\ holder \in Agents \cup {NoAgent}
  /\ file \in Seq(Int)

SockTypeOK ==
  /\ backlog \in Seq(Agents)
  /\ srv \in [Agents -> {"none", "queued", "open", "closed"}]
  /\ sfd \in [Agents -> AgentFds \cup {0}]
  /\ pidState \in [Agents -> {"unsent", "sent", "read"}]
  /\ toServer \in [Agents -> Seq(Int)]
  /\ reply \in [Agents -> {"none", "ipc", "full", "read"}]

AgentTypeOK ==
  /\ apc \in [Agents -> AgentPc]
  /\ cmd \in [Agents -> Commands]
  /\ sawSock \subseteq Agents
  /\ budget \in [Agents -> Int]

ServerTypeOK ==
  /\ spc \in ServerPc
  /\ stdin \in {"empty", "quit", "pair", "held"}
  /\ rset \subseteq Descriptors /\ master \subseteq Descriptors /\ nfds \in Int
  /\ agent_array \in [Slots -> [pid : Pids, socket : AgentFds \cup {0}, seats : Int]]
  /\ agentNum \in Int
  /\ cur \in Agents \cup {NoAgent}
  /\ ret \in {-1, 0}

HistoryTypeOK ==
  /\ sold \in [Flights -> Int]
  /\ booked \in [Agents -> Int]
  /\ confirmed \in [Flights -> Int]

(* Every variable keeps its type.                                          *)
TypeOK == IpcTypeOK /\ SockTypeOK /\ AgentTypeOK /\ ServerTypeOK /\ HistoryTypeOK

-----------------------------------------------------------------------------
(* The semaphore is a lock: its value says whether somebody is inside, and *)
(* whoever is between sem_down and sem_up is the one who took it last      *)
(* (agent.c reserve_flight, find_flights).                                 *)
SemaphoreIsLock ==
  /\ sem = IF holder = NoAgent THEN 1 ELSE 0
  /\ \A a \in Agents : apc[a] \in Critical => holder = a

(* No flight is ever sold below zero, although the check of the seats and  *)
(* their subtraction are two accesses to shared memory.                    *)
NoOversell == \A f \in Flights : seats[f] >= 0

(* The seats of the reservation somebody is making, while they have been   *)
(* subtracted and not sent to the server (InReport), and while they have   *)
(* been sent and the user has not been told (InConfirm).                   *)
InStage(pc, f) ==
  IF holder # NoAgent /\ apc[holder] = pc /\ cmd[holder].flight = f
  THEN cmd[holder].num ELSE 0

InReport(f)  == InStage("report", f)
InConfirm(f) == InStage("confirm", f)

(* A seat that was sold has left the shared table and never returns to it, *)
(* and [SUCCESS] is only printed for seats that were sold, whatever        *)
(* happens to the agents (agent.c:353, 356, 360).                          *)
ConfirmedSeatsAreGone ==
  \A f \in Flights : /\ seats[f] + InReport(f) + sold[f] <= InitSeats[f]
                     /\ confirmed[f] + InConfirm(f) <= sold[f]

(* Every line update_file has written accounts for every seat sold, so for *)
(* every seat a user has been or will be told of, although it reads the    *)
(* table without the semaphore while agents may still be inside it: it     *)
(* runs after the last connection is closed.                               *)
FileReflectsSales ==
  spc \in {"write", "unlisten"} \cup Unlinked /\ ret = 0 =>
    \A f \in 1 .. Len(file) : file[f] + sold[f] <= InitSeats[f]

-----------------------------------------------------------------------------
Sockets == {agent_array[k].socket : k \in Occupied(agent_array)}

(* The server's three views of who is connected never drift apart: the     *)
(* table, the count and the select set name the same open connections, one *)
(* slot each, below nfds, so no agent is polled that has gone or forgotten *)
(* while it is connected.                                                  *)
TableConsistent ==
  spc \in Serving \ Answering =>
    /\ agentNum = Cardinality(Occupied(agent_array))
    /\ Cardinality(Sockets) = agentNum
    /\ master = {Stdin, ListenFd} \cup Sockets
    /\ \A fd \in master : fd < nfds
    /\ Sockets = {sfd[a] : a \in {b \in Agents : srv[b] = "open"}}
    /\ rset \cap AgentFds \subseteq master

(* What the server has counted for a connected agent and what is still in  *)
(* the socket add up to what the agent sold: slots are reset on reuse and  *)
(* no amount is lost, counted twice or credited to another agent.  (While  *)
(* a connection is answered its slot may hold a pid nobody sent.)          *)
Credit(msgs) ==
  LET sum[n \in 0 .. Len(msgs)] ==
        IF n = 0 THEN 0 ELSE sum[n - 1] + (IF msgs[n] = BYE THEN 0 ELSE msgs[n])
  IN  sum[Len(msgs)]

Unread(a) == Credit(toServer[a])

LedgerAddsUp ==
  spc \in Serving \ Answering =>
    \A k \in Occupied(agent_array) : \A a \in Agents :
      agent_array[k].pid = a => agent_array[k].seats + Unread(a) = booked[a]

(* A user who has read the FULL answer was refused; one whose connection   *)
(* the server closed while serving had said BYE or ended on its own.       *)
OnlyLeaversAreClosed ==
  spc \in Serving => \A a \in Agents : srv[a] = "closed" => 
     apc[a] \in Ended \/ reply[a] = "full"

-----------------------------------------------------------------------------
(* Nothing is sold once update_file may read the table: agents that are    *)
(* past their subtraction then cannot send it any more, and whoever still  *)
(* prints [SUCCESS] (agent.c:360), which may be after the file has been    *)
(* written, prints it for seats that were sold before.                     *)
NoSaleAfterUpdate ==
  [][(spc \in Closing \cup Unlinked)
     => (sold' = sold /\ \A f \in Flights : confirmed'[f] <= sold[f])]_vars

(* The system sells seats as the one-step ledger does, and tells users of  *)
(* sales that were made.                                                   *)
Ledger == INSTANCE SeatLedger WITH
  avail <- [f \in Flights |-> seats[f] + InReport(f)],
  told  <- confirmed,
  book  <- IF spc \in Serving \cup {"summary", "clear"} THEN "open" ELSE "closed"

ImplementsLedger == Ledger!Spec

-----------------------------------------------------------------------------
(* An agent that waits for the semaphore gets it or is turned away.        *)
WaitersAreServed == \A a \in Agents : apc[a] = "down" ~> apc[a] # "down"

(* Every agent that has sent its pid is answered, or learns that the       *)
(* server has gone.                                                        *)
ConnectionsAreAnswered == \A a \in Agents : apc[a] = "handshake" ~> apc[a] # "handshake"

(* server.c:508, 520: once "Q" is what the server reads next it cleans up  *)
(* and ends: a "Q" typed by itself, and one kept in fgets's buffer as soon *)
(* as anything more is typed.                                              *)
QuitEnds == stdin = "quit" ~> spc \in {"done", "killed"}

(* Every reservation is counted: what an agent sends is read, unless the   *)
(* server shuts down first.                                                *)
MessagesAreRead ==
  \A a \in Agents : toServer[a] # <<>> ~> (toServer[a] = <<>> \/ spc \notin Serving)

(* server.c:118, 153-155: a server that has ended by itself has brought    *)
(* the flight file up to date with the changes recorded in shared memory:  *)
(* nothing that agents who live do, in whatever order, makes server_loop   *)
(* fail and the sales of all be dropped.  (An agent that dies before it    *)
(* reads its answer does.)                                                 *)
SalesAreFiled ==
  spc = "done" => \A f \in Flights : file[f] + sold[f] <= InitSeats[f]

=============================================================================
