------------------------- MODULE FlightTable_proofs -------------------------
(***************************************************************************)
(* Theorems about the server's table of agents and what rests on it: the   *)
(* table, the select set and the open connections agree; once the file is  *)
(* being written nobody is connected, so nobody sells; and so the system   *)
(* implements the ledger, and the table counts what every agent sold.      *)
(***************************************************************************)
EXTENDS FlightSystem_proofs

USE DEF serverOnly, agentOnly, ipcVars, sockVars, agentVars, serverVars, history,
        Goto, ServerGoto, AgentPc, ServerPc, Running, Attached, Ended, Critical,
        Serving, Answering, Closing, Unlinked

-----------------------------------------------------------------------------
(* The inductive invariant.  The server's end of a connection is "open"    *)
(* before the table has it: while the pid is read, and while a FULL answer *)
(* is on its way.                                                          *)
Seated == {a \in Agents : srv[a] = "open" /\ ~(spc \in {"readpid", "sendfull"} /\ a = cur)}

(* The agent being answered has ended.  If it ended before it sent its pid *)
(* the table may be out of step with the count, because the uninitialized  *)
(* pid may be 0; but the write of the answer then kills the server.        *)
Doomed == spc = "sendipc" /\ ClientGone(cur)

QueueOK ==
  /\ \A i \in 1 .. Len(backlog) : srv[backlog[i]] = "queued"
  /\ \A i, j \in 1 .. Len(backlog) : backlog[i] = backlog[j] => i = j
  /\ \A a \in Agents : apc[a] = "start" => srv[a] = "none"

OpenOK ==
  /\ \A a \in Agents : srv[a] = "open" => sfd[a] \in AgentFds
  /\ \A a, b \in Agents : srv[a] = "open" /\ srv[b] = "open" /\ sfd[a] = sfd[b] => a = b
  /\ spc \in Answering => srv[cur] = "open"

SeatedOK ==
  spc \in Serving \cup {"summary", "clear"} /\ ~Doomed =>
    /\ OneSlotEach(agent_array)
    /\ SocketsOf(agent_array) = {sfd[a] : a \in Seated}

SelectOK ==
  spc \in Serving /\ ~Doomed =>
    /\ agentNum = Cardinality(Occupied(agent_array))
    /\ master = {Stdin, ListenFd} \cup SocketsOf(agent_array)
    /\ \A fd \in master : fd < nfds
    /\ rset \cap AgentFds \subseteq SocketsOf(agent_array)

NobodyConnected ==
  spc \in Closing \cup Unlinked \cup {"killed"} => \A a \in Agents : srv[a] # "open"

TableOK == QueueOK /\ OpenOK /\ SeatedOK /\ SelectOK /\ NobodyConnected

TableInv == TypeInv /\ TableOK

LEMMA FdsApart == AgentFds \cap {Stdin, ListenFd} = {} /\ 0 \notin AgentFds
  BY MaxAgentsAssumption DEF AgentFds, Stdin, ListenFd

LEMMA ArrayType == ASSUME TypeInv PROVE agent_array \in Arrays
  BY DEF TypeInv, TypeOK, ServerTypeOK, Arrays, SlotRecords

LEMMA TableInit == Init => TableOK
<1> SUFFICES ASSUME Init PROVE TableOK
  OBVIOUS
<1>1. Occupied(agent_array) = {}
  BY DEF Init, Occupied, agent_arr_init
<1>2. SocketsOf(agent_array) = {} /\ Seated = {}
  BY <1>1 DEF SocketsOf, Seated, Init
<1>3. QueueOK /\ OpenOK /\ NobodyConnected
  BY DEF Init, QueueOK, OpenOK, NobodyConnected
<1>4. SeatedOK
  BY <1>1, <1>2 DEF SeatedOK, OneSlotEach
<1>5. Cardinality(Occupied(agent_array)) = 0
  BY <1>1, FS_EmptySet
<1>6. SelectOK
  BY <1>2, <1>5, FdsApart DEF SelectOK, Init, Stdin, ListenFd
<1> QED BY <1>3, <1>4, <1>6 DEF TableOK

-----------------------------------------------------------------------------
(* What the agents do.  Only connect() reaches the server's state, and it  *)
(* queues somebody who has no connection yet; nobody comes back from where *)
(* an agent ends.                                                          *)
LEMMA AgentFrame ==
  ASSUME TypeInv, NEW a \in Agents, AgentStep(a) \/ UserStep(a)
  PROVE  /\ UNCHANGED <<serverVars, sfd, file>>
         /\ UNCHANGED <<backlog, srv>> \/ Connect(a)
         /\ \A b \in Agents : ClientGone(b) => ClientGone(b)'
         /\ \A b \in Agents : (apc[b] = "start")' => apc[b] = "start"
<1> USE DEF TypeInv, TypeOK, AgentTypeOK, ClientGone
<1>1. CASE SendPid(a) \/ ReadReply(a) \/ ReadNoReply(a) \/ Attach(a)
  BY <1>1 DEF SendPid, ReadReply, ReadNoReply, Attach
<1>2. CASE ServerGone(a) \/ Down(a) \/ DownFails(a) \/ Check(a)
  BY <1>2 DEF ServerGone, LeftLoop, Down, DownFails, Check
<1>3. CASE Take(a) \/ Report(a) \/ ReportKilled(a) \/ Confirm(a) \/ Up(a)
  BY <1>3 DEF Take, Report, ReportKilled, Confirm, Up, LeftLoop
<1>4. CASE UpFails(a) \/ Bye(a) \/ Connect(a) \/ ConnectRefused(a)
  BY <1>4 DEF UpFails, Bye, Connect, ConnectRefused
<1>5. CASE Command(a) \/ Crash(a)
  BY <1>5 DEF Command, Crash
<1> QED BY <1>1, <1>2, <1>3, <1>4, <1>5 DEF AgentStep, UserStep

LEMMA ConnectQueue == ASSUME TableInv, NEW a \in Agents, Connect(a) PROVE QueueOK'
<1> USE DEF TableInv, TableOK, QueueOK, TypeInv, TypeOK, SockTypeOK, AgentTypeOK, Connect
<1>1. srv[a] = "none" /\ \A b \in Agents : srv'[b] = IF b = a THEN "queued" ELSE srv[b]
  OBVIOUS
<1>2. \A i \in 1 .. Len(backlog) : backlog[i] \in Agents /\ backlog[i] # a
  BY <1>1
<1>3. /\ Len(backlog') = Len(backlog) + 1 /\ Len(backlog) \in Nat
      /\ backlog'[Len(backlog) + 1] = a
      /\ \A i \in 1 .. Len(backlog) : backlog'[i] = backlog[i]
  OBVIOUS
<1>4. \A i \in 1 .. Len(backlog') : i \in 1 .. Len(backlog) \/ i = Len(backlog) + 1
  BY <1>3
<1>5. \A i \in 1 .. Len(backlog') : srv'[backlog'[i]] = "queued"
  BY <1>1, <1>2, <1>3, <1>4
<1>6. \A i, j \in 1 .. Len(backlog') : backlog'[i] = backlog'[j] => i = j
  BY <1>2, <1>3, <1>4
<1>7. \A b \in Agents : apc'[b] = "start" => srv'[b] = "none"
  BY <1>1
<1> QED BY <1>5, <1>6, <1>7

LEMMA AgentKeepsTable ==
  ASSUME TableInv, NEW a \in Agents, AgentStep(a) \/ UserStep(a)
  PROVE  TableOK'
<1> USE DEF TableInv, TableOK
<1>1. /\ UNCHANGED <<serverVars, sfd>>
      /\ \A b \in Agents : ClientGone(b) => ClientGone(b)'
      /\ \A b \in Agents : (apc[b] = "start")' => apc[b] = "start"
  BY AgentFrame
<1>2. \A b \in Agents : (srv[b] = "open")' <=> srv[b] = "open"
  <2>1. CASE UNCHANGED srv
    BY <2>1
  <2>2. CASE Connect(a)
    BY <2>2 DEF Connect, QueueOK, TypeInv, TypeOK, SockTypeOK
  <2> QED BY <2>1, <2>2, AgentFrame
<1>3. QueueOK'
  <2>1. CASE UNCHANGED <<backlog, srv>>
    BY <1>1, <2>1 DEF QueueOK
  <2> QED BY <2>1, ConnectQueue, AgentFrame
<1>4. spc \in Answering => cur \in Agents
  BY DEF TypeInv, ControlOK
<1>5. Doomed => Doomed'
  BY <1>1, <1>4 DEF Doomed
<1>6. Seated' = Seated
  BY <1>1, <1>2 DEF Seated
<1>7. OpenOK' /\ NobodyConnected'
  BY <1>1, <1>2, <1>4 DEF OpenOK, NobodyConnected
<1>8. SeatedOK'
  BY <1>1, <1>5, <1>6 DEF SeatedOK
<1>9. SelectOK'
  BY <1>1, <1>5 DEF SelectOK
<1> QED BY <1>3, <1>7, <1>8, <1>9

-----------------------------------------------------------------------------
(* What the server does.  Steps that leave the table and the connections   *)
(* alone.                                                                  *)
LEMMA SelectTable == ASSUME TableInv, Select PROVE TableOK'
<1> USE DEF TableInv, TableOK, Select
<1>1. Seated' = Seated /\ ~Doomed /\ ~Doomed'
  BY DEF Seated, Doomed
<1>2. QueueOK' /\ OpenOK' /\ NobodyConnected'
  BY DEF QueueOK, OpenOK, NobodyConnected
<1>3. SeatedOK'
  BY <1>1 DEF SeatedOK
<1>4. rset' \cap AgentFds \subseteq SocketsOf(agent_array)
  BY <1>1, FdsApart DEF SelectOK, Ready
<1>5. SelectOK'
  BY <1>1, <1>4 DEF SelectOK
<1> QED BY <1>2, <1>3, <1>5

LEMMA QuietServerTable ==
  ASSUME TableInv,
         TypeQuit \/ SendIpc \/ NextRound \/ PrintSummary \/ TruncateFile \/ WriteLine
         \/ CloseFile \/ RemoveSem \/ RemoveShm \/ \E a \in Agents : ReadFails(a)
  PROVE  TableOK'
<1> USE DEF TableInv, TableOK
<1>1. /\ UNCHANGED <<backlog, srv, sfd, apc, agent_array, agentNum, master, nfds>>
      /\ rset' \subseteq rset
      /\ spc' \in Answering => spc' = spc /\ cur' = cur
      /\ spc \in Answering => (spc' = spc /\ cur' = cur) \/ SendIpc
      /\ spc' \in Serving => spc \in Serving
      /\ spc' \in Serving \cup {"summary", "clear"} => spc \in Serving \cup {"summary", "clear"}
      /\ spc' \in Closing \cup Unlinked \cup {"killed"} => spc \in Closing \cup Unlinked \cup {"killed"}
  <2>1. CASE TypeQuit \/ SendIpc \/ NextRound \/ PrintSummary
    BY <2>1 DEF TypeQuit, SendIpc, NextRound, PrintSummary
  <2>2. CASE TruncateFile \/ WriteLine \/ CloseFile
    BY <2>2 DEF TruncateFile, WriteLine, CloseFile
  <2>3. CASE RemoveSem \/ RemoveShm \/ \E a \in Agents : ReadFails(a)
    BY <2>3 DEF RemoveSem, RemoveShm, ReadFails, Reading
  <2> QED BY <2>1, <2>2, <2>3
<1>2. Doomed => Doomed'
  BY <1>1 DEF Doomed, ClientGone, SendIpc
<1>3. Seated' = Seated
  BY <1>1 DEF Seated, SendIpc
<1>4. QueueOK' /\ OpenOK' /\ NobodyConnected'
  BY <1>1 DEF QueueOK, OpenOK, NobodyConnected
<1>5. SeatedOK'
  BY <1>1, <1>2, <1>3 DEF SeatedOK
<1>6. SelectOK'
  BY <1>1, <1>2 DEF SelectOK
<1> QED BY <1>4, <1>5, <1>6

(* accept() takes the head of the queue and the lowest free descriptor.    *)
LEMMA AcceptTable == ASSUME TableInv, Accept PROVE TableOK'
<1> USE DEF TableInv, TableOK, Accept, TypeInv, TypeOK, SockTypeOK
<1> DEFINE c == Head(backlog)
           fd == Min(FreeFds)
<1>1. fd \in FreeFds /\ fd \in AgentFds
  <2>1. FreeFds \subseteq AgentFds
    BY DEF FreeFds
  <2> QED BY <2>1, FdsAreNat, MinOfNat
<1>2. /\ c \in Agents /\ srv[c] = "queued" /\ c = backlog[1] /\ Len(backlog) \in Nat \ {0}
      /\ Len(Tail(backlog)) = Len(backlog) - 1
      /\ \A i \in 1 .. Len(Tail(backlog)) :
           /\ i + 1 \in 1 .. Len(backlog) /\ i + 1 # 1
           /\ Tail(backlog)[i] = backlog[i + 1]
  BY DEF QueueOK
<1> HIDE DEF c, fd
<1>3. \A b \in Agents : /\ srv'[b] = IF b = c THEN "open" ELSE srv[b]
                        /\ sfd'[b] = IF b = c THEN fd ELSE sfd[b]
  BY <1>2 DEF c, fd
<1>4. spc' = "readpid" /\ cur' = c /\ spc = "accept"
  BY DEF c
<1>5. QueueOK'
  <2>1. \A i \in 1 .. Len(Tail(backlog)) : Tail(backlog)[i] # c /\ Tail(backlog)[i] \in Agents
    <3> TAKE i \in 1 .. Len(Tail(backlog))
    <3>1. backlog[i + 1] # backlog[1] /\ backlog[i + 1] \in Agents
      BY <1>2 DEF QueueOK
    <3> QED BY <1>2, <3>1
  <2>2. \A i \in 1 .. Len(backlog') : srv'[backlog'[i]] = "queued"
    BY <1>2, <1>3, <2>1 DEF QueueOK
  <2>3. \A i, j \in 1 .. Len(backlog') : backlog'[i] = backlog'[j] => i = j
    <3> SUFFICES ASSUME NEW i \in 1 .. Len(backlog'), NEW j \in 1 .. Len(backlog'),
                        backlog'[i] = backlog'[j]
                 PROVE  i = j
      OBVIOUS
    <3>1. backlog[i + 1] = backlog[j + 1]
      BY <1>2
    <3>2. i + 1 = j + 1
      BY <1>2, <3>1 DEF QueueOK
    <3> QED BY <3>2
  <2>4. \A b \in Agents : apc'[b] = "start" => srv'[b] = "none"
    BY <1>2, <1>3 DEF QueueOK
  <2> QED BY <2>2, <2>3, <2>4 DEF QueueOK
<1>6. \A b \in Agents \ {c} : srv[b] = "open" => sfd[b] # fd
  BY <1>1 DEF FreeFds
<1>7. OpenOK'
  BY <1>1, <1>2, <1>3, <1>4, <1>6 DEF OpenOK
<1>8. Seated' = Seated /\ c \notin Seated
  BY <1>2, <1>3, <1>4 DEF Seated
<1>9. {sfd'[b] : b \in Seated'} = {sfd[b] : b \in Seated}
  BY <1>3, <1>8 DEF Seated
<1>10. ~Doomed /\ ~Doomed'
  BY <1>4 DEF Doomed
<1>11. SeatedOK'
  BY <1>4, <1>9, <1>10 DEF SeatedOK
<1>12. SelectOK' /\ NobodyConnected'
  BY <1>4, <1>10 DEF SelectOK, NobodyConnected
<1> QED BY <1>5, <1>7, <1>11, <1>12

(* The agent whose pid has been read gets a slot, or is to be refused.  An *)
(* agent that sent no pid has ended.                                       *)
LEMMA ReadPidTable == ASSUME TableInv, ReadPid PROVE TableOK'
<1> USE DEF TableInv, TableOK, ReadPid
<1>1. /\ cur \in Agents /\ srv[cur] = "open" /\ spc = "readpid"
      /\ UNCHANGED <<backlog, srv, sfd, apc, cur, rset>>
      /\ sfd[cur] \in AgentFds
  BY DEF TypeInv, ControlOK, OpenOK
<1>2. PICK pid \in (IF pidState[cur] = "sent" THEN {cur} ELSE Pids) :
        IF agentNum < MaxAgents
        THEN Admit(sfd[cur], pid) /\ ServerGoto("sendipc")
        ELSE ServerGoto("sendfull") /\ UNCHANGED <<agent_array, master, nfds, agentNum>>
  OBVIOUS
<1>3. spc' \in {"sendipc", "sendfull"}
  BY <1>2
<1>4. QueueOK' /\ OpenOK' /\ NobodyConnected'
  BY <1>1, <1>3 DEF QueueOK, OpenOK, NobodyConnected
<1>5. ~Doomed
  BY <1>1 DEF Doomed
<1>6. cur \notin Seated /\ sfd[cur] \notin SocketsOf(agent_array)
  BY <1>1, <1>5 DEF Seated, SeatedOK, OpenOK
<1>7. CASE agentNum < MaxAgents /\ pid # NoPid
  <2>1. pid \in Pids \ {NoPid}
    BY <1>1, <1>2, <1>7 DEF Pids
  <2>2. /\ agent_array' = agent_arr_insert(agent_array, sfd[cur], pid)
        /\ master' = master \cup {sfd[cur]}
        /\ nfds' = IF sfd[cur] >= nfds THEN sfd[cur] + 1 ELSE nfds
        /\ agentNum' = agentNum + 1
        /\ spc' = "sendipc"
    BY <1>2, <1>7 DEF Admit
  <2>3. OneSlotEach(agent_array) /\ agentNum = Cardinality(Occupied(agent_array))
    BY <1>1, <1>5 DEF SeatedOK, SelectOK
  <2>4. /\ OneSlotEach(agent_array')
        /\ SocketsOf(agent_array') = SocketsOf(agent_array) \cup {sfd[cur]}
        /\ Cardinality(Occupied(agent_array')) = Cardinality(Occupied(agent_array)) + 1
    BY <1>1, <1>6, <1>7, <2>1, <2>2, <2>3, ArrayType, InsertOccupied
  <2>5. Seated' = Seated \cup {cur}
    BY <1>1, <2>2 DEF Seated
  <2>6. SeatedOK'
    BY <1>1, <1>5, <2>4, <2>5 DEF SeatedOK
  <2>7. \A fd \in master' : fd < nfds'
    <3>1. sfd[cur] \in Int /\ nfds \in Int /\ \A fd \in master : fd \in Int /\ fd < nfds
      BY <1>1, <1>5, FdsAreNat DEF SelectOK, TypeInv, TypeOK, ServerTypeOK, Descriptors, Stdin, ListenFd
    <3> QED BY <2>2, <3>1
  <2>8. SelectOK'
    BY <1>1, <1>5, <2>2, <2>3, <2>4, <2>7 DEF SelectOK
  <2> QED BY <1>4, <2>6, <2>8
<1>8. CASE agentNum < MaxAgents /\ pid = NoPid
  <2>1. ClientGone(cur)
    BY <1>1, <1>2, <1>8, ConstantsAssumption
  <2>2. Doomed'
    BY <1>1, <1>2, <1>8, <2>1 DEF Doomed, ClientGone
  <2> QED BY <1>4, <2>2 DEF SeatedOK, SelectOK
<1>9. CASE ~(agentNum < MaxAgents)
  <2>1. spc' = "sendfull" /\ UNCHANGED <<agent_array, master, nfds, agentNum>>
    BY <1>2, <1>9
  <2>2. Seated' = Seated
    BY <1>1, <2>1 DEF Seated
  <2>3. SeatedOK' /\ SelectOK'
    BY <1>1, <1>5, <2>1, <2>2 DEF SeatedOK, SelectOK
  <2> QED BY <1>4, <2>3
<1> QED BY <1>7, <1>8, <1>9

(* A refused agent never was in the table.                                 *)
LEMMA SendFullTable == ASSUME TableInv, SendFull PROVE TableOK'
<1> USE DEF TableInv, TableOK, SendFull, TypeInv, TypeOK, SockTypeOK, Closed
<1>1. cur \in Agents /\ srv[cur] = "open" /\ spc = "sendfull" /\ spc' = "messages"
  BY DEF ControlOK, OpenOK
<1>2. \A b \in Agents : srv'[b] = IF b = cur THEN "closed" ELSE srv[b]
  OBVIOUS
<1>3. QueueOK'
  <2>1. \A i \in 1 .. Len(backlog) : backlog[i] \in Agents /\ backlog[i] # cur
    BY <1>1 DEF QueueOK
  <2> QED BY <1>1, <1>2, <2>1 DEF QueueOK
<1>4. OpenOK' /\ NobodyConnected'
  BY <1>1, <1>2 DEF OpenOK, NobodyConnected
<1>5. Seated' = Seated /\ ~Doomed /\ ~Doomed'
  BY <1>1, <1>2 DEF Seated, Doomed
<1>6. SeatedOK' /\ SelectOK'
  BY <1>1, <1>5 DEF SeatedOK, SelectOK
<1> QED BY <1>3, <1>4, <1>6

(* A server that is killed takes every connection with it.                 *)
LEMMA ServerDiesTable == ASSUME TableInv, AnswerKilled \/ ServerCrash PROVE TableOK'
<1> USE DEF TableInv, TableOK
<1>1. spc' = "killed" /\ backlog' = <<>> /\ UNCHANGED apc
  BY DEF AnswerKilled, ServerCrash, ServerDies
<1>2. \A b \in Agents : srv'[b] # "open" /\ (srv[b] = "none" => srv'[b] = "none")
  BY DEF AnswerKilled, ServerCrash, ServerDies, Closed
<1>3. QueueOK' /\ OpenOK' /\ NobodyConnected'
  BY <1>1, <1>2 DEF QueueOK, OpenOK, NobodyConnected
<1>4. SeatedOK' /\ SelectOK'
  BY <1>1 DEF SeatedOK, SelectOK
<1> QED BY <1>3, <1>4

LEMMA ReadAmountTable == ASSUME TableInv, NEW a \in Agents, ReadAmount(a) PROVE TableOK'
<1> USE DEF TableInv, TableOK
<1>1. /\ UNCHANGED <<backlog, srv, sfd, apc, spc, master, nfds, agentNum, cur>>
      /\ rset' \subseteq rset
      /\ spc = "messages"
      /\ agent_array' = [agent_array EXCEPT ![agent_arr_search(agent_array, sfd[a])].seats
                                               = @ + Head(toServer[a])]
  BY DEF ReadAmount, Reading
<1>2. /\ Occupied(agent_array') = Occupied(agent_array)
      /\ SocketsOf(agent_array') = SocketsOf(agent_array)
      /\ OneSlotEach(agent_array) => OneSlotEach(agent_array')
  BY <1>1, ArrayType, AddSeatsOccupied
<1>3. Seated' = Seated /\ ~Doomed /\ ~Doomed'
  BY <1>1 DEF Seated, Doomed
<1>4. QueueOK' /\ OpenOK' /\ NobodyConnected'
  BY <1>1 DEF QueueOK, OpenOK, NobodyConnected
<1>5. SeatedOK' /\ SelectOK'
  BY <1>1, <1>2, <1>3 DEF SeatedOK, SelectOK
<1> QED BY <1>4, <1>5

(* The connection that is closed leaves the table, the count and the       *)
(* select set at once, and nfds stays above what is left.                  *)
LEMMA DisconnectTable == ASSUME TableInv, NEW a \in Agents, Disconnect(a) PROVE TableOK'
<1> USE DEF TableInv, TableOK
<1> DEFINE sock == sfd[a]
<1>1. /\ UNCHANGED <<backlog, sfd, apc, spc, cur>>
      /\ spc = "messages" /\ srv[a] = "open"
      /\ rset' = rset \ {sock}
      /\ agent_array' = agent_arr_remove(agent_array, sock)
      /\ agentNum' = agentNum - 1
      /\ master' = master \ {sock}
      /\ nfds' = IF nfds = sock + 1 THEN search_new_nfds(agent_array', ListenFd) ELSE nfds
  BY DEF Disconnect, Dismiss, Reading
<1>2. \A b \in Agents : srv'[b] = IF b = a THEN "closed" ELSE srv[b]
  BY DEF Disconnect, Closed
<1>3. ~Doomed /\ ~Doomed' /\ Seated = {b \in Agents : srv[b] = "open"} /\ a \in Seated
  BY <1>1 DEF Doomed, Seated
<1>4. OneSlotEach(agent_array) /\ sock \in SocketsOf(agent_array) /\ sock \in AgentFds
  BY <1>1, <1>3 DEF SeatedOK, OpenOK
<1>5. agentNum = Cardinality(Occupied(agent_array)) /\ master = {Stdin, ListenFd} \cup SocketsOf(agent_array)
  BY <1>1, <1>3 DEF SelectOK
<1>6. /\ OneSlotEach(agent_array')
      /\ SocketsOf(agent_array') = SocketsOf(agent_array) \ {sock}
      /\ Cardinality(Occupied(agent_array')) = Cardinality(Occupied(agent_array)) - 1
      /\ agent_array' \in Arrays
  BY <1>1, <1>4, ArrayType, RemoveOccupied, RemoveType
<1>7. QueueOK'
  <2>1. \A i \in 1 .. Len(backlog) : backlog[i] \in Agents /\ backlog[i] # a
    BY <1>1 DEF QueueOK, TypeInv, TypeOK, SockTypeOK
  <2> QED BY <1>1, <1>2, <2>1 DEF QueueOK
<1>8. OpenOK' /\ NobodyConnected'
  BY <1>1, <1>2 DEF OpenOK, NobodyConnected
<1>9. SeatedOK'
  <2>1. Seated' = Seated \ {a}
    BY <1>1, <1>2, <1>3 DEF Seated
  <2>2. \A b \in Seated \ {a} : sfd[b] # sock
    BY <1>1, <1>3 DEF OpenOK
  <2>3. SocketsOf(agent_array) = {sfd[b] : b \in Seated}
    BY <1>1, <1>3 DEF SeatedOK
  <2>4. SocketsOf(agent_array') = {sfd'[b] : b \in Seated'}
    BY <1>1, <1>6, <2>1, <2>2, <2>3
  <2> QED BY <1>6, <2>4 DEF SeatedOK
<1>10. master' = {Stdin, ListenFd} \cup SocketsOf(agent_array')
  BY <1>1, <1>4, <1>5, <1>6, FdsApart
<1>11. \A fd \in master' : fd < nfds'
  <2>1. CASE nfds = sock + 1
    BY <1>1, <1>6, <1>10, <2>1, NfdsAbove
  <2>2. CASE nfds # sock + 1
    BY <1>1, <1>3, <2>2 DEF SelectOK
  <2> QED BY <2>1, <2>2
<1>12. rset' \cap AgentFds \subseteq SocketsOf(agent_array')
  BY <1>1, <1>3, <1>6 DEF SelectOK
<1>13. SelectOK'
  BY <1>1, <1>5, <1>6, <1>10, <1>11, <1>12 DEF SelectOK
<1> QED BY <1>7, <1>8, <1>9, <1>13

(* agent_arr_clear closes the connection of the slot it frees.             *)
LEMMA ClearSlotTable == ASSUME TableInv, ClearSlot PROVE TableOK'
<1> USE DEF TableInv, TableOK
<1> DEFINE k == Min(Occupied(agent_array))
           sock == agent_array[k].socket
<1>1. /\ UNCHANGED <<backlog, sfd, apc, spc, cur>>
      /\ spc = "clear"
      /\ agent_array' = [agent_array EXCEPT ![k].pid = NoPid]
  BY DEF ClearSlot
<1>2. \A b \in Agents : srv'[b] = IF srv[b] = "open" /\ sfd[b] = sock THEN "closed" ELSE srv[b]
  BY DEF ClearSlot, Closed
<1>3. k \in Occupied(agent_array)
  <2>1. Occupied(agent_array) \in SUBSET Nat
    BY MaxAgentsAssumption DEF Occupied, Slots
  <2> QED BY <2>1, MinOfNat DEF ClearSlot
<1>4. ~Doomed /\ ~Doomed' /\ Seated = {b \in Agents : srv[b] = "open"}
  BY <1>1 DEF Doomed, Seated
<1>5. OneSlotEach(agent_array) /\ SocketsOf(agent_array) = {sfd[b] : b \in Seated}
  BY <1>1, <1>4 DEF SeatedOK
<1>6. OneSlotEach(agent_array') /\ SocketsOf(agent_array') = SocketsOf(agent_array) \ {sock}
  BY <1>1, <1>3, <1>5, ArrayType, ClearOccupied
<1> HIDE DEF k, sock
<1>7. QueueOK'
  <2>1. \A i \in 1 .. Len(backlog) : backlog[i] \in Agents
    BY DEF TypeInv, TypeOK, SockTypeOK
  <2> QED BY <1>1, <1>2, <2>1 DEF QueueOK
<1>8. OpenOK' /\ NobodyConnected'
  BY <1>1, <1>2 DEF OpenOK, NobodyConnected
<1>9. Seated' = {b \in Seated : sfd[b] # sock}
  BY <1>1, <1>2, <1>4 DEF Seated
<1>10. SocketsOf(agent_array') = {sfd'[b] : b \in Seated'}
  BY <1>1, <1>5, <1>6, <1>9
<1>11. SeatedOK' /\ SelectOK'
  BY <1>1, <1>6, <1>10 DEF SeatedOK, SelectOK
<1> QED BY <1>7, <1>8, <1>11

(* With the table empty nobody is connected any more.                      *)
LEMMA FreeArrayTable == ASSUME TableInv, FreeArray PROVE TableOK'
<1> USE DEF TableInv, TableOK, FreeArray
<1>1. ~Doomed /\ Seated = {b \in Agents : srv[b] = "open"}
  BY DEF Doomed, Seated
<1>2. SocketsOf(agent_array) = {sfd[b] : b \in Seated} /\ SocketsOf(agent_array) = {}
  BY <1>1 DEF SeatedOK, SocketsOf
<1>3. NobodyConnected'
  BY <1>1, <1>2 DEF NobodyConnected
<1>4. QueueOK' /\ OpenOK' /\ SeatedOK' /\ SelectOK'
  BY DEF QueueOK, OpenOK, SeatedOK, SelectOK
<1> QED BY <1>3, <1>4

LEMMA CloseListenerTable == ASSUME TableInv, CloseListener PROVE TableOK'
<1> USE DEF TableInv, TableOK, CloseListener
<1>1. \A b \in Agents : /\ srv'[b] = "open" => srv[b] = "open"
                        /\ srv[b] = "none" => srv'[b] = "none"
  BY DEF Closed
<1>2. QueueOK' /\ OpenOK' /\ NobodyConnected' /\ SeatedOK' /\ SelectOK'
  BY <1>1 DEF QueueOK, OpenOK, NobodyConnected, SeatedOK, SelectOK
<1> QED BY <1>2

-----------------------------------------------------------------------------
LEMMA TableStep == ASSUME TableInv, [Next]_vars PROVE TableOK'
<1>1. CASE ServerStep \/ TypeQuit \/ ServerCrash
  BY <1>1, SelectTable, QuietServerTable, AcceptTable, ReadPidTable, SendFullTable,
     ServerDiesTable, ReadAmountTable, DisconnectTable, ClearSlotTable, FreeArrayTable,
     CloseListenerTable DEF ServerStep
<1>2. ASSUME NEW a \in Agents, AgentStep(a) \/ UserStep(a) PROVE TableOK'
  BY <1>2, AgentKeepsTable
<1>3. CASE UNCHANGED vars
  <2> USE DEF TableInv, TableOK
  <2>1. Seated' = Seated /\ (Doomed <=> Doomed')
    BY <1>3 DEF vars, Seated, Doomed, ClientGone
  <2>2. QueueOK' /\ OpenOK' /\ NobodyConnected'
    BY <1>3 DEF vars, QueueOK, OpenOK, NobodyConnected
  <2>3. SeatedOK' /\ SelectOK'
    BY <1>3, <2>1 DEF vars, SeatedOK, SelectOK
  <2> QED BY <2>2, <2>3
<1> QED BY <1>1, <1>2, <1>3 DEF Next, Terminated

LEMMA TableInvariant == Spec => []TableInv
<1>1. Init => TableInv
  BY TypeInit, TableInit DEF TableInv
<1>2. TableInv /\ [Next]_vars => TableInv'
  BY TypeStep, TableStep DEF TableInv
<1> QED BY <1>1, <1>2, PTL DEF Spec

(* The table, the count, the select set and the open connections agree     *)
(* whenever the server is between two requests.                            *)
THEOREM TableStaysConsistent == Spec => []TableConsistent
<1>1. TableInv => TableConsistent
  <2> SUFFICES ASSUME TableInv, spc \in Serving \ Answering
               PROVE  /\ agentNum = Cardinality(Occupied(agent_array))
                      /\ Cardinality(Sockets) = agentNum
                      /\ master = {Stdin, ListenFd} \cup Sockets
                      /\ \A fd \in master : fd < nfds
                      /\ Sockets = {sfd[a] : a \in {b \in Agents : srv[b] = "open"}}
                      /\ rset \cap AgentFds \subseteq master
    BY DEF TableConsistent
  <2> USE DEF TableInv, TableOK
  <2>1. Sockets = SocketsOf(agent_array)
    BY DEF Sockets, SocketsOf
  <2>2. ~Doomed /\ Seated = {b \in Agents : srv[b] = "open"}
    BY DEF Doomed, Seated
  <2>3. OneSlotEach(agent_array) /\ Sockets = {sfd[a] : a \in Seated}
    BY <2>1, <2>2 DEF SeatedOK
  <2>4. Cardinality(Sockets) = Cardinality(Occupied(agent_array))
    BY <2>1, <2>3, ArrayType, CountSockets
  <2> QED BY <2>1, <2>2, <2>3, <2>4 DEF SelectOK
<1> QED BY <1>1, TableInvariant, PTL

-----------------------------------------------------------------------------
(* The flight file.  A sale needs a connection, and none is left when the  *)
(* file is written.                                                        *)

(* Agents sell in Report only, and only over an open connection.  (What    *)
(* Confirm tells the user was sold before.)                                *)
LEMMA SalesNeedConnections ==
  ASSUME TableInv, [Next]_vars
  PROVE  sold' = sold \/ \E a \in Agents : Report(a) /\ srv[a] = "open"
<1>1. CASE ServerStep \/ TypeQuit \/ ServerCrash
  BY <1>1, ServerFrame
<1>2. ASSUME NEW a \in Agents, QuietStep(a) PROVE sold' = sold
  BY <1>2, QuietFrame DEF TableInv
<1>3. ASSUME NEW a \in Agents, Down(a) \/ Check(a) \/ Take(a) \/ Confirm(a) \/ Up(a)
      PROVE  sold' = sold
  BY <1>3 DEF Down, Check, Take, Confirm, Up
<1>4. ASSUME NEW a \in Agents, Report(a) PROVE srv[a] = "open"
  BY <1>4 DEF Report
<1>5. CASE UNCHANGED vars
  BY <1>5 DEF vars
<1> QED BY <1>1, <1>2, <1>3, <1>4, <1>5, StepCases

(* The lines written so far, and all of them once the file is closed.      *)
FileLength ==
  /\ Len(file) <= NumFlights
  /\ spc \in {"unlisten"} \cup Unlinked /\ ret = 0 => Len(file) = NumFlights

FileInv == TableInv /\ AccountInv /\ FileLength /\ FileReflectsSales

LEMMA FileInit == Init => FileLength /\ FileReflectsSales
  BY ConstantsAssumption DEF Init, FileLength, FileReflectsSales

(* A flight's seats and what was sold of it never exceed its supply.       *)
LEMMA SeatsBound ==
  ASSUME Amounts \subseteq Nat, AccountInv, NEW f \in Flights
  PROVE  seats[f] + sold[f] <= InitSeats[f]
<1>1. seats[f] + InReport(f) + sold[f] <= InitSeats[f]
  BY DEF AccountInv, ConfirmedSeatsAreGone
<1>2. InReport(f) \in Nat
  BY InStageIsNat DEF AccountInv, SeatInv, InReport
<1>3. seats[f] \in Int /\ sold[f] \in Int /\ InitSeats[f] \in Int
  BY ConstantsAssumption DEF AccountInv, SeatInv, TypeInv, TypeOK, IpcTypeOK, HistoryTypeOK
<1> QED BY <1>1, <1>2, <1>3

LEMMA WriteLineFile ==
  ASSUME Amounts \subseteq Nat, FileInv, WriteLine
  PROVE  FileLength' /\ FileReflectsSales'
<1> USE DEF FileInv
<1> DEFINE n == Len(file) + 1
<1>1. file \in Seq(Int) /\ seats \in [Flights -> Int] /\ NumFlights \in Nat
  BY ConstantsAssumption DEF TableInv, TypeInv, TypeOK, IpcTypeOK
<1>2. n \in Flights
  BY <1>1 DEF WriteLine, Flights
<1>3. /\ Len(file') = n
      /\ file'[n] = seats[n]
      /\ \A f \in 1 .. Len(file) : file'[f] = file[f]
  BY <1>1, <1>2 DEF WriteLine
<1>4. UNCHANGED <<spc, ret, sold>> /\ spc = "write"
  BY DEF WriteLine
<1>5. FileLength'
  BY <1>2, <1>3, <1>4 DEF FileLength, Flights
<1>6. ASSUME ret = 0, NEW f \in 1 .. Len(file') PROVE file'[f] + sold[f] <= InitSeats[f]
  <2>1. CASE f = n
    BY <1>2, <1>3, <2>1, SeatsBound
  <2>2. CASE f \in 1 .. Len(file)
    BY <1>3, <1>4, <1>6, <2>2 DEF FileReflectsSales
  <2> QED BY <1>1, <1>3, <2>1, <2>2
<1>7. FileReflectsSales'
  BY <1>4, <1>6 DEF FileReflectsSales
<1> QED BY <1>5, <1>7

(* Every other server step keeps the file, or empties it before it is      *)
(* written; the file is complete when it is closed.                        *)
FileFrame ==
  /\ file' = file
  /\ ret' = ret \/ ret' = -1
  /\ spc' \in {"write", "unlisten"} \cup Unlinked
       => \/ spc \in {"unlisten"} \cup Unlinked
          \/ spc = "write" /\ spc' = "write"
          \/ spc = "write" /\ Len(file) = NumFlights
          \/ ret # 0

LEMMA ServerFileFrame ==
  ASSUME TypeInv, ServerStep \/ TypeQuit \/ ServerCrash
  PROVE  FileFrame \/ TruncateFile \/ WriteLine
<1> USE DEF FileFrame
<1>1. CASE Select \/ Accept \/ ReadPid
  BY <1>1 DEF Select, Accept, ReadPid
<1>2. CASE SendIpc \/ SendFull \/ AnswerKilled
  BY <1>2 DEF SendIpc, SendFull, AnswerKilled, ServerDies
<1>3. ASSUME NEW a \in Agents, ReadAmount(a) \/ Disconnect(a) \/ ReadFails(a)
      PROVE  FileFrame
  BY <1>3 DEF ReadAmount, Disconnect, ReadFails, Reading
<1>4. CASE NextRound \/ PrintSummary \/ ClearSlot \/ FreeArray
  BY <1>4 DEF NextRound, PrintSummary, ClearSlot, FreeArray
<1>5. CASE CloseFile \/ CloseListener \/ RemoveSem \/ RemoveShm
  BY <1>5 DEF CloseFile, CloseListener, RemoveSem, RemoveShm
<1>6. CASE TypeQuit \/ ServerCrash
  BY <1>6 DEF TypeQuit, ServerCrash, ServerDies
<1> QED BY <1>1, <1>2, <1>3, <1>4, <1>5, <1>6 DEF ServerStep

LEMMA ServerFile ==
  ASSUME FileInv, FileFrame \/ TruncateFile, UNCHANGED sold
  PROVE  FileLength' /\ FileReflectsSales'
<1> USE DEF FileInv
<1>1. CASE FileFrame
  <2>1. FileLength'
    BY <1>1 DEF FileFrame, FileLength
  <2>2. FileReflectsSales'
    BY <1>1 DEF FileFrame, FileReflectsSales
  <2> QED BY <2>1, <2>2
<1>2. CASE TruncateFile
  BY <1>2, ConstantsAssumption DEF TruncateFile, FileLength, FileReflectsSales
<1> QED BY <1>1, <1>2

LEMMA FileStep ==
  ASSUME Amounts \subseteq Nat, FileInv, [Next]_vars
  PROVE  FileLength' /\ FileReflectsSales'
<1> USE DEF FileInv
<1>1. CASE ServerStep \/ TypeQuit \/ ServerCrash
  BY <1>1, WriteLineFile, ServerFileFrame, ServerFile, ServerFrame DEF TableInv
<1>2. ASSUME NEW a \in Agents, AgentStep(a) \/ UserStep(a)
      PROVE  FileLength' /\ FileReflectsSales'
  <2>1. UNCHANGED <<spc, ret, file>>
    BY <1>2, AgentFrame DEF TableInv
  <2>2. spc \in Closing \cup Unlinked => sold' = sold
    BY SalesNeedConnections DEF TableInv, TableOK, NobodyConnected
  <2> QED BY <2>1, <2>2 DEF FileLength, FileReflectsSales
<1>3. CASE UNCHANGED vars
  BY <1>3 DEF vars, FileLength, FileReflectsSales
<1> QED BY <1>1, <1>2, <1>3 DEF Next, Terminated

LEMMA FileInvariant == ASSUME Amounts \subseteq Nat PROVE Spec => []FileInv
<1>1. Init => FileInv
  BY TypeInit, TableInit, LockInit, SeatInit, AccountInit, FileInit
     DEF FileInv, TableInv, AccountInv, SeatInv
<1>2. FileInv /\ [Next]_vars => FileInv'
  BY TypeStep, TableStep, LockStep, SeatStep, AccountStep, FileStep
     DEF FileInv, TableInv, AccountInv, SeatInv
<1> QED BY <1>1, <1>2, PTL DEF Spec

(* If users do not type negative amounts, the lines of the flight file     *)
(* account for every seat sold as they are written, and for ever after,    *)
(* although update_file takes no semaphore.                                *)
THEOREM FileAccountsForSales ==
  ASSUME Amounts \subseteq Nat
  PROVE  Spec => []FileReflectsSales
<1>1. FileInv => FileReflectsSales
  BY DEF FileInv
<1> QED BY <1>1, FileInvariant, PTL

(* If users do not type negative amounts, nothing is sold once update_file *)
(* may have read the table (server.c:118, 153-155), and whoever prints     *)
(* [SUCCESS] (agent.c:360) after that, because the server went on between  *)
(* the agent's write and its printf, prints it for seats that were sold    *)
(* before: the file has them.  The confirmation still to come is part of   *)
(* the accounts, so the invariant after the step bounds what was printed.  *)
THEOREM NothingSoldAfterUpdate ==
  ASSUME Amounts \subseteq Nat
  PROVE  Spec => NoSaleAfterUpdate
<1>1. ASSUME FileInv, FileInv', [Next]_vars, spc \in Closing \cup Unlinked
      PROVE  sold' = sold /\ \A f \in Flights : confirmed'[f] <= sold[f]
  <2>1. sold' = sold
    BY <1>1, SalesNeedConnections DEF FileInv, TableInv, TableOK, NobodyConnected
  <2>2. ASSUME NEW f \in Flights PROVE confirmed'[f] <= sold'[f]
    <3>1. (confirmed[f] + InConfirm(f) <= sold[f])'
      BY <1>1 DEF FileInv, AccountInv, ConfirmedSeatsAreGone
    <3>2. TypeInv'
      BY <1>1 DEF FileInv, TableInv
    <3>3. InConfirm(f)' \in Nat
      BY <3>2, CommandAmount DEF InConfirm, InStage, TypeInv, TypeOK, IpcTypeOK, AgentTypeOK
    <3>4. confirmed'[f] \in Int /\ sold'[f] \in Int
      BY <3>2 DEF TypeInv, TypeOK, HistoryTypeOK
    <3> QED BY <3>1, <3>3, <3>4
  <2> QED BY <2>1, <2>2
<1>2. FileInv /\ FileInv' /\ [Next]_vars
      => [(spc \in Closing \cup Unlinked)
          => (sold' = sold /\ \A f \in Flights : confirmed'[f] <= sold[f])]_vars
  BY <1>1
<1> QED BY <1>2, FileInvariant, PTL DEF Spec, NoSaleAfterUpdate

-----------------------------------------------------------------------------
(* The refinement.  Take moves seats from the table into the reservation   *)
(* being reported, which the ledger does not see; Report sells them and    *)
(* Confirm tells the buyer; an agent that dies in between withdraws them.  *)
Avail == [f \in Flights |-> seats[f] + InReport(f)]

Book == IF spc \in Serving \cup {"summary", "clear"} THEN "open" ELSE "closed"

LedgerInv == TableInv /\ AccountInv

LedgerStep == [Ledger!Next]_<<Avail, sold, confirmed, Book>>

LEMMA ReserveFields ==
  ASSUME NEW c \in Commands, c.flight \in Flights
  PROVE  c.num \in Amounts
<1>1. NoFlight \notin Flights
  BY ConstantsAssumption DEF NoFlight, Flights
<1> QED BY <1>1 DEF Commands

(* The reservation an agent is about to report: it holds the lock, so no   *)
(* other is in that state.                                                 *)
LEMMA BeingReported ==
  ASSUME SeatInv, NEW a \in Agents, apc[a] = "report"
  PROVE  /\ cmd[a].flight \in Flights /\ cmd[a].num \in Amounts /\ cmd[a].num \in Int
         /\ holder = a /\ a # NoAgent
         /\ \A f \in Flights : InReport(f) = IF f = cmd[a].flight THEN cmd[a].num ELSE 0
         /\ Avail[cmd[a].flight] >= cmd[a].num
<1> USE DEF SeatInv, TypeInv, TypeOK, AgentTypeOK
<1>1. cmd[a].flight \in Flights /\ cmd[a].num \in Amounts /\ cmd[a].num \in Int
  BY ReserveFields, ConstantsAssumption DEF ControlOK
<1>2. holder = a /\ a # NoAgent
  BY ConstantsAssumption DEF SemaphoreIsLock
<1>3. \A f \in Flights : InReport(f) = IF f = cmd[a].flight THEN cmd[a].num ELSE 0
  BY <1>2 DEF InReport, InStage
<1>4. seats[cmd[a].flight] \in Int /\ seats[cmd[a].flight] >= 0
  BY <1>1 DEF NoOversell, IpcTypeOK
<1>5. Avail[cmd[a].flight] = seats[cmd[a].flight] + cmd[a].num
  BY <1>1, <1>3 DEF Avail
<1> QED BY <1>1, <1>2, <1>3, <1>4, <1>5

(* An agent that is not reporting does not appear in the ledger.           *)
LEMMA NotReported ==
  ASSUME SeatInv, NEW a \in Agents, apc[a] \in Critical, apc[a] # "report"
  PROVE  \A f \in Flights : InReport(f) = 0
  BY DEF SeatInv, SemaphoreIsLock, InReport, InStage

(* The server does not come back from where it has got to.                 *)
LEMMA ServerKeepsServing ==
  ASSUME ServerStep \/ TypeQuit \/ ServerCrash
  PROVE  /\ spc' \in Serving => spc \in Serving
         /\ spc' \in Serving \cup {"summary", "clear"} => spc \in Serving \cup {"summary", "clear"}
<1>1. CASE Select \/ Accept \/ ReadPid
  BY <1>1 DEF Select, Accept, ReadPid
<1>2. CASE SendIpc \/ SendFull \/ AnswerKilled
  BY <1>2 DEF SendIpc, SendFull, AnswerKilled, ServerDies
<1>3. ASSUME NEW a \in Agents, ReadAmount(a) \/ Disconnect(a) \/ ReadFails(a)
      PROVE  spc \in Serving
  BY <1>3 DEF ReadAmount, Disconnect, ReadFails, Reading
<1>4. CASE NextRound \/ PrintSummary \/ ClearSlot \/ FreeArray
  BY <1>4 DEF NextRound, PrintSummary, ClearSlot, FreeArray
<1>5. CASE TruncateFile \/ WriteLine \/ CloseFile
  BY <1>5 DEF TruncateFile, WriteLine, CloseFile
<1>6. CASE CloseListener \/ RemoveSem \/ RemoveShm
  BY <1>6 DEF CloseListener, RemoveSem, RemoveShm
<1>7. CASE TypeQuit \/ ServerCrash
  BY <1>7 DEF TypeQuit, ServerCrash, ServerDies
<1> QED BY <1>1, <1>2, <1>3, <1>4, <1>5, <1>6, <1>7 DEF ServerStep

(* The server changes the ledger only by closing it, and never reopens it. *)
LEMMA ServerLedger ==
  ASSUME LedgerInv, ServerStep \/ TypeQuit \/ ServerCrash
  PROVE  LedgerStep
<1>1. UNCHANGED <<seats, holder, apc, cmd, sold, confirmed>>
  BY ServerFrame
<1>2. Avail' = Avail /\ sold' = sold /\ confirmed' = confirmed
  BY <1>1 DEF Avail, InReport, InStage
<1>3. spc \notin Serving \cup {"summary", "clear"} => spc' \notin Serving \cup {"summary", "clear"}
  BY ServerKeepsServing
<1>4. Book' = Book \/ (Book = "open" /\ Book' = "closed")
  BY <1>3 DEF Book
<1>5. CASE Book' = Book
  BY <1>2, <1>5 DEF LedgerStep
<1>6. CASE Book = "open" /\ Book' = "closed"
  BY <1>2, <1>6 DEF LedgerStep, Ledger!Next, Ledger!Close, Avail, Book
<1> QED BY <1>4, <1>5, <1>6

(* An agent that leaves the critical section without a report, or stays    *)
(* out of it, leaves the ledger alone; one that dies in its report takes   *)
(* the seats out of circulation.                                           *)
LEMMA QuietLedger ==
  ASSUME LedgerInv, NEW a \in Agents, QuietStep(a), UNCHANGED spc
  PROVE  LedgerStep
<1> USE DEF LedgerInv, AccountInv
<1>1. /\ UNCHANGED <<seats, holder, sold, confirmed>>
      /\ apc'[a] \notin Critical
      /\ \A b \in Agents \ {a} : apc'[b] = apc[b] /\ cmd'[b] = cmd[b]
  BY QuietFrame DEF TableInv
<1>2. Book' = Book
  BY DEF Book
<1>3. holder \in Agents \cup {NoAgent}
  BY DEF TableInv, TypeInv, TypeOK, IpcTypeOK
<1>4. CASE apc[a] = "report"
  <2> DEFINE g == cmd[a].flight
             n == cmd[a].num
  <2>1. /\ g \in Flights /\ n \in Amounts /\ Avail[g] >= n /\ holder = a
        /\ \A f \in Flights : InReport(f) = IF f = g THEN n ELSE 0
    BY <1>4, BeingReported
  <2>2. \A f \in Flights : InReport(f)' = 0
    BY <1>1, <2>1 DEF InReport, InStage
  <2>3. n \in Int /\ \A f \in Flights : seats[f] \in Int /\ seats'[f] = seats[f]
    BY <1>1, <1>4, BeingReported DEF TableInv, TypeInv, TypeOK, IpcTypeOK
  <2> HIDE DEF g, n
  <2>4. \A f \in Flights : seats'[f] + InReport(f)'
                             = IF f = g THEN (seats[f] + InReport(f)) - n ELSE seats[f] + InReport(f)
    BY <2>1, <2>2, <2>3
  <2>5. Avail' = [Avail EXCEPT ![g] = @ - n]
    BY <2>4 DEF Avail
  <2> QED BY <1>1, <1>2, <2>1, <2>5 DEF LedgerStep, Ledger!Next, Ledger!Withdraw, Avail, Book
<1>5. CASE apc[a] # "report"
  <2>1. \A f \in Flights : InReport(f)' = InReport(f)
    BY <1>1, <1>3, <1>5 DEF InReport, InStage
  <2>2. Avail' = Avail
    BY <1>1, <2>1 DEF Avail
  <2> QED BY <1>1, <1>2, <2>2 DEF LedgerStep
<1> QED BY <1>4, <1>5

(* Inside the critical section Report and Confirm are the ledger's steps.  *)
LEMMA CriticalLedger ==
  ASSUME LedgerInv, LedgerInv', NEW a \in Agents,
         Down(a) \/ Check(a) \/ Take(a) \/ Report(a) \/ Confirm(a) \/ Up(a)
  PROVE  LedgerStep
<1> USE DEF LedgerInv, AccountInv
<1>1. Book' = Book
  BY DEF Book, Down, Check, Take, Report, Confirm, Up
<1>2. CASE Down(a) \/ Check(a) \/ Up(a)
  <2>1. UNCHANGED <<seats, sold, confirmed>>
    BY <1>2 DEF Down, Check, Up
  <2>2. \A f \in Flights : InReport(f) = 0
    <3>1. CASE Down(a)
      BY <3>1 DEF Down, SeatInv, SemaphoreIsLock, InReport, InStage
    <3>2. CASE Check(a) \/ Up(a)
      BY <3>2, NotReported DEF Check, Up
    <3> QED BY <1>2, <3>1, <3>2
  <2>3. \A f \in Flights : InReport(f)' = 0
    <3>1. holder' \in {a, NoAgent} /\ apc'[a] # "report"
      BY <1>2 DEF Down, Check, Up, LeftLoop, SeatInv, SemaphoreIsLock,
                  TypeInv, TypeOK, AgentTypeOK
    <3> QED BY <3>1 DEF InReport, InStage
  <2>4. Avail' = Avail
    BY <2>1, <2>2, <2>3 DEF Avail
  <2> QED BY <1>1, <2>1, <2>4 DEF LedgerStep
<1>3. CASE Take(a)
  <2> DEFINE g == cmd[a].flight
             n == cmd[a].num
  <2>1. UNCHANGED <<sold, confirmed, cmd>> /\ apc'[a] = "report"
    BY <1>3 DEF Take, SeatInv, TypeInv, TypeOK, AgentTypeOK
  <2>2. \A f \in Flights : InReport(f) = 0
    BY <1>3, NotReported DEF Take
  <2>3. \A f \in Flights : InReport(f)' = IF f = g THEN n ELSE 0
    <3>1. \A f \in Flights : InReport(f)' = IF f = cmd'[a].flight THEN cmd'[a].num ELSE 0
      <4>1. holder' = a /\ a # NoAgent
        BY <1>3, ConstantsAssumption DEF Take, SeatInv, SemaphoreIsLock
      <4> QED BY <2>1, <4>1 DEF InReport, InStage
    <3> QED BY <2>1, <3>1
  <2>4. \A f \in Flights : seats'[f] = IF f = g THEN seats[f] - n ELSE seats[f]
    BY <1>3 DEF Take, SeatInv, TypeInv, TypeOK, IpcTypeOK
  <2>5. n \in Int /\ \A f \in Flights : seats[f] \in Int
    BY <1>3, CommandFields DEF SeatInv, TypeInv, TypeOK, IpcTypeOK, AgentTypeOK
  <2> HIDE DEF g, n
  <2>6. \A f \in Flights : seats'[f] + InReport(f)' = seats[f] + InReport(f)
    BY <2>2, <2>3, <2>4, <2>5
  <2>7. Avail' = Avail
    BY <2>6 DEF Avail
  <2> QED BY <1>1, <2>1, <2>7 DEF LedgerStep
<1>4. CASE Report(a)
  <2> DEFINE g == cmd[a].flight
             n == cmd[a].num
  <2>1. /\ g \in Flights /\ n \in Amounts /\ n \in Int /\ Avail[g] >= n
        /\ \A f \in Flights : InReport(f) = IF f = g THEN n ELSE 0
    BY <1>4, BeingReported DEF Report
  <2>2. UNCHANGED <<seats, holder>> /\ holder = a /\ apc'[a] = "confirm"
    BY <1>4, BeingReported DEF Report, SeatInv, TypeInv, TypeOK, AgentTypeOK
  <2>3. \A f \in Flights : InReport(f)' = 0
    BY <2>2 DEF InReport, InStage
  <2>4. \A f \in Flights : seats[f] \in Int
    BY DEF SeatInv, TypeInv, TypeOK, IpcTypeOK
  <2>5. sold' = [sold EXCEPT ![g] = @ + n] /\ confirmed' = confirmed
    BY <1>4 DEF Report
  <2>6. Book = "open"
    BY <1>4 DEF Report, Book, TableInv, TableOK, NobodyConnected, TypeInv, TypeOK, ServerTypeOK
  <2> HIDE DEF g, n
  <2>7. \A f \in Flights : seats'[f] + InReport(f)'
                             = IF f = g THEN (seats[f] + InReport(f)) - n ELSE seats[f] + InReport(f)
    BY <2>1, <2>2, <2>3, <2>4
  <2>8. Avail' = [Avail EXCEPT ![g] = @ - n]
    BY <2>7 DEF Avail
  <2> QED BY <1>1, <2>1, <2>5, <2>6, <2>8 DEF LedgerStep, Ledger!Next, Ledger!Sell, Avail, Book
<1>5. CASE Confirm(a)
  <2> DEFINE g == cmd[a].flight
             n == cmd[a].num
  <2>1. g \in Flights /\ n \in Amounts
    BY <1>5, ReserveFields DEF Confirm, TableInv, TypeInv, TypeOK, AgentTypeOK, ControlOK
  <2>2. InConfirm(g) = n
    <3>1. holder = a /\ a # NoAgent
      BY <1>5, ConstantsAssumption DEF Confirm, SeatInv, SemaphoreIsLock
    <3> QED BY <1>5, <3>1 DEF Confirm, InConfirm, InStage
  <2>3. confirmed[g] + n <= sold[g]
    BY <2>1, <2>2 DEF ConfirmedSeatsAreGone
  <2>4. confirmed' = [confirmed EXCEPT ![g] = @ + n] /\ UNCHANGED <<seats, sold>>
    BY <1>5 DEF Confirm
  <2>5. \A f \in Flights : InReport(f) = 0
    BY <1>5, NotReported DEF Confirm
  <2>6. \A f \in Flights : InReport(f)' = 0
    <3>1. holder' = a /\ apc'[a] # "report"
      BY <1>5 DEF Confirm, SeatInv, SemaphoreIsLock, TypeInv, TypeOK, AgentTypeOK
    <3> QED BY <3>1 DEF InReport, InStage
  <2>7. Avail' = Avail
    BY <2>4, <2>5, <2>6 DEF Avail
  <2> HIDE DEF g, n
  <2> QED BY <1>1, <2>1, <2>3, <2>4, <2>7 DEF LedgerStep, Ledger!Next, Ledger!Tell, Avail, Book
<1> QED BY <1>2, <1>3, <1>4, <1>5

LEMMA LedgerInvariant == ASSUME Amounts \subseteq Nat PROVE Spec => []LedgerInv
<1>1. FileInv => LedgerInv
  BY DEF FileInv, LedgerInv
<1> QED BY <1>1, FileInvariant, PTL

(* If users do not type negative amounts, the system implements the        *)
(* ledger: every step of server and agents, crashes included, is a sale,   *)
(* a withdrawal, the word to a buyer of seats that were sold, or the       *)
(* closing of the ledger, or does not show in it.                          *)
THEOREM SellsAsTheLedger ==
  ASSUME Amounts \subseteq Nat
  PROVE  Spec => ImplementsLedger
<1>1. Init => Ledger!Init
  <2> SUFFICES ASSUME Init PROVE Ledger!Init
    OBVIOUS
  <2>1. \A f \in Flights : seats[f] + InReport(f) = InitSeats[f]
    BY ConstantsAssumption DEF Init, InReport, InStage
  <2>2. Avail = InitSeats
    BY <2>1, ConstantsAssumption DEF Avail
  <2> QED BY <2>2 DEF Ledger!Init, Avail, Init
<1>2. ASSUME LedgerInv, LedgerInv', [Next]_vars PROVE LedgerStep
  <2>1. CASE ServerStep \/ TypeQuit \/ ServerCrash
    BY <1>2, <2>1, ServerLedger
  <2>2. ASSUME NEW a \in Agents, QuietStep(a) PROVE LedgerStep
    BY <1>2, <2>2, AgentFrame, QuietLedger DEF QuietStep, AgentStep, UserStep, LedgerInv, TableInv
  <2>3. ASSUME NEW a \in Agents,
               Down(a) \/ Check(a) \/ Take(a) \/ Report(a) \/ Confirm(a) \/ Up(a)
        PROVE  LedgerStep
    BY <1>2, <2>3, CriticalLedger
  <2>4. CASE UNCHANGED vars
    BY <2>4 DEF vars, LedgerStep, Avail, Book, InReport, InStage
  <2> QED BY <1>2, <2>1, <2>2, <2>3, <2>4, StepCases
<1>3. LedgerInv /\ LedgerInv' /\ [Next]_vars
      => [Ledger!Next]_<<[f \in Flights |-> seats[f] + InReport(f)], sold, confirmed,
                         IF spc \in Serving \cup {"summary", "clear"} THEN "open" ELSE "closed">>
  BY <1>2 DEF LedgerStep, Avail, Book
<1> QED BY <1>1, <1>3, LedgerInvariant, PTL DEF Spec, ImplementsLedger, Ledger!Spec

-----------------------------------------------------------------------------
(* Who is answered, and who is closed.  An agent gets past the handshake   *)
(* only with an answer, and the server answers whom it has just accepted.  *)
Answered == {"attach"} \cup Attached

AnswerOK ==
  \A a \in Agents :
    /\ apc[a] \in Answered => reply[a] = "read"
    /\ srv[a] \in {"none", "queued"} => reply[a] = "none"
    /\ spc \in Answering /\ cur = a => reply[a] = "none"

LEMMA AnswerInit == Init => AnswerOK
  BY DEF Init, AnswerOK, Answered

(* What the server does to connections and answers: an accepted agent was  *)
(* at the head of the queue, and only the agent being dealt with is        *)
(* answered.                                                               *)
LEMMA ServerAnswers ==
  ASSUME TableInv, ServerStep \/ TypeQuit \/ ServerCrash
  PROVE  /\ UNCHANGED apc
         /\ \A a \in Agents : srv'[a] \in {"none", "queued"} => srv[a] = srv'[a]
         /\ \A a \in Agents : srv'[a] = "open" => srv[a] \in {"queued", "open"}
         /\ UNCHANGED reply \/ SendIpc \/ SendFull
         /\ spc' \in Answering => Accept \/ (spc \in Answering /\ cur' = cur)
         /\ ret' = ret \/ \E a \in Agents : ReadFails(a)
<1> USE DEF TableInv, TableOK, TypeInv, TypeOK, SockTypeOK
<1>1. CASE Select \/ ReadPid
  BY <1>1 DEF Select, ReadPid
<1>2. CASE Accept
  <2>1. Head(backlog) \in Agents /\ srv[Head(backlog)] = "queued"
    BY <1>2 DEF Accept, QueueOK
  <2> QED BY <1>2, <2>1 DEF Accept
<1>3. CASE SendIpc \/ SendFull
  BY <1>3 DEF SendIpc, SendFull, Closed
<1>4. CASE AnswerKilled \/ ServerCrash
  BY <1>4 DEF AnswerKilled, ServerCrash, ServerDies, Closed
<1>5. ASSUME NEW a \in Agents, ReadAmount(a)
      PROVE  UNCHANGED <<apc, srv, reply, spc, ret>> /\ spc \notin Answering
  BY <1>5 DEF ReadAmount, Reading
<1>6. ASSUME NEW a \in Agents, Disconnect(a)
      PROVE  /\ UNCHANGED <<apc, reply, spc, ret>> /\ spc \notin Answering
             /\ \A b \in Agents : srv'[b] = IF b = a THEN "closed" ELSE srv[b]
  BY <1>6 DEF Disconnect, Reading, Closed
<1>7. ASSUME NEW a \in Agents, ReadFails(a)
      PROVE  UNCHANGED <<apc, toServer, srv, reply>> /\ spc' \notin Answering
  BY <1>7 DEF ReadFails
<1>8. CASE NextRound \/ PrintSummary \/ FreeArray
  BY <1>8 DEF NextRound, PrintSummary, FreeArray
<1>9. CASE ClearSlot \/ CloseListener
  BY <1>9 DEF ClearSlot, CloseListener, Closed
<1>10. CASE TruncateFile \/ WriteLine \/ CloseFile
  BY <1>10 DEF TruncateFile, WriteLine, CloseFile
<1>11. CASE RemoveSem \/ RemoveShm \/ TypeQuit
  BY <1>11 DEF RemoveSem, RemoveShm, TypeQuit
<1> QED BY <1>1, <1>2, <1>3, <1>4, <1>5, <1>6, <1>7, <1>8, <1>9, <1>10, <1>11 DEF ServerStep

(* What an agent does to its answer: nothing but read it.                  *)
LEMMA AgentAnswers ==
  ASSUME TableInv, AnswerOK, NEW a \in Agents, AgentStep(a) \/ UserStep(a)
  PROVE  /\ UNCHANGED reply \/ ReadReply(a)
         /\ \A b \in Agents \ {a} : apc'[b] = apc[b]
         /\ apc'[a] \in Answered => apc[a] \in Answered \/ reply'[a] = "read"
<1> USE DEF TableInv, TableOK, TypeInv, TypeOK, AgentTypeOK, SockTypeOK, Answered
<1>1. CASE SendPid(a) \/ ReadNoReply(a) \/ Attach(a)
  BY <1>1 DEF SendPid, ReadNoReply, Attach
<1>2. CASE ReadReply(a)
  BY <1>2 DEF ReadReply
<1>3. CASE ServerGone(a) \/ Down(a) \/ DownFails(a) \/ Check(a)
  BY <1>3 DEF ServerGone, LeftLoop, Down, DownFails, Check
<1>4. CASE Take(a) \/ Report(a) \/ ReportKilled(a) \/ Confirm(a) \/ Up(a)
  BY <1>4 DEF Take, Report, ReportKilled, Confirm, Up, LeftLoop
<1>5. CASE UpFails(a) \/ Bye(a) \/ Connect(a) \/ ConnectRefused(a)
  BY <1>5 DEF UpFails, Bye, Connect, ConnectRefused
<1>6. CASE Command(a) \/ Crash(a)
  BY <1>6 DEF Command, Crash
<1> QED BY <1>1, <1>2, <1>3, <1>4, <1>5, <1>6 DEF AgentStep, UserStep

LEMMA AnswerStep == ASSUME TableInv, AnswerOK, [Next]_vars PROVE AnswerOK'
<1> USE DEF TableInv, TableOK, TypeInv, TypeOK, SockTypeOK
<1>1. CASE ServerStep \/ TypeQuit \/ ServerCrash
  <2>1. CASE UNCHANGED reply
    <3>1. \A a \in Agents : spc' \in Answering /\ cur' = a => reply[a] = "none"
      <4>1. CASE Accept
        BY <4>1 DEF Accept, AnswerOK, QueueOK
      <4>2. CASE spc \in Answering /\ cur' = cur
        BY <4>2 DEF AnswerOK
      <4> QED BY <1>1, <4>1, <4>2, ServerAnswers
    <3> QED BY <1>1, <2>1, <3>1, ServerAnswers DEF AnswerOK
  <2>2. CASE SendIpc \/ SendFull
    <3>1. /\ cur \in Agents /\ srv[cur] = "open" /\ reply[cur] = "none"
          /\ spc' \notin Answering /\ UNCHANGED apc
          /\ \A a \in Agents \ {cur} : reply'[a] = reply[a] /\ srv'[a] = srv[a]
          /\ srv'[cur] \in {"open", "closed"}
      BY <2>2 DEF SendIpc, SendFull, ControlOK, OpenOK, AnswerOK, Closed
    <3> QED BY <3>1 DEF AnswerOK
  <2> QED BY <1>1, <2>1, <2>2, ServerAnswers
<1>2. ASSUME NEW a \in Agents, AgentStep(a) \/ UserStep(a) PROVE AnswerOK'
  <2>1. UNCHANGED <<spc, cur>> /\ (UNCHANGED srv \/ Connect(a))
    BY <1>2, AgentFrame
  <2>2. \A b \in Agents : apc'[b] \in Answered => apc[b] \in Answered \/ reply'[b] = "read"
    BY <1>2, AgentAnswers
  <2>3. \A b \in Agents : srv'[b] \in {"none", "queued"} => srv[b] \in {"none", "queued"}
    BY <2>1 DEF Connect, QueueOK
  <2>4. CASE UNCHANGED reply
    BY <2>1, <2>2, <2>3, <2>4 DEF AnswerOK
  <2>5. CASE ReadReply(a)
    <3>1. /\ reply[a] # "none" /\ reply'[a] = "read"
          /\ \A b \in Agents \ {a} : reply'[b] = reply[b]
      BY <2>5 DEF ReadReply
    <3> QED BY <2>1, <2>2, <2>3, <3>1 DEF AnswerOK
  <2> QED BY <1>2, <2>4, <2>5, AgentAnswers
<1>3. CASE UNCHANGED vars
  BY <1>3 DEF vars, AnswerOK
<1> QED BY <1>1, <1>2, <1>3 DEF Next, Terminated

(* Without kills from outside, an agent whose connection the server still  *)
(* has to serve does not end before it has read its answer, so the reads   *)
(* of server_loop do not fail.                                             *)
EndsAnswered ==
  /\ ret = 0
  /\ \A a \in Agents : srv[a] \in {"queued", "open"} /\ ClientGone(a) => reply[a] = "read"

AnswerInv == TableInv /\ AnswerOK /\ EndsAnswered

LEMMA EndsAnsweredInit == Init => EndsAnswered
  BY DEF Init, EndsAnswered

(* How an agent ends.                                                      *)
LEMMA AgentEnds ==
  ASSUME Crashes = {}, AnswerInv, NEW a \in Agents, AgentStep(a) \/ UserStep(a),
         apc'[a] \in Ended
  PROVE  reply'[a] = "read" \/ srv'[a] \notin {"queued", "open"}
<1> USE DEF AnswerInv, TableInv, TableOK, TypeInv, TypeOK, AgentTypeOK, SockTypeOK
<1>1. CASE SendPid(a) \/ ReadNoReply(a) \/ ConnectRefused(a)
  BY <1>1 DEF SendPid, ReadNoReply, ConnectRefused, QueueOK
<1>2. CASE ReadReply(a)
  BY <1>2 DEF ReadReply
<1>3. CASE apc[a] \in Answered /\ UNCHANGED reply
  BY <1>3 DEF AnswerOK
<1>4. CASE Attach(a) \/ ServerGone(a) \/ Down(a) \/ DownFails(a) \/ Check(a)
  BY <1>3, <1>4 DEF Attach, ServerGone, Down, DownFails, Check, Answered
<1>5. CASE Take(a) \/ Report(a) \/ ReportKilled(a) \/ Confirm(a)
  BY <1>3, <1>5 DEF Take, Report, ReportKilled, Confirm, Answered
<1>6. CASE Up(a) \/ UpFails(a) \/ Bye(a)
  BY <1>3, <1>6 DEF Up, UpFails, Bye, Answered
<1>7. CASE Connect(a) \/ Command(a) \/ Crash(a)
  BY <1>7 DEF Connect, Command, Crash
<1> QED BY <1>1, <1>2, <1>4, <1>5, <1>6, <1>7 DEF AgentStep, UserStep

LEMMA EndsAnsweredStep ==
  ASSUME Crashes = {}, AnswerInv, [Next]_vars
  PROVE  EndsAnswered'
<1> USE DEF AnswerInv
<1>1. CASE ServerStep \/ TypeQuit \/ ServerCrash
  <2>1. ret' = 0
    <3>1. ASSUME NEW a \in Agents, ReadFails(a) PROVE FALSE
      BY <3>1 DEF ReadFails, Reading, EndsAnswered
    <3> QED BY <1>1, <3>1, ServerAnswers DEF EndsAnswered
  <2>2. ASSUME NEW a \in Agents, srv'[a] \in {"queued", "open"}, ClientGone(a)'
        PROVE  reply'[a] = "read"
    <3>1. srv[a] \in {"queued", "open"} /\ ClientGone(a) /\ reply[a] = "read"
      BY <1>1, <2>2, ServerAnswers DEF ClientGone, EndsAnswered
    <3>2. CASE SendIpc \/ SendFull
      <4>1. reply[cur] = "none" /\ \A b \in Agents \ {cur} : reply'[b] = reply[b]
        BY <3>2 DEF SendIpc, SendFull, AnswerOK, TableInv, TypeInv, ControlOK, TypeOK, SockTypeOK
      <4> QED BY <3>1, <4>1
    <3> QED BY <1>1, <3>1, <3>2, ServerAnswers
  <2> QED BY <2>1, <2>2 DEF EndsAnswered
<1>2. ASSUME NEW a \in Agents, AgentStep(a) \/ UserStep(a) PROVE EndsAnswered'
  <2>1. ret' = 0
    BY <1>2, AgentFrame DEF TableInv, EndsAnswered
  <2>2. apc'[a] \in Ended => reply'[a] = "read" \/ srv'[a] \notin {"queued", "open"}
    BY <1>2, AgentEnds
  <2>3. ASSUME NEW b \in Agents \ {a}
        PROVE  apc'[b] = apc[b] /\ srv'[b] = srv[b] /\ reply'[b] = reply[b]
    <3>1. reply'[b] = reply[b]
      <4>1. ReadReply(a) => reply'[b] = reply[b]
        BY DEF ReadReply, TableInv, TypeInv, TypeOK, SockTypeOK
      <4> QED BY <1>2, <4>1, AgentAnswers
    <3>2. srv'[b] = srv[b]
      <4>1. Connect(a) => srv'[b] = srv[b]
        BY DEF Connect, TableInv, TypeInv, TypeOK, SockTypeOK
      <4> QED BY <1>2, <4>1, AgentFrame DEF TableInv
    <3> QED BY <1>2, <3>1, <3>2, AgentAnswers
  <2> QED BY <2>1, <2>2, <2>3 DEF EndsAnswered, ClientGone
<1>3. CASE UNCHANGED vars
  BY <1>3 DEF vars, EndsAnswered, ClientGone
<1> QED BY <1>1, <1>2, <1>3 DEF Next, Terminated

(* If no agent is killed from outside and no user types a negative amount, *)
(* a server that ends by itself has written a flight file that accounts    *)
(* for every seat sold: no order of connections, commands and exits        *)
(* makes server_loop fail and the file be skipped.                         *)
THEOREM SalesReachTheFile ==
  ASSUME Crashes = {}, Amounts \subseteq Nat
  PROVE  Spec => []SalesAreFiled
<1>1. Init => AnswerInv
  BY TypeInit, TableInit, AnswerInit, EndsAnsweredInit DEF AnswerInv, TableInv
<1>2. AnswerInv /\ [Next]_vars => AnswerInv'
  BY TypeStep, TableStep, AnswerStep, EndsAnsweredStep DEF AnswerInv, TableInv
<1>3. FileInv /\ AnswerInv => SalesAreFiled
  <2> SUFFICES ASSUME FileInv, AnswerInv, spc = "done", NEW f \in Flights
               PROVE  file[f] + sold[f] <= InitSeats[f]
    BY DEF SalesAreFiled
  <2>1. f \in 1 .. Len(file)
    BY DEF FileInv, FileLength, AnswerInv, EndsAnswered, Flights
  <2> QED BY <2>1 DEF FileInv, FileReflectsSales, AnswerInv, EndsAnswered
<1> QED BY <1>1, <1>2, <1>3, FileInvariant, PTL DEF Spec

-----------------------------------------------------------------------------
(* Who is closed.  A BYE on its way to the server is the last thing its    *)
(* sender did, unless users type amounts that look like one.               *)
ByeIsLast ==
  \A a \in Agents : (\E i \in 1 .. Len(toServer[a]) : toServer[a][i] = BYE) => ClientGone(a)

(* Of what has been sent to it the server only reads the head.             *)
LEMMA ServerReads ==
  ASSUME TableInv, ServerStep \/ TypeQuit \/ ServerCrash
  PROVE  \/ UNCHANGED toServer
         \/ \E a \in Agents : /\ toServer[a] # <<>>
                              /\ toServer' = [toServer EXCEPT ![a] = Tail(@)]
<1>1. CASE Select \/ Accept \/ ReadPid \/ SendIpc \/ SendFull \/ AnswerKilled
  BY <1>1 DEF Select, Accept, ReadPid, SendIpc, SendFull, AnswerKilled
<1>2. ASSUME NEW a \in Agents, ReadAmount(a)
      PROVE  toServer[a] # <<>> /\ toServer' = [toServer EXCEPT ![a] = Tail(@)]
  BY <1>2 DEF ReadAmount
<1>3. ASSUME NEW a \in Agents, Disconnect(a)
      PROVE  \/ UNCHANGED toServer
             \/ toServer[a] # <<>> /\ toServer' = [toServer EXCEPT ![a] = Tail(@)]
  <2>1. toServer' = [toServer EXCEPT ![a] = IF SaidBye(a) THEN Tail(@) ELSE @]
    BY <1>3 DEF Disconnect
  <2>2. CASE SaidBye(a)
    BY <2>1, <2>2 DEF SaidBye
  <2>3. CASE ~SaidBye(a)
    BY <2>1, <2>3 DEF TableInv, TypeInv, TypeOK, SockTypeOK
  <2> QED BY <2>2, <2>3
<1>4. ASSUME NEW a \in Agents, ReadFails(a) PROVE UNCHANGED toServer
  BY <1>4 DEF ReadFails
<1>5. CASE NextRound \/ PrintSummary \/ ClearSlot \/ FreeArray
  BY <1>5 DEF NextRound, PrintSummary, ClearSlot, FreeArray
<1>6. CASE TruncateFile \/ WriteLine \/ CloseFile \/ CloseListener
  BY <1>6 DEF TruncateFile, WriteLine, CloseFile, CloseListener
<1>7. CASE RemoveSem \/ RemoveShm \/ TypeQuit \/ ServerCrash
  BY <1>7 DEF RemoveSem, RemoveShm, TypeQuit, ServerCrash
<1> QED BY <1>1, <1>2, <1>3, <1>4, <1>5, <1>6, <1>7 DEF ServerStep

LEMMA ByeStep ==
  ASSUME BYE \notin Amounts, TableInv, ByeIsLast, [Next]_vars
  PROVE  ByeIsLast'
<1> USE DEF TableInv, TypeInv, TypeOK, SockTypeOK
<1>1. CASE ServerStep \/ TypeQuit \/ ServerCrash
  <2>1. UNCHANGED apc
    BY <1>1, ServerAnswers
  <2>2. CASE UNCHANGED toServer
    BY <2>1, <2>2 DEF ByeIsLast, ClientGone
  <2>3. ASSUME NEW a \in Agents, toServer[a] # <<>>, toServer' = [toServer EXCEPT ![a] = Tail(@)]
        PROVE  ByeIsLast'
    <3>1. \A i \in 1 .. Len(toServer'[a]) : /\ i + 1 \in 1 .. Len(toServer[a])
                                            /\ toServer'[a][i] = toServer[a][i + 1]
      BY <2>3
    <3>2. \A b \in Agents \ {a} : toServer'[b] = toServer[b]
      BY <2>3
    <3>3. \A b \in Agents : (\E i \in 1 .. Len(toServer'[b]) : toServer'[b][i] = BYE)
                             => \E i \in 1 .. Len(toServer[b]) : toServer[b][i] = BYE
      <4> TAKE b \in Agents
      <4>1. CASE b # a
        BY <3>2, <4>1
      <4>2. ASSUME b = a, NEW i \in 1 .. Len(toServer'[b]), toServer'[b][i] = BYE
            PROVE  \E j \in 1 .. Len(toServer[b]) : toServer[b][j] = BYE
        <5>1. i + 1 \in 1 .. Len(toServer[b]) /\ toServer[b][i + 1] = BYE
          BY <3>1, <4>2
        <5> QED BY <5>1
      <4> QED BY <4>1, <4>2
    <3> QED BY <2>1, <3>3 DEF ByeIsLast, ClientGone
  <2> QED BY <1>1, <2>2, <2>3, ServerReads
<1>2. ASSUME NEW a \in Agents, AgentStep(a) \/ UserStep(a) PROVE ByeIsLast'
  <2>1. \A b \in Agents : ClientGone(b) => ClientGone(b)'
    BY <1>2, AgentFrame
  <2>2. CASE UNCHANGED toServer
    BY <2>1, <2>2 DEF ByeIsLast
  <2>3. ASSUME NEW n \in Int, toServer' = [toServer EXCEPT ![a] = Append(@, n)],
               n = BYE => ClientGone(a)'
        PROVE  ByeIsLast'
    <3>1. \A i \in 1 .. Len(toServer'[a]) :
            \/ i \in 1 .. Len(toServer[a]) /\ toServer'[a][i] = toServer[a][i]
            \/ toServer'[a][i] = n
      BY <2>3
    <3>2. \A b \in Agents \ {a} : toServer'[b] = toServer[b]
      BY <2>3
    <3> QED BY <2>1, <2>3, <3>1, <3>2 DEF ByeIsLast
  <2>4. CASE Report(a)
    <3>1. cmd[a].num \in Amounts
      BY <2>4, ReserveFields DEF Report, ControlOK, AgentTypeOK
    <3>2. cmd[a].num \in Int /\ cmd[a].num # BYE
      BY <3>1, ConstantsAssumption
    <3> QED BY <2>3, <2>4, <3>2 DEF Report
  <2>5. CASE Bye(a)
    <3>1. CASE srv[a] = "closed"
      BY <2>2, <2>5, <3>1 DEF Bye
    <3>2. CASE srv[a] # "closed"
      <4>1. toServer' = [toServer EXCEPT ![a] = Append(@, BYE)] /\ BYE \in Int
        BY <2>5, <3>2 DEF Bye, BYE
      <4>2. ClientGone(a)'
        BY <2>5, <3>2 DEF Bye, ClientGone, AgentTypeOK
      <4> QED BY <2>3, <4>1, <4>2
    <3> QED BY <3>1, <3>2
  <2>6. CASE ~Report(a) /\ ~Bye(a)
    <3>1. CASE SendPid(a) \/ ReadReply(a) \/ ReadNoReply(a) \/ Attach(a) \/ ServerGone(a)
      BY <2>2, <3>1 DEF SendPid, ReadReply, ReadNoReply, Attach, ServerGone
    <3>2. CASE Down(a) \/ DownFails(a) \/ Check(a) \/ Take(a) \/ ReportKilled(a)
      BY <2>2, <3>2 DEF Down, DownFails, Check, Take, ReportKilled
    <3>3. CASE Confirm(a) \/ Up(a) \/ UpFails(a) \/ Connect(a) \/ ConnectRefused(a)
      BY <2>2, <3>3 DEF Confirm, Up, UpFails, Connect, ConnectRefused
    <3>4. CASE Command(a) \/ Crash(a)
      BY <2>2, <3>4 DEF Command, Crash
    <3> QED BY <1>2, <2>6, <3>1, <3>2, <3>3, <3>4 DEF AgentStep, UserStep
  <2> QED BY <2>4, <2>5, <2>6
<1>3. CASE UNCHANGED vars
  BY <1>3 DEF vars, ByeIsLast, ClientGone
<1> QED BY <1>1, <1>2, <1>3 DEF Next, Terminated

(* While it serves, the server closes a connection in two places.          *)
LEMMA WhoIsClosed ==
  ASSUME TableInv, ServerStep \/ TypeQuit \/ ServerCrash,
         NEW a \in Agents, srv'[a] = "closed", srv[a] # "closed", spc' \in Serving
  PROVE  (SendFull /\ a = cur) \/ Disconnect(a)
<1> USE DEF TableInv, TypeInv, TypeOK, SockTypeOK
<1>1. ~(Select \/ ReadPid \/ SendIpc)
  BY DEF Select, ReadPid, SendIpc
<1>2. ~Accept
  <2>1. SUFFICES ASSUME Accept PROVE FALSE
    OBVIOUS
  <2>2. srv' = [srv EXCEPT ![Head(backlog)] = "open"]
    BY <2>1 DEF Accept
  <2> QED BY <2>2
<1>3. ~(AnswerKilled \/ ServerCrash)
  BY DEF AnswerKilled, ServerCrash, ServerDies
<1>4. ASSUME NEW b \in Agents, ReadAmount(b) \/ ReadFails(b) PROVE FALSE
  BY <1>4 DEF ReadAmount, ReadFails
<1>5. ASSUME NEW b \in Agents, Disconnect(b) PROVE a = b
  BY <1>5 DEF Disconnect, Closed
<1>6. SendFull => a = cur
  BY DEF SendFull, Closed
<1>7. ~(NextRound \/ PrintSummary \/ ClearSlot \/ FreeArray)
  BY DEF NextRound, PrintSummary, ClearSlot, FreeArray
<1>8. ~(TruncateFile \/ WriteLine \/ CloseFile)
  BY DEF TruncateFile, WriteLine, CloseFile
<1>9. ~(CloseListener \/ RemoveSem \/ RemoveShm \/ TypeQuit)
  BY DEF CloseListener, RemoveSem, RemoveShm, TypeQuit
<1> QED BY <1>1, <1>2, <1>3, <1>4, <1>5, <1>6, <1>7, <1>8, <1>9 DEF ServerStep

LeaverInv == TableInv /\ AnswerOK /\ ByeIsLast /\ OnlyLeaversAreClosed

LEMMA LeaverInit == Init => ByeIsLast /\ OnlyLeaversAreClosed
  BY DEF Init, ByeIsLast, OnlyLeaversAreClosed

LEMMA LeaverStep ==
  ASSUME LeaverInv, [Next]_vars
  PROVE  OnlyLeaversAreClosed'
<1> USE DEF LeaverInv
<1>1. CASE ServerStep \/ TypeQuit \/ ServerCrash
  <2> SUFFICES ASSUME spc' \in Serving, NEW a \in Agents, srv'[a] = "closed", apc'[a] \notin Ended
               PROVE  reply'[a] = "full"
    BY DEF OnlyLeaversAreClosed
  <2>1. apc[a] \notin Ended
    BY <1>1, ServerAnswers
  <2>2. CASE srv[a] # "closed"
    <3>1. CASE SendFull /\ a = cur
      BY <3>1 DEF SendFull, TableInv, TypeInv, TypeOK, SockTypeOK
    <3>2. CASE Disconnect(a)
      <4>1. SaidBye(a)
        BY <2>1, <3>2 DEF Disconnect, EndOfFile, ClientGone
      <4>2. 1 \in 1 .. Len(toServer[a]) /\ toServer[a][1] = BYE
        BY <4>1 DEF SaidBye, TableInv, TypeInv, TypeOK, SockTypeOK
      <4> QED BY <2>1, <4>2 DEF ByeIsLast, ClientGone
    <3> QED BY <1>1, <2>2, <3>1, <3>2, WhoIsClosed
  <2>3. CASE srv[a] = "closed"
    <3>1. spc \in Serving
      BY <1>1, ServerKeepsServing
    <3>2. reply[a] = "full"
      BY <2>1, <2>3, <3>1 DEF OnlyLeaversAreClosed
    <3>3. SendIpc \/ SendFull => srv[cur] = "open" /\ cur \in Agents
      BY DEF SendIpc, SendFull, TableInv, TableOK, OpenOK, TypeInv, ControlOK
    <3>4. SendIpc \/ SendFull => reply'[a] = reply[a]
      BY <2>3, <3>3 DEF SendIpc, SendFull, TableInv, TypeInv, TypeOK, SockTypeOK
    <3> QED BY <1>1, <3>2, <3>4, ServerAnswers
  <2> QED BY <2>2, <2>3
<1>2. ASSUME NEW a \in Agents, AgentStep(a) \/ UserStep(a) PROVE OnlyLeaversAreClosed'
  <2>1. UNCHANGED spc /\ \A b \in Agents : ClientGone(b) => ClientGone(b)'
    BY <1>2, AgentFrame DEF TableInv
  <2>2. \A b \in Agents : srv'[b] = "closed" => srv[b] = "closed"
    <3>1. Connect(a) => \A b \in Agents : srv'[b] = "closed" => srv[b] = "closed"
      BY DEF Connect, TableInv, TypeInv, TypeOK, SockTypeOK
    <3> QED BY <1>2, <3>1, AgentFrame DEF TableInv
  <2>3. \A b \in Agents : reply[b] = "full" => reply'[b] = "full" \/ ClientGone(b)'
    <3>1. ReadReply(a) => \A b \in Agents : reply[b] = "full" => reply'[b] = "full" \/ ClientGone(b)'
      BY DEF ReadReply, ClientGone, TableInv, TypeInv, TypeOK, SockTypeOK, AgentTypeOK
    <3> QED BY <1>2, <3>1, AgentAnswers
  <2> QED BY <2>1, <2>2, <2>3 DEF OnlyLeaversAreClosed, ClientGone
<1>3. CASE UNCHANGED vars
  BY <1>3 DEF vars, OnlyLeaversAreClosed
<1> QED BY <1>1, <1>2, <1>3 DEF Next, Terminated

(* If no amount a user types is the -1 that stands for BYE, the server     *)
(* closes, while it serves, only connections of agents that have ended or  *)
(* been told FULL.                                                         *)
THEOREM OnlyLeaversClosed ==
  ASSUME BYE \notin Amounts
  PROVE  Spec => []OnlyLeaversAreClosed
<1>1. Init => LeaverInv
  BY TypeInit, TableInit, AnswerInit, LeaverInit DEF LeaverInv, TableInv
<1>2. LeaverInv /\ [Next]_vars => LeaverInv'
  BY TypeStep, TableStep, AnswerStep, ByeStep, LeaverStep DEF LeaverInv, TableInv
<1>3. LeaverInv => OnlyLeaversAreClosed
  BY DEF LeaverInv
<1> QED BY <1>1, <1>2, <1>3, PTL DEF Spec

-----------------------------------------------------------------------------
(* What the messages on their way to the server are worth.  Credit is a    *)
(* recursive function, so its equation needs a function that satisfies it, *)
(* and that takes an induction: a least length without one is impossible.  *)
Worth(m) == IF m = BYE THEN 0 ELSE m

IsSum(f, msgs, z) == f = [n \in 0 .. z |-> IF n = 0 THEN 0 ELSE f[n - 1] + Worth(msgs[n])]

LEMMA SumExists ==
  ASSUME NEW msgs, NEW z \in Nat
  PROVE  \E f : IsSum(f, msgs, z)
<1> DEFINE Bad == {y \in Nat : ~ \E f : IsSum(f, msgs, y)}
<1>1. ASSUME Bad # {} PROVE FALSE
  <2>1. PICK k \in Bad : \A y \in Bad : k <= y
    BY <1>1, Least
  <2>2. k # 0
    <3>1. IsSum([n \in 0 .. 0 |-> 0], msgs, 0)
      BY DEF IsSum
    <3> QED BY <3>1
  <2>3. k \in Nat /\ k - 1 \in Nat
    BY <2>2
  <2>4. k - 1 \notin Bad
    <3> HIDE DEF Bad
    <3> QED BY <2>1, <2>3
  <2>5. PICK f : IsSum(f, msgs, k - 1)
    BY <2>3, <2>4
  <2> DEFINE g == [n \in 0 .. k |-> IF n = k THEN f[k - 1] + Worth(msgs[k]) ELSE f[n]]
  <2>6. ASSUME NEW n \in 0 .. k PROVE g[n] = IF n = 0 THEN 0 ELSE g[n - 1] + Worth(msgs[n])
    BY <2>2, <2>3, <2>5 DEF IsSum
  <2>7. IsSum(g, msgs, k)
    <3> HIDE DEF g
    <3>1. g = [n \in 0 .. k |-> g[n]]
      BY DEF g
    <3> QED BY <3>1, <2>6 DEF IsSum
  <2>8. k \notin Bad
    BY <2>7
  <2> QED BY <2>1, <2>8
<1> QED BY <1>1

(* Running totals of a sequence of amounts, and what Credit makes of them. *)
IsTotal(f, msgs) ==
  /\ f[0] = 0
  /\ \A n \in 1 .. Len(msgs) : f[n] \in Int /\ f[n - 1] \in Int /\ f[n] = f[n - 1] + Worth(msgs[n])
  /\ Credit(msgs) = f[Len(msgs)]

LEMMA CreditTotals ==
  ASSUME NEW msgs \in Seq(Int)
  PROVE  \E f : IsTotal(f, msgs)
<1> DEFINE z == Len(msgs)
           f == CHOOSE g : IsSum(g, msgs, z)
<1>1. z \in Nat /\ IsSum(f, msgs, z)
  BY SumExists
<1>2. Credit(msgs) = f[z]
  BY DEF Credit, IsSum, Worth
<1> HIDE DEF f
<1>3. f[0] = 0 /\ \A n \in 1 .. z : f[n] = f[n - 1] + Worth(msgs[n])
  BY <1>1 DEF IsSum
<1>4. \A n \in 1 .. z : Worth(msgs[n]) \in Int
  BY DEF Worth
<1> DEFINE Bad == {n \in Nat : n <= z /\ f[n] \notin Int}
<1>5. ASSUME Bad # {} PROVE FALSE
  <2>1. PICK k \in Bad : \A y \in Bad : k <= y
    BY <1>5, Least
  <2>2. k \in 1 .. z /\ k - 1 \in Nat /\ k - 1 <= z
    BY <1>1, <1>3, <2>1
  <2>3. k - 1 \notin Bad
    <3> HIDE DEF Bad
    <3> QED BY <2>1, <2>2
  <2>4. f[k - 1] \in Int
    BY <2>2, <2>3
  <2> QED BY <1>3, <1>4, <2>1, <2>2, <2>4
<1>6. \A n \in 0 .. z : f[n] \in Int
  BY <1>1, <1>5
<1>7. \A n \in 1 .. z : n \in 0 .. z /\ n - 1 \in 0 .. z
  BY <1>1
<1> QED BY <1>2, <1>3, <1>6, <1>7 DEF IsTotal

(* Two running totals that grow alike differ by what they differ by at the *)
(* start.                                                                  *)
GrowAlike(f, g, z) ==
  \A n \in 1 .. z : \E w \in Int : f[n] = f[n - 1] + w /\ g[n] = g[n - 1] + w /\ g[n - 1] \in Int

LEMMA TotalsAgree ==
  ASSUME NEW z \in Nat, NEW f, NEW g, NEW d \in Int, f[0] = g[0] + d, GrowAlike(f, g, z)
  PROVE  f[z] = g[z] + d
<1> DEFINE Bad == {n \in Nat : n <= z /\ f[n] # g[n] + d}
<1>1. ASSUME Bad # {} PROVE FALSE
  <2>1. PICK k \in Bad : \A y \in Bad : k <= y
    BY <1>1, Least
  <2>2. k \in 1 .. z /\ k - 1 \in Nat /\ k - 1 <= z
    BY <2>1
  <2>3. k - 1 \notin Bad
    <3> HIDE DEF Bad
    <3> QED BY <2>1, <2>2
  <2>4. f[k - 1] = g[k - 1] + d
    BY <2>2, <2>3
  <2> QED BY <2>1, <2>2, <2>4 DEF GrowAlike
<1> QED BY <1>1

(* An empty sequence is worth nothing, an appended message its worth, and  *)
(* the rest what is left without the head's.                               *)
LEMMA CreditEmpty == Credit(<<>>) = 0
<1>1. PICK f : IsTotal(f, <<>>)
  <2>1. <<>> \in Seq(Int)
    OBVIOUS
  <2> QED BY <2>1, CreditTotals
<1> QED BY <1>1 DEF IsTotal

LEMMA CreditType == ASSUME NEW msgs \in Seq(Int) PROVE Credit(msgs) \in Int
<1>1. PICK f : IsTotal(f, msgs)
  BY CreditTotals
<1>2. CASE Len(msgs) = 0
  BY <1>1, <1>2 DEF IsTotal
<1>3. CASE Len(msgs) # 0
  <2>1. Len(msgs) \in 1 .. Len(msgs)
    BY <1>3
  <2> QED BY <1>1, <2>1 DEF IsTotal
<1> QED BY <1>2, <1>3

LEMMA CreditAppend ==
  ASSUME NEW msgs \in Seq(Int), NEW m \in Int
  PROVE  Credit(Append(msgs, m)) = Credit(msgs) + Worth(m)
<1> DEFINE all == Append(msgs, m)
<1>1. all \in Seq(Int) /\ Len(all) = Len(msgs) + 1 /\ Len(msgs) \in Nat
      /\ all[Len(msgs) + 1] = m /\ \A n \in 1 .. Len(msgs) : all[n] = msgs[n]
  OBVIOUS
<1> HIDE DEF all
<1>2. PICK f : IsTotal(f, all)
  BY <1>1, CreditTotals
<1>3. PICK g : IsTotal(g, msgs)
  BY CreditTotals
<1>4. PICK z \in Nat : z = Len(msgs)
  BY <1>1
<1>5. GrowAlike(f, g, z)
  <2> SUFFICES ASSUME NEW n \in 1 .. z
               PROVE  \E w \in Int : f[n] = f[n - 1] + w /\ g[n] = g[n - 1] + w /\ g[n - 1] \in Int
    BY DEF GrowAlike
  <2>1. n \in 1 .. Len(all) /\ all[n] = msgs[n] /\ msgs[n] \in Int
    BY <1>1, <1>4
  <2>2. Worth(msgs[n]) \in Int
    BY <2>1 DEF Worth
  <2> QED BY <1>2, <1>3, <1>4, <2>1, <2>2 DEF IsTotal
<1>6. f[0] = 0 /\ g[0] = 0
  BY <1>2, <1>3 DEF IsTotal
<1>7. f[z] = g[z] + 0
  <2>1. f[0] = g[0] + 0
    BY <1>6
  <2> QED BY <1>5, <2>1, TotalsAgree
<1>8. z + 1 \in 1 .. Len(all) /\ (z + 1) - 1 = z
  BY <1>1, <1>4
<1>9. f[z + 1] = f[z] + Worth(m) /\ f[z] \in Int
  BY <1>1, <1>2, <1>4, <1>8 DEF IsTotal
<1>10. Credit(all) = f[z + 1] /\ Credit(msgs) = g[z] /\ Credit(msgs) \in Int
  BY <1>1, <1>2, <1>3, <1>4, CreditType DEF IsTotal
<1> QED BY <1>7, <1>9, <1>10 DEF all

LEMMA CreditTail ==
  ASSUME NEW msgs \in Seq(Int), msgs # <<>>
  PROVE  Credit(msgs) = Worth(Head(msgs)) + Credit(Tail(msgs))
<1> DEFINE rest == Tail(msgs)
<1>1. rest \in Seq(Int) /\ Len(msgs) = Len(rest) + 1 /\ Len(rest) \in Nat
      /\ Head(msgs) = msgs[1] /\ msgs[1] \in Int /\ \A n \in 1 .. Len(rest) : rest[n] = msgs[n + 1]
  OBVIOUS
<1> HIDE DEF rest
<1>2. PICK f : IsTotal(f, msgs)
  BY CreditTotals
<1>3. PICK g : IsTotal(g, rest)
  BY <1>1, CreditTotals
<1>4. PICK z \in Nat : z = Len(rest)
  BY <1>1
<1> DEFINE h == [n \in 0 .. z |-> f[n + 1]]
<1>5. GrowAlike(h, g, z)
  <2> SUFFICES ASSUME NEW n \in 1 .. z
               PROVE  \E w \in Int : h[n] = h[n - 1] + w /\ g[n] = g[n - 1] + w /\ g[n - 1] \in Int
    BY DEF GrowAlike
  <2>1. n + 1 \in 1 .. Len(msgs) /\ rest[n] = msgs[n + 1] /\ rest[n] \in Int /\ (n + 1) - 1 = n
    BY <1>1, <1>4
  <2>2. h[n] = f[n + 1] /\ h[n - 1] = f[n]
    OBVIOUS
  <2> HIDE DEF h
  <2>3. Worth(rest[n]) \in Int
    BY <2>1 DEF Worth
  <2>4. f[n + 1] = f[n] + Worth(rest[n])
    BY <1>2, <2>1 DEF IsTotal
  <2>5. g[n] = g[n - 1] + Worth(rest[n]) /\ g[n - 1] \in Int
    BY <1>3, <1>4 DEF IsTotal
  <2> QED BY <2>2, <2>3, <2>4, <2>5
<1>6. f[0] = 0 /\ g[0] = 0 /\ f[1] = Worth(Head(msgs)) /\ f[1] \in Int
  <2>1. 1 \in 1 .. Len(msgs)
    BY <1>1
  <2>2. f[0] = 0 /\ g[0] = 0 /\ f[1] = f[1 - 1] + Worth(msgs[1]) /\ f[1] \in Int
    BY <1>2, <1>3, <2>1 DEF IsTotal
  <2>3. f[1 - 1] = 0 /\ Worth(msgs[1]) \in Int
    BY <1>1, <2>2 DEF Worth
  <2> QED BY <1>1, <2>2, <2>3
<1>7. h[0] = f[1] /\ h[z] = f[z + 1]
  OBVIOUS
<1> HIDE DEF h
<1>8. h[z] = g[z] + f[1]
  <2>1. h[0] = g[0] + f[1]
    BY <1>6, <1>7
  <2> QED BY <1>5, <1>6, <2>1, TotalsAgree
<1>9. Credit(msgs) = f[z + 1] /\ Credit(rest) = g[z] /\ Credit(rest) \in Int
  BY <1>1, <1>2, <1>3, <1>4, CreditType DEF IsTotal
<1>10. PICK n \in Int, m \in Int : n = g[z] /\ m = f[1]
  BY <1>6, <1>9
<1>11. Credit(msgs) = n + m /\ Credit(rest) = n /\ Worth(Head(msgs)) = m
  BY <1>6, <1>7, <1>8, <1>9, <1>10
<1>12. Credit(msgs) = Worth(Head(msgs)) + Credit(rest)
  BY <1>11
<1> QED BY <1>12 DEF rest

-----------------------------------------------------------------------------
(* What the server has counted.  An occupied slot that names an agent is   *)
(* that of its connection, and what it counts and what is still in the     *)
(* socket are what the agent sold; one that has not read its answer has    *)
(* sold nothing, so a new slot starts with the right count.  The pid of an *)
(* agent that ended before it sent it may be anybody's, but then the       *)
(* server is about to be killed.                                           *)
TallyOK ==
  spc \in Serving /\ ~Doomed =>
    \A k \in Occupied(agent_array) : \A a \in Agents : agent_array[k].pid = a =>
      /\ a \in Seated /\ agent_array[k].socket = sfd[a]
      /\ agent_array[k].seats + Unread(a) = booked[a]

NothingSoldYet == \A a \in Agents : reply[a] # "read" => toServer[a] = <<>> /\ booked[a] = 0

TallyInv == TableInv /\ AnswerOK /\ NothingSoldYet /\ TallyOK

LEMMA TallyInit == Init => NothingSoldYet /\ TallyOK
<1> SUFFICES ASSUME Init PROVE NothingSoldYet /\ TallyOK
  OBVIOUS
<1>1. Occupied(agent_array) = {}
  BY DEF Init, Occupied, agent_arr_init
<1> QED BY <1>1 DEF Init, NothingSoldYet, TallyOK

LEMMA TallyTypes ==
  ASSUME TableInv, NEW a \in Agents
  PROVE  /\ toServer[a] \in Seq(Int) /\ Unread(a) \in Int /\ booked[a] \in Int
         /\ \A k \in Slots : agent_array[k].seats \in Int
  BY CreditType, ArrayType
     DEF TableInv, TypeInv, TypeOK, SockTypeOK, HistoryTypeOK, Unread, Arrays, SlotRecords

(* Steps that leave the table alone and the sum of each agent's messages   *)
(* in step with what it sold.                                              *)
InStep == \A b \in Agents : \E d \in Int : Unread(b)' = Unread(b) + d /\ booked'[b] = booked[b] + d

LEMMA TallyKept ==
  ASSUME TallyInv, InStep, UNCHANGED agent_array,
         spc' \in Serving /\ ~Doomed' => spc \in Serving /\ ~Doomed,
         \A b \in Seated : b \in Seated' /\ sfd'[b] = sfd[b]
  PROVE  TallyOK'
<1> SUFFICES ASSUME spc' \in Serving, ~Doomed', NEW k \in Occupied(agent_array'),
                    NEW a \in Agents, agent_array'[k].pid = a
             PROVE  /\ a \in Seated' /\ agent_array'[k].socket = sfd'[a]
                    /\ agent_array'[k].seats + Unread(a)' = booked'[a]
  BY DEF TallyOK
<1>1. /\ a \in Seated /\ agent_array[k].socket = sfd[a]
      /\ agent_array[k].seats + Unread(a) = booked[a]
  BY DEF TallyInv, TallyOK
<1>2. PICK d \in Int : Unread(a)' = Unread(a) + d /\ booked'[a] = booked[a] + d
  BY DEF InStep
<1>3. agent_array[k].seats \in Int /\ Unread(a) \in Int /\ booked[a] \in Int
  BY TallyTypes DEF TallyInv, Occupied
<1>4. PICK c \in Int, u \in Int, n \in Int : c = agent_array[k].seats /\ u = Unread(a) /\ n = booked[a]
  BY <1>3
<1>5. c + (u + d) = n + d
  BY <1>1, <1>4
<1> QED BY <1>1, <1>2, <1>4, <1>5

LEMMA NothingMoves ==
  ASSUME TallyInv, UNCHANGED <<toServer, booked>>
  PROVE  InStep
<1> SUFFICES ASSUME NEW b \in Agents
             PROVE  \E d \in Int : Unread(b)' = Unread(b) + d /\ booked'[b] = booked[b] + d
  BY DEF InStep
<1>1. Unread(b)' = Unread(b) + 0 /\ booked'[b] = booked[b] + 0
  BY TallyTypes DEF TallyInv, Unread
<1> QED BY <1>1

(* An agent books what it sends, and says BYE for nothing.                 *)
LEMMA AgentInStep ==
  ASSUME BYE \notin Amounts, TallyInv, NEW a \in Agents, AgentStep(a) \/ UserStep(a)
  PROVE  InStep
<1> USE DEF TallyInv, TableInv, TypeInv, TypeOK, SockTypeOK, HistoryTypeOK
<1>1. CASE UNCHANGED <<toServer, booked>>
  BY <1>1, NothingMoves
<1>2. ASSUME NEW n \in Int, toServer' = [toServer EXCEPT ![a] = Append(@, n)],
             booked' = [booked EXCEPT ![a] = @ + Worth(n)]
      PROVE  InStep
  <2> SUFFICES ASSUME NEW b \in Agents
               PROVE  \E d \in Int : Unread(b)' = Unread(b) + d /\ booked'[b] = booked[b] + d
    BY DEF InStep
  <2>1. CASE b # a
    <3>1. Unread(b)' = Unread(b) + 0 /\ booked'[b] = booked[b] + 0
      BY <1>2, <2>1, TallyTypes DEF Unread
    <3> QED BY <3>1
  <2>2. CASE b = a
    <3>1. Worth(n) \in Int
      BY DEF Worth
    <3>2. toServer'[a] = Append(toServer[a], n) /\ booked'[a] = booked[a] + Worth(n)
      BY <1>2
    <3>3. Unread(a)' = Unread(a) + Worth(n)
      BY <3>2, TallyTypes, CreditAppend DEF Unread
    <3> QED BY <2>2, <3>1, <3>2, <3>3
  <2> QED BY <2>1, <2>2
<1>3. CASE Report(a)
  <2>1. cmd[a].num \in Int /\ cmd[a].num # BYE
    <3>1. cmd[a].num \in Amounts
      BY <1>3, ReserveFields DEF Report, ControlOK, AgentTypeOK
    <3> QED BY <3>1, ConstantsAssumption
  <2>2. Worth(cmd[a].num) = cmd[a].num
    BY <2>1 DEF Worth
  <2> QED BY <1>2, <1>3, <2>1, <2>2 DEF Report
<1>4. CASE Bye(a)
  <2>1. CASE srv[a] = "closed"
    BY <1>1, <1>4, <2>1 DEF Bye
  <2>2. CASE srv[a] # "closed"
    <3>1. BYE \in Int /\ Worth(BYE) = 0
      BY DEF BYE, Worth
    <3>2. booked' = [booked EXCEPT ![a] = @ + Worth(BYE)]
      BY <1>4, <3>1 DEF Bye
    <3> QED BY <1>2, <1>4, <2>2, <3>1, <3>2 DEF Bye
  <2> QED BY <2>1, <2>2
<1>5. CASE SendPid(a) \/ ReadReply(a) \/ ReadNoReply(a) \/ Attach(a) \/ ServerGone(a)
  BY <1>1, <1>5 DEF SendPid, ReadReply, ReadNoReply, Attach, ServerGone
<1>6. CASE Down(a) \/ DownFails(a) \/ Check(a) \/ Take(a) \/ ReportKilled(a) \/ Confirm(a)
  BY <1>1, <1>6 DEF Down, DownFails, Check, Take, ReportKilled, Confirm
<1>7. CASE Up(a) \/ UpFails(a) \/ Connect(a) \/ ConnectRefused(a) \/ Command(a) \/ Crash(a)
  BY <1>1, <1>7 DEF Up, UpFails, Connect, ConnectRefused, Command, Crash
<1> QED BY <1>3, <1>4, <1>5, <1>6, <1>7 DEF AgentStep, UserStep

LEMMA AgentNothingSold ==
  ASSUME TallyInv, NEW a \in Agents, AgentStep(a) \/ UserStep(a)
  PROVE  NothingSoldYet'
<1> USE DEF TallyInv, TableInv, TypeInv, TypeOK, SockTypeOK, HistoryTypeOK
<1>1. CASE Report(a) \/ Bye(a)
  <2>1. reply[a] = "read" /\ UNCHANGED reply
    BY <1>1 DEF Report, Bye, AnswerOK, Answered
  <2>2. \A b \in Agents \ {a} : toServer'[b] = toServer[b] /\ booked'[b] = booked[b]
    BY <1>1 DEF Report, Bye
  <2> QED BY <2>1, <2>2 DEF NothingSoldYet
<1>2. CASE ReadReply(a)
  BY <1>2 DEF ReadReply, NothingSoldYet
<1>3. CASE SendPid(a) \/ ReadNoReply(a) \/ Attach(a) \/ ServerGone(a)
  BY <1>3 DEF SendPid, ReadNoReply, Attach, ServerGone, NothingSoldYet
<1>4. CASE Down(a) \/ DownFails(a) \/ Check(a) \/ Take(a) \/ ReportKilled(a) \/ Confirm(a)
  BY <1>4 DEF Down, DownFails, Check, Take, ReportKilled, Confirm, NothingSoldYet
<1>5. CASE Up(a) \/ UpFails(a) \/ Connect(a) \/ ConnectRefused(a) \/ Command(a) \/ Crash(a)
  BY <1>5 DEF Up, UpFails, Connect, ConnectRefused, Command, Crash, NothingSoldYet
<1> QED BY <1>1, <1>2, <1>3, <1>4, <1>5 DEF AgentStep, UserStep

LEMMA AgentKeepsTally ==
  ASSUME BYE \notin Amounts, TallyInv, NEW a \in Agents, AgentStep(a) \/ UserStep(a)
  PROVE  NothingSoldYet' /\ TallyOK'
<1> USE DEF TallyInv, TableInv, TypeInv, TypeOK
<1>1. UNCHANGED <<serverVars, sfd>>
  BY AgentFrame
<1>2. \A b \in Agents : srv[b] = "open" => srv'[b] = "open"
  <2>1. CASE Connect(a)
    BY <2>1 DEF Connect, TableOK, QueueOK, SockTypeOK
  <2> QED BY <2>1, AgentFrame
<1>3. \A b \in Seated : b \in Seated' /\ sfd'[b] = sfd[b]
  BY <1>1, <1>2 DEF Seated
<1>4. Doomed => Doomed'
  BY <1>1, AgentFrame DEF Doomed, ControlOK
<1> QED BY <1>1, <1>3, <1>4, AgentInStep, AgentNothingSold, TallyKept

-----------------------------------------------------------------------------
(* The server only takes messages out of the sockets, and answers an agent *)
(* that has not been answered.                                             *)
LEMMA ServerNothingSold ==
  ASSUME TallyInv, ServerStep \/ TypeQuit \/ ServerCrash
  PROVE  NothingSoldYet'
<1> USE DEF TallyInv, TableInv, TypeInv, TypeOK, SockTypeOK
<1>1. \A b \in Agents : reply'[b] # "read" => reply[b] # "read"
  <2>1. CASE SendIpc \/ SendFull
    BY <2>1 DEF SendIpc, SendFull, AnswerOK, ControlOK
  <2> QED BY <2>1, ServerAnswers
<1>2. \A b \in Agents : toServer[b] = <<>> => toServer'[b] = <<>>
  BY ServerReads
<1>3. UNCHANGED booked
  BY ServerFrame
<1> QED BY <1>1, <1>2, <1>3 DEF NothingSoldYet

LEMMA AcceptTally == ASSUME TallyInv, Accept PROVE TallyOK'
<1> USE DEF TallyInv, TableInv, TypeInv, TypeOK, SockTypeOK
<1> DEFINE c == Head(backlog)
<1>1. c \in Agents /\ srv[c] = "queued"
  BY DEF Accept, TableOK, QueueOK
<1>2. /\ spc = "accept" /\ spc' = "readpid" /\ cur' = c /\ ~Doomed
      /\ UNCHANGED <<agent_array, toServer, booked>>
      /\ \A b \in Agents \ {c} : srv'[b] = srv[b] /\ sfd'[b] = sfd[b]
  BY DEF Accept, Doomed
<1> HIDE DEF c
<1>3. \A b \in Seated : b \in Seated' /\ sfd'[b] = sfd[b]
  BY <1>1, <1>2 DEF Seated
<1> QED BY <1>2, <1>3, NothingMoves, TallyKept

(* A slot of the table after an insertion is one from before, or counts    *)
(* nothing.                                                                *)
LEMMA InsertSlots ==
  ASSUME NEW array \in Arrays, NEW sock, NEW pid,
         NEW k \in Occupied(agent_arr_insert(array, sock, pid))
  PROVE  \/ k \in Occupied(array) /\ agent_arr_insert(array, sock, pid)[k] = array[k]
         \/ agent_arr_insert(array, sock, pid)[k] = [pid |-> pid, socket |-> sock, seats |-> 0]
<1> DEFINE free == Slots \ Occupied(array)
           rec == [pid |-> pid, socket |-> sock, seats |-> 0]
           new == agent_arr_insert(array, sock, pid)
<1>1. CASE free = {}
  BY <1>1 DEF agent_arr_insert
<1>2. CASE free # {}
  <2>1. new = [array EXCEPT ![Min(free)] = rec]
    BY <1>2 DEF agent_arr_insert
  <2>2. k \in Slots /\ new[k].pid # NoPid
    BY DEF Occupied
  <2>3. new[k] = rec \/ new[k] = array[k]
    BY <2>1, <2>2 DEF Arrays
  <2> HIDE DEF new
  <2>4. new[k] = rec \/ (k \in Occupied(array) /\ new[k] = array[k])
    BY <2>2, <2>3 DEF Occupied
  <2> QED BY <2>4 DEF new
<1> QED BY <1>1, <1>2

LEMMA ReadPidTally == ASSUME TallyInv, ReadPid PROVE TallyOK'
<1> USE DEF TallyInv, TableInv, TypeInv, TypeOK, SockTypeOK
<1>1. /\ cur \in Agents /\ srv[cur] = "open" /\ spc = "readpid" /\ ~Doomed
      /\ UNCHANGED <<srv, sfd, toServer, booked, cur, apc>>
      /\ pidState[cur] = "sent" \/ ClientGone(cur)
  BY DEF ReadPid, ControlOK, TableOK, OpenOK, Doomed
<1>2. PICK pid \in (IF pidState[cur] = "sent" THEN {cur} ELSE Pids) :
        IF agentNum < MaxAgents
        THEN Admit(sfd[cur], pid) /\ ServerGoto("sendipc")
        ELSE ServerGoto("sendfull") /\ UNCHANGED <<agent_array, master, nfds, agentNum>>
  BY DEF ReadPid
<1>3. Seated \subseteq Seated'
  BY <1>1, <1>2 DEF Seated
<1>4. CASE agentNum < MaxAgents
  <2>1. agent_array' = agent_arr_insert(agent_array, sfd[cur], pid) /\ spc' = "sendipc"
    BY <1>2, <1>4 DEF Admit
  <2> SUFFICES ASSUME ~Doomed', NEW k \in Occupied(agent_array'), NEW a \in Agents,
                      agent_array'[k].pid = a
               PROVE  /\ a \in Seated' /\ agent_array'[k].socket = sfd'[a]
                      /\ agent_array'[k].seats + Unread(a)' = booked'[a]
    BY DEF TallyOK
  <2>2. CASE k \in Occupied(agent_array) /\ agent_array'[k] = agent_array[k]
    <3>1. /\ a \in Seated /\ agent_array[k].socket = sfd[a]
          /\ agent_array[k].seats + Unread(a) = booked[a]
      BY <1>1, <2>2 DEF TallyOK
    <3> QED BY <1>1, <1>3, <2>2, <3>1 DEF Unread
  <2>3. CASE agent_array'[k] = [pid |-> pid, socket |-> sfd[cur], seats |-> 0]
    <3>1. a = pid
      BY <2>3
    <3>2. a = cur
      BY <1>1, <1>2, <2>1, <3>1 DEF Doomed, ClientGone
    <3>3. toServer[a] = <<>> /\ booked[a] = 0
      BY <1>1, <3>2 DEF AnswerOK, NothingSoldYet
    <3>4. a \in Seated'
      BY <1>1, <2>1, <3>2 DEF Seated
    <3>5. Unread(a)' = 0 /\ booked'[a] = 0
      BY <1>1, <3>3, CreditEmpty DEF Unread
    <3> QED BY <1>1, <2>3, <3>2, <3>4, <3>5
  <2> QED BY <2>1, <2>2, <2>3, ArrayType, InsertSlots
<1>5. CASE ~(agentNum < MaxAgents)
  BY <1>1, <1>2, <1>3, <1>5, NothingMoves, TallyKept
<1> QED BY <1>4, <1>5

(* The refused agent is not in the table.                                  *)
LEMMA SendFullTally == ASSUME TallyInv, SendFull PROVE TallyOK'
<1> USE DEF TallyInv, TableInv, TypeInv, TypeOK, SockTypeOK
<1>1. /\ spc = "sendfull" /\ spc' = "messages" /\ ~Doomed
      /\ UNCHANGED <<agent_array, toServer, booked, sfd>>
      /\ \A b \in Agents \ {cur} : srv'[b] = srv[b]
  BY DEF SendFull, Closed, Doomed
<1>2. \A b \in Seated : b \in Seated' /\ sfd'[b] = sfd[b]
  BY <1>1 DEF Seated
<1> QED BY <1>1, <1>2, NothingMoves, TallyKept

(* The amount read goes from the socket of an agent to that agent's slot.  *)
LEMMA ReadAmountTally == ASSUME TallyInv, NEW a \in Agents, ReadAmount(a) PROVE TallyOK'
<1> USE DEF TallyInv, TableInv, TypeInv, TypeOK, SockTypeOK
<1> DEFINE j == agent_arr_search(agent_array, sfd[a])
           n == Head(toServer[a])
<1>1. /\ UNCHANGED <<srv, sfd, spc, cur, booked>>
      /\ spc = "messages" /\ srv[a] = "open"
      /\ toServer[a] # <<>> /\ n # BYE
      /\ toServer' = [toServer EXCEPT ![a] = Tail(@)]
      /\ agent_array' = [agent_array EXCEPT ![j].seats = @ + n]
  BY DEF ReadAmount, Reading
<1>2. a \in Seated /\ ~Doomed /\ Seated' = Seated
  BY <1>1 DEF Seated, Doomed
<1>3. OneSlotEach(agent_array) /\ sfd[a] \in SocketsOf(agent_array)
  BY <1>1, <1>2 DEF TableOK, SeatedOK
<1>4. j \in Occupied(agent_array) /\ agent_array[j].socket = sfd[a]
  <2>1. Holding(agent_array, sfd[a]) # {}
    BY <1>3 DEF SocketsOf, Holding
  <2>2. Holding(agent_array, sfd[a]) \in SUBSET Nat
    BY MaxAgentsAssumption DEF Holding, Occupied, Slots
  <2>3. j \in Holding(agent_array, sfd[a])
    BY <2>1, <2>2, MinOfNat DEF agent_arr_search
  <2> QED BY <2>3 DEF Holding
<1>5. toServer[a] \in Seq(Int) /\ n \in Int /\ Worth(n) = n
  BY <1>1 DEF Worth
<1>6. Unread(a) = n + Unread(a)' /\ Unread(a)' \in Int
  <2>1. toServer'[a] = Tail(toServer[a]) /\ Tail(toServer[a]) \in Seq(Int)
    BY <1>1, <1>5
  <2>2. Credit(toServer[a]) = n + Credit(Tail(toServer[a]))
    BY <1>1, <1>5, CreditTail
  <2>3. Credit(Tail(toServer[a])) \in Int
    BY <2>1, CreditType
  <2> QED BY <2>1, <2>2, <2>3 DEF Unread
<1> HIDE DEF j, n
<1>7. /\ \A k \in Slots : agent_array'[k].pid = agent_array[k].pid
      /\ \A k \in Slots : agent_array'[k].socket = agent_array[k].socket
      /\ \A k \in Slots \ {j} : agent_array'[k] = agent_array[k]
      /\ agent_array'[j].seats = agent_array[j].seats + n
  BY <1>1, <1>4, ArrayType DEF Arrays, SlotRecords, Occupied
<1> SUFFICES ASSUME NEW k \in Occupied(agent_array'), NEW b \in Agents, agent_array'[k].pid = b
             PROVE  /\ b \in Seated' /\ agent_array'[k].socket = sfd'[b]
                    /\ agent_array'[k].seats + Unread(b)' = booked'[b]
  BY DEF TallyOK
<1>8. k \in Occupied(agent_array) /\ k \in Slots
  BY <1>7 DEF Occupied
<1>9. /\ b \in Seated /\ agent_array[k].socket = sfd[b]
      /\ agent_array[k].seats + Unread(b) = booked[b]
  BY <1>1, <1>2, <1>7, <1>8 DEF TallyOK
<1>10. CASE k = j
  <2>1. a = b
    BY <1>1, <1>2, <1>4, <1>9, <1>10 DEF TableOK, OpenOK, Seated
  <2>2. PICK c \in Int, u \in Int : c = agent_array[k].seats /\ u = Unread(a)'
    BY <1>6, <1>8, TallyTypes
  <2>3. (c + n) + u = c + (n + u)
    BY <1>5, <2>2
  <2>4. agent_array'[k].seats + Unread(b)' = booked'[b]
    BY <1>1, <1>6, <1>7, <1>9, <1>10, <2>1, <2>2, <2>3
  <2> QED BY <1>1, <1>2, <1>7, <1>8, <1>9, <2>4
<1>11. CASE k # j
  <2>1. a # b
    BY <1>3, <1>4, <1>8, <1>9, <1>11 DEF OneSlotEach
  <2>2. toServer'[b] = toServer[b]
    BY <1>1, <2>1
  <2>3. Unread(b)' = Unread(b)
    BY <2>2 DEF Unread
  <2> QED BY <1>1, <1>2, <1>7, <1>8, <1>9, <1>11, <2>3
<1> QED BY <1>10, <1>11

(* Who leaves takes its slot along.                                        *)
LEMMA DisconnectTally == ASSUME TallyInv, NEW a \in Agents, Disconnect(a) PROVE TallyOK'
<1> USE DEF TallyInv, TableInv, TypeInv, TypeOK, SockTypeOK
<1>1. /\ UNCHANGED <<sfd, spc, cur, booked>>
      /\ spc = "messages" /\ srv[a] = "open"
      /\ agent_array' = agent_arr_remove(agent_array, sfd[a])
      /\ \A b \in Agents \ {a} : srv'[b] = srv[b] /\ toServer'[b] = toServer[b]
      /\ ~Doomed
  BY DEF Disconnect, Dismiss, Reading, Closed, Doomed
<1> SUFFICES ASSUME NEW k \in Occupied(agent_array'), NEW b \in Agents, agent_array'[k].pid = b
             PROVE  /\ b \in Seated' /\ agent_array'[k].socket = sfd'[b]
                    /\ agent_array'[k].seats + Unread(b)' = booked'[b]
  BY DEF TallyOK
<1>2. k \in Slots /\ agent_array'[k].pid # NoPid
  BY DEF Occupied
<1>3. k \notin Holding(agent_array, sfd[a])
  BY <1>1, <1>2, ArrayType DEF agent_arr_remove, Holding, Occupied, Arrays, SlotRecords
<1>4. agent_array'[k] = agent_array[k]
  BY <1>1, <1>2, <1>3 DEF agent_arr_remove
<1>5. k \in Occupied(agent_array)
  BY <1>2, <1>4 DEF Occupied
<1>6. /\ b \in Seated /\ agent_array[k].socket = sfd[b]
      /\ agent_array[k].seats + Unread(b) = booked[b]
  BY <1>1, <1>4, <1>5 DEF TallyOK
<1>7. b # a
  BY <1>3, <1>5, <1>6 DEF Holding
<1>8. b \in Seated' /\ Unread(b)' = Unread(b)
  BY <1>1, <1>6, <1>7 DEF Seated, Unread
<1> QED BY <1>1, <1>4, <1>6, <1>8

LEMMA ServerKeepsTally ==
  ASSUME TallyInv, ServerStep \/ TypeQuit \/ ServerCrash
  PROVE  NothingSoldYet' /\ TallyOK'
<1>1. CASE Select \/ SendIpc \/ NextRound \/ TypeQuit
  <2>1. UNCHANGED <<agent_array, toServer, booked, sfd, srv>>
    BY <1>1 DEF Select, SendIpc, NextRound, TypeQuit
  <2>2. spc' \in {"readpid", "sendfull"} => spc' = spc /\ cur' = cur
    BY <1>1 DEF Select, SendIpc, NextRound, TypeQuit
  <2>3. \A b \in Seated : b \in Seated' /\ sfd'[b] = sfd[b]
    BY <2>1, <2>2 DEF Seated
  <2>4. Doomed => Doomed'
    <3>1. Doomed => TypeQuit
      BY <1>1 DEF Select, SendIpc, NextRound, Doomed
    <3>2. TypeQuit => UNCHANGED <<spc, cur, apc>>
      BY DEF TypeQuit
    <3> QED BY <3>1, <3>2 DEF Doomed, ClientGone
  <2> QED BY <2>1, <2>3, <2>4, ServerKeepsServing, ServerNothingSold, NothingMoves, TallyKept
<1>2. CASE spc' \notin Serving
  BY <1>2, ServerNothingSold DEF TallyOK
<1>3. CASE AnswerKilled \/ ServerCrash
  BY <1>2, <1>3 DEF AnswerKilled, ServerCrash, ServerDies
<1>4. ASSUME NEW a \in Agents, ReadFails(a) PROVE spc' \notin Serving
  BY <1>4 DEF ReadFails
<1>5. CASE PrintSummary \/ ClearSlot \/ FreeArray \/ TruncateFile \/ WriteLine
  BY <1>2, <1>5 DEF PrintSummary, ClearSlot, FreeArray, TruncateFile, WriteLine
<1>6. CASE CloseFile \/ CloseListener \/ RemoveSem \/ RemoveShm
  BY <1>2, <1>6 DEF CloseFile, CloseListener, RemoveSem, RemoveShm
<1> QED BY <1>1, <1>2, <1>3, <1>4, <1>5, <1>6, AcceptTally, ReadPidTally, SendFullTally,
           ReadAmountTally, DisconnectTally, ServerNothingSold DEF ServerStep

LEMMA TallyStep ==
  ASSUME BYE \notin Amounts, TallyInv, [Next]_vars
  PROVE  NothingSoldYet' /\ TallyOK'
<1>1. CASE UNCHANGED vars
  <2>1. InStep /\ Seated' = Seated /\ (Doomed' <=> Doomed)
    BY <1>1, NothingMoves DEF vars, Seated, Doomed, ClientGone
  <2>2. UNCHANGED <<toServer, booked, reply, sfd, spc, agent_array>>
    BY <1>1 DEF vars
  <2>3. NothingSoldYet'
    BY <2>2 DEF TallyInv, NothingSoldYet
  <2> QED BY <2>1, <2>2, <2>3, TallyKept
<1> QED BY <1>1, AgentKeepsTally, ServerKeepsTally DEF Next, Terminated

(* If no amount a user types is the -1 that stands for BYE, every slot of  *)
(* the table counts for the agent it names what that agent sold, less what *)
(* is still on its way: no amount is lost, counted twice or credited to    *)
(* somebody else, however slots, descriptors and connections are reused.   *)
THEOREM EveryAmountIsCounted ==
  ASSUME BYE \notin Amounts
  PROVE  Spec => []LedgerAddsUp
<1>1. Init => TallyInv
  BY TypeInit, TableInit, AnswerInit, TallyInit DEF TallyInv, TableInv
<1>2. TallyInv /\ [Next]_vars => TallyInv'
  BY TypeStep, TableStep, AnswerStep, TallyStep DEF TallyInv, TableInv
<1>3. TallyInv => LedgerAddsUp
  BY DEF TallyInv, TallyOK, LedgerAddsUp, Doomed
<1> QED BY <1>1, <1>2, <1>3, PTL DEF Spec

=============================================================================
