---------------------------- MODULE FlightServer ----------------------------
(***************************************************************************)
(* server.c from the moment main enters server_loop: select over stdin,    *)
(* the listening socket and the agents; accept and answer one connection,  *)
(* then read one int from each agent select reported; on "Q" print the     *)
(* summary, close the agents, write the flight file and remove the IPC     *)
(* objects.  Calls that fail for want of resources are left out; the ones  *)
(* that fail because an agent has gone are not.                            *)
(***************************************************************************)
EXTENDS FlightState

serverOnly == <<ipcVars, agentVars, history>>   \* what a serving step leaves

ServerGoto(pc) == spc' = pc

(* SIGPIPE or a signal from outside: the kernel closes every descriptor    *)
(* and nothing of RESOURCE_CLEANUP runs.                                   *)
ServerDies ==
  /\ ServerGoto("killed")
  /\ srv' = Closed({a \in Agents : srv[a] \in {"queued", "open"}})
  /\ backlog' = <<>>

-----------------------------------------------------------------------------
(* server_loop *)

(* Someone types "Q" (or ^D), alone or, pasted or piped, right behind      *)
(* another line; stdin becomes readable.  What is typed behind a "Q" that  *)
(* fgets has in its buffer makes it readable again.                        *)
TypeQuit ==
  /\ stdin \in {"empty", "held"} /\ spc \in Serving
  /\ stdin' \in (IF stdin = "empty" THEN {"quit", "pair"} ELSE {"quit"})
  /\ UNCHANGED <<serverOnly, file, sockVars, spc, rset, master, nfds, agent_array, agentNum, cur, ret>>

(* select() looks at the descriptor: a line that fgets has already taken   *)
(* into its buffer does not count.                                         *)
Ready == {fd \in master : /\ fd < nfds
                          /\ \/ fd = Stdin /\ stdin \in {"quit", "pair"}
                             \/ fd = ListenFd /\ backlog # <<>>
                             \/ \E a \in Agents : srv[a] = "open" /\ sfd[a] = fd /\ Readable(a)}

(* FAULT: the listener is served without asking whether it is ready.       *)
SelectAccepts ==
  /\ spc = "select" /\ Ready # {}
  /\ rset' = Ready
  /\ stdin' = IF stdin = "pair" THEN "held" ELSE stdin
  /\ ServerGoto(IF stdin = "quit" THEN "summary" ELSE "accept")
  /\ UNCHANGED <<serverOnly, file, sockVars, master, nfds, agent_array, agentNum, cur, ret>>

(* select() looks at descriptors below nfds only and blocks while none is  *)
(* ready; stdin is served first, and "Q" ends the loop, then the listener. *)
Select ==
  /\ spc = "select" /\ Ready # {}
  /\ rset' = Ready
  /\ stdin' = IF Stdin \in Ready /\ stdin = "pair" THEN "held" ELSE stdin
  /\ ServerGoto(IF Stdin \in Ready /\ stdin = "quit" THEN "summary"
                ELSE IF ListenFd \in Ready THEN "accept" ELSE "messages")
  /\ UNCHANGED <<serverOnly, file, sockVars, master, nfds, agent_array, agentNum, cur, ret>>

-----------------------------------------------------------------------------
(* process_connection_request and send_ipc_info *)

(* accept() would block on an empty queue; it hands out the lowest free    *)
(* descriptor.                                                             *)
Accept ==
  /\ spc = "accept" /\ backlog # <<>> /\ FreeFds # {}
  /\ cur' = Head(backlog)
  /\ backlog' = Tail(backlog)
  /\ srv' = [srv EXCEPT ![Head(backlog)] = "open"]
  /\ sfd' = [sfd EXCEPT ![Head(backlog)] = Min(FreeFds)]
  /\ ServerGoto("readpid")
  /\ UNCHANGED <<serverOnly, file, pidState, toServer, reply, stdin, rset, master, nfds, agent_array, agentNum, ret>>

(* FAULT: nfds is not raised for the very next descriptor.                 *)
AdmitUnwatched(sock, pid) ==
  /\ agent_array' = agent_arr_insert(agent_array, sock, pid)
  /\ master' = master \cup {sock}
  /\ nfds' = IF sock > nfds THEN sock + 1 ELSE nfds
  /\ agentNum' = agentNum + 1

Admit(sock, pid) ==
  /\ agent_array' = agent_arr_insert(agent_array, sock, pid)
  /\ master' = master \cup {sock}
  /\ nfds' = IF sock >= nfds THEN sock + 1 ELSE nfds
  /\ agentNum' = agentNum + 1

(* The blocking read of the pid, and the decision whether to take the      *)
(* agent.  An agent that has ended without sending its pid gives           *)
(* END_INPUT, which is not negative: age_pid is used uninitialized, and    *)
(* may be what an earlier call left on the stack.                          *)
ReadPid ==
  /\ spc = "readpid"
  /\ pidState[cur] = "sent" \/ ClientGone(cur)
  /\ pidState' = [pidState EXCEPT ![cur] = "read"]
  /\ \E pid \in (IF pidState[cur] = "sent" THEN {cur} ELSE Pids) :
       IF agentNum < MaxAgents
       THEN Admit(sfd[cur], pid) /\ ServerGoto("sendipc")
       ELSE ServerGoto("sendfull") /\ UNCHANGED <<agent_array, master, nfds, agentNum>>
  /\ UNCHANGED <<serverOnly, file, backlog, srv, sfd, toServer, reply, stdin, rset, cur, ret>>

(* Three writes.  An agent that dies after the first or the second has the *)
(* next raise SIGPIPE, which AnswerKilled shows; nobody else can see them. *)
SendIpc ==
  /\ spc = "sendipc" /\ ~ClientGone(cur)
  /\ reply' = [reply EXCEPT ![cur] = "ipc"]
  /\ cur' = NoAgent
  /\ ServerGoto("messages")
  /\ UNCHANGED <<serverOnly, file, backlog, srv, sfd, pidState, toServer, stdin, rset, master, nfds, agent_array, agentNum, ret>>

SendFull ==
  /\ spc = "sendfull" /\ ~ClientGone(cur)
  /\ reply' = [reply EXCEPT ![cur] = "full"]
  /\ srv' = Closed({cur})
  /\ cur' = NoAgent
  /\ ServerGoto("messages")
  /\ UNCHANGED <<serverOnly, file, backlog, sfd, pidState, toServer, stdin, rset, master, nfds, agent_array, agentNum, ret>>

(* The agent being answered has ended: the write raises SIGPIPE.           *)
AnswerKilled ==
  /\ spc \in {"sendipc", "sendfull"} /\ ClientGone(cur)
  /\ ServerDies
  /\ cur' = NoAgent
  /\ UNCHANGED <<serverOnly, file, sfd, pidState, toServer, reply, stdin, rset, master, nfds, agent_array, agentNum, ret>>

-----------------------------------------------------------------------------
(* process_agent_messages: the descriptors select reported, in ascending   *)
(* order.  Its copy of nfds equals sel_nfo->nfds until the last of them,   *)
(* as only the removal of the largest one changes sel_nfo->nfds.           *)

Next2Read == rset \cap AgentFds

Reading(a) ==
  /\ spc = "messages" /\ Next2Read # {}
  /\ srv[a] = "open" /\ sfd[a] = Min(Next2Read)

ReadAmount(a) ==
  /\ Reading(a) /\ toServer[a] # <<>> /\ Head(toServer[a]) # BYE
  /\ agent_array' = [agent_array EXCEPT ![agent_arr_search(agent_array, sfd[a])].seats
                                          = @ + Head(toServer[a])]
  /\ toServer' = [toServer EXCEPT ![a] = Tail(@)]
  /\ rset' = rset \ {sfd[a]}
  /\ UNCHANGED <<serverOnly, file, backlog, srv, sfd, pidState, reply, spc, stdin, master, nfds, agentNum, cur, ret>>

(* FAULT: = for ==, every message is a BYE.                                *)
SaidAnything(a) == toServer[a] # <<>>

(* The agent said BYE, or its end is closed and everything it sent and     *)
(* was sent has been read.                                                 *)
SaidBye(a)   == toServer[a] # <<>> /\ Head(toServer[a]) = BYE
EndOfFile(a) == toServer[a] = <<>> /\ ClientGone(a) /\ reply[a] = "read"

(* FAULT: the select set is not brought up to date.                        *)
DismissWatched(sock) ==
  /\ agent_array' = agent_arr_remove(agent_array, sock)
  /\ agentNum' = agentNum - 1
  /\ nfds' = IF nfds = sock + 1 THEN search_new_nfds(agent_array', ListenFd) ELSE nfds
  /\ UNCHANGED master

Dismiss(sock) ==
  /\ agent_array' = agent_arr_remove(agent_array, sock)
  /\ agentNum' = agentNum - 1
  /\ master' = master \ {sock}
  /\ nfds' = IF nfds = sock + 1 THEN search_new_nfds(agent_array', ListenFd) ELSE nfds

Disconnect(a) ==
  /\ Reading(a) /\ (SaidBye(a) \/ EndOfFile(a))
  /\ toServer' = [toServer EXCEPT ![a] = IF SaidBye(a) THEN Tail(@) ELSE @]
  /\ srv' = Closed({a})
  /\ Dismiss(sfd[a])
  /\ rset' = rset \ {sfd[a]}
  /\ UNCHANGED <<serverOnly, file, backlog, sfd, pidState, reply, spc, stdin, cur, ret>>

(* The agent ended without reading its IPC identifiers: read() fails with  *)
(* ECONNRESET, and server_loop gives up.                                   *)
ReadFails(a) ==
  /\ Reading(a) /\ toServer[a] = <<>> /\ ClientGone(a) /\ reply[a] # "read"
  /\ ret' = -1
  /\ ServerGoto("clear")
  /\ UNCHANGED <<serverOnly, file, sockVars, stdin, rset, master, nfds, agent_array, agentNum, cur>>

NextRound ==
  /\ spc = "messages" /\ Next2Read = {}
  /\ rset' = {}
  /\ ServerGoto("select")
  /\ UNCHANGED <<serverOnly, file, sockVars, stdin, master, nfds, agent_array, agentNum, cur, ret>>

-----------------------------------------------------------------------------
(* print_active_agents, agent_arr_clear and the rest of main *)

(* FAULT: the agents stay connected while the file is written.             *)
PrintSummaryOnly ==
  /\ spc = "summary"
  /\ ServerGoto("truncate")
  /\ UNCHANGED <<serverOnly, file, sockVars, stdin, rset, master, nfds, agent_array, agentNum, cur, ret>>

PrintSummary ==
  /\ spc = "summary"
  /\ ServerGoto("clear")
  /\ UNCHANGED <<serverOnly, file, sockVars, stdin, rset, master, nfds, agent_array, agentNum, cur, ret>>

(* One close of agent_arr_clear.  The array is freed afterwards, so a slot *)
(* that has been dealt with is shown free.                                 *)
ClearSlot ==
  /\ spc = "clear" /\ Occupied(agent_array) # {}
  /\ LET k == Min(Occupied(agent_array)) IN
     /\ srv' = Closed({a \in Agents : srv[a] = "open" /\ sfd[a] = agent_array[k].socket})
     /\ agent_array' = [agent_array EXCEPT ![k].pid = NoPid]
  /\ UNCHANGED <<serverOnly, file, backlog, sfd, pidState, toServer, reply, spc, stdin, rset, master, nfds, agentNum, cur, ret>>

(* FAULT: server_loop ends as if it had failed.                            *)
FreeArrayFailed ==
  /\ spc = "clear" /\ Occupied(agent_array) = {}
  /\ ServerGoto("unlisten")
  /\ UNCHANGED <<serverOnly, file, sockVars, stdin, rset, master, nfds, agent_array, agentNum, cur, ret>>

FreeArray ==
  /\ spc = "clear" /\ Occupied(agent_array) = {}
  /\ ServerGoto(IF ret = 0 THEN "truncate" ELSE "unlisten")
  /\ UNCHANGED <<serverOnly, file, sockVars, stdin, rset, master, nfds, agent_array, agentNum, cur, ret>>

(* update_file, without the semaphore.  What a crash leaves of the file is *)
(* some prefix of what stdio had been given.                               *)
TruncateFile ==
  /\ spc = "truncate"
  /\ file' = <<>>
  /\ ServerGoto("write")
  /\ UNCHANGED <<serverOnly, sockVars, stdin, rset, master, nfds, agent_array, agentNum, cur, ret>>

WriteLine ==
  /\ spc = "write" /\ Len(file) < NumFlights
  /\ file' = Append(file, seats[Len(file) + 1])
  /\ UNCHANGED <<serverOnly, sockVars, serverVars>>

CloseFile ==
  /\ spc = "write" /\ Len(file) = NumFlights
  /\ ServerGoto("unlisten")
  /\ UNCHANGED <<serverOnly, file, sockVars, stdin, rset, master, nfds, agent_array, agentNum, cur, ret>>

(* Closing the listener resets the connections still queued on it.         *)
CloseListener ==
  /\ spc = "unlisten"
  /\ srv' = Closed({a \in Agents : srv[a] = "queued"})
  /\ backlog' = <<>>
  /\ ServerGoto("rmsem")
  /\ UNCHANGED <<serverOnly, file, sfd, pidState, toServer, reply, stdin, rset, master, nfds, agent_array, agentNum, cur, ret>>

RemoveSem ==
  /\ spc = "rmsem"
  /\ ipc' = "noSem"
  /\ ServerGoto("rmshm")
  /\ UNCHANGED <<seats, sem, holder, agentVars, history, file, sockVars, stdin, rset, master, nfds, agent_array, agentNum, cur, ret>>

RemoveShm ==
  /\ spc = "rmshm"
  /\ ipc' = "gone"
  /\ ServerGoto("done")
  /\ UNCHANGED <<seats, sem, holder, agentVars, history, file, sockVars, stdin, rset, master, nfds, agent_array, agentNum, cur, ret>>

ServerCrash ==
  /\ ServerMayCrash /\ spc \notin {"done", "killed"}
  /\ ServerDies
  /\ cur' = NoAgent
  /\ UNCHANGED <<serverOnly, file, sfd, pidState, toServer, reply, stdin, rset, master, nfds, agent_array, agentNum, ret>>

-----------------------------------------------------------------------------
ServerStep ==
  \/ Select \/ Accept \/ ReadPid \/ SendIpc \/ SendFull \/ AnswerKilled
  \/ \E a \in Agents : ReadAmount(a) \/ Disconnect(a) \/ ReadFails(a)
  \/ NextRound \/ PrintSummary \/ ClearSlot \/ FreeArray
  \/ TruncateFile \/ WriteLine \/ CloseFile
  \/ CloseListener \/ RemoveSem \/ RemoveShm

=============================================================================
