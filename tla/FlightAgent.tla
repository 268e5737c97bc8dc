---------------------------- MODULE FlightAgent ----------------------------
(***************************************************************************)
(* agent.c: connect, exchange pid and IPC identifiers, then serve the      *)
(* user's commands, each FIND or RESERVE inside one semaphore section.     *)
(*                                                                         *)
(* SIGPIPE keeps its default action in both programs, so a write to a      *)
(* closed connection does not return -1: it kills the writer.              *)
(***************************************************************************)
EXTENDS FlightState

agentOnly == <<file, serverVars, history>>    \* what most agent steps leave

Goto(a, pc) == apc' = [apc EXCEPT ![a] = pc]

(* The read of one byte after select reported the socket.  The server      *)
(* sends nothing after the handshake, so it finds the connection closed:   *)
(* END_INPUT leaves the loop with 0, ECONNRESET with -1.                   *)
LeftLoop(a) == IF UnreadByServer(a) THEN "failed" ELSE "exited"

(* agent_sock_init: connect() queues the agent on the listening socket,    *)
(* blocks while the queue is full and fails once the listener is closed.   *)
Connect(a) ==
  /\ apc[a] = "start" /\ Listening /\ Len(backlog) <= MaxPending
  /\ backlog' = Append(backlog, a)
  /\ srv' = [srv EXCEPT ![a] = "queued"]
  /\ Goto(a, "sendpid")
  /\ UNCHANGED <<ipcVars, sfd, pidState, toServer, reply, cmd, sawSock, budget, agentOnly>>

ConnectRefused(a) ==
  /\ apc[a] = "start" /\ ~Listening
  /\ Goto(a, "failed")
  /\ UNCHANGED <<ipcVars, sockVars, cmd, sawSock, budget, agentOnly>>

SendPid(a) ==
  /\ apc[a] = "sendpid"
  /\ IF srv[a] = "closed"
     THEN Goto(a, "killed") /\ UNCHANGED pidState
     ELSE Goto(a, "handshake") /\ pidState' = [pidState EXCEPT ![a] = "sent"]
  /\ UNCHANGED <<ipcVars, backlog, srv, sfd, toServer, reply, cmd, sawSock, budget, agentOnly>>

(* The three ints of send_ipc_info, or the FULL that takes their place.    *)
ReadReply(a) ==
  /\ apc[a] = "handshake" /\ reply[a] \in {"ipc", "full"}
  /\ Goto(a, IF reply[a] = "ipc" THEN "attach" ELSE "failed")
  /\ reply' = [reply EXCEPT ![a] = "read"]
  /\ UNCHANGED <<ipcVars, backlog, srv, sfd, pidState, toServer, cmd, sawSock, budget, agentOnly>>

(* No answer is coming.  ECONNRESET ends the agent; END_INPUT is not       *)
(* negative, so the checks pass over identifiers nobody has written, and   *)
(* what shmat and semop then make of them is anybody's guess.              *)
ReadNoReply(a) ==
  /\ apc[a] = "handshake" /\ reply[a] = "none" /\ srv[a] = "closed"
  /\ \E pc \in (IF UnreadByServer(a) THEN {"failed"} ELSE Ended) : Goto(a, pc)
  /\ UNCHANGED <<ipcVars, sockVars, cmd, sawSock, budget, agentOnly>>

(* shmat: a segment marked for removal can still be attached while another *)
(* process has it.                                                         *)
Attach(a) ==
  /\ apc[a] = "attach"
  /\ Goto(a, IF ipc = "gone" /\ \A b \in Agents : apc[b] \notin Attached
             THEN "failed" ELSE "loop")
  /\ UNCHANGED <<ipcVars, sockVars, cmd, sawSock, budget, agentOnly>>

(* FAULT: FIND reads the table without sem_down.                           *)
CommandUnlocked(a) ==
  /\ apc[a] = "loop"
  /\ \E c \in Commands :
       /\ c.op # "exit" => budget[a] > 0
       /\ cmd' = [cmd EXCEPT ![a] = c]
       /\ budget' = [budget EXCEPT ![a] = IF c.op = "exit" THEN 0 ELSE @ - 1]
       /\ Goto(a, CASE c.op = "exit" -> "bye" [] c.op = "find" -> "check" [] OTHER -> "down")
  /\ sawSock' = IF srv[a] = "closed" THEN sawSock \cup {a} ELSE sawSock
  /\ UNCHANGED <<ipcVars, sockVars, agentOnly>>

(* A well-formed line on stdin.  A malformed one changes nothing and is    *)
(* left out; NUM is whatever atoi makes of it, its sign is not checked.    *)
Command(a) ==
  /\ apc[a] = "loop"
  /\ \E c \in Commands :
       /\ c.op # "exit" => budget[a] > 0
       /\ cmd' = [cmd EXCEPT ![a] = c]
       /\ budget' = [budget EXCEPT ![a] = IF c.op = "exit" THEN 0 ELSE @ - 1]
       /\ Goto(a, IF c.op = "exit" THEN "bye" ELSE "down")
  /\ sawSock' = IF srv[a] = "closed" THEN sawSock \cup {a} ELSE sawSock
  /\ UNCHANGED <<ipcVars, sockVars, agentOnly>>

(* select returns with nothing on stdin, because the server has closed.    *)
ServerGone(a) ==
  /\ apc[a] = "loop" /\ srv[a] = "closed"
  /\ Goto(a, LeftLoop(a))
  /\ UNCHANGED <<ipcVars, sockVars, cmd, sawSock, budget, agentOnly>>

(* FAULT: IPC_NOWAIT, and the result is not looked at.                     *)
DownNoWait(a) ==
  /\ apc[a] = "down" /\ ipc = "live"
  /\ sem' = IF sem > 0 THEN sem - 1 ELSE sem
  /\ holder' = a
  /\ Goto(a, "check")
  /\ UNCHANGED <<seats, ipc, sockVars, cmd, sawSock, budget, agentOnly>>

(* sem_down: blocks at 0; fails when the semaphore has been removed.       *)
Down(a) ==
  /\ apc[a] = "down" /\ ipc = "live" /\ sem > 0
  /\ sem' = sem - 1
  /\ holder' = a
  /\ Goto(a, "check")
  /\ UNCHANGED <<seats, ipc, sockVars, cmd, sawSock, budget, agentOnly>>

DownFails(a) ==
  /\ apc[a] = "down" /\ ipc # "live"
  /\ Goto(a, "failed")
  /\ UNCHANGED <<ipcVars, sockVars, cmd, sawSock, budget, agentOnly>>

(* FAULTS: any seat left will do; FIND leaves without sem_up.              *)
CheckSomeLeft(a) ==
  /\ apc[a] = "check"
  /\ LET c == cmd[a] IN
     Goto(a, IF c.op = "reserve" /\ c.flight \in Flights /\ seats[c.flight] > 0
             THEN "take" ELSE "up")
  /\ UNCHANGED <<ipcVars, sockVars, cmd, sawSock, budget, agentOnly>>

CheckFindKeepsLock(a) ==
  /\ apc[a] = "check"
  /\ LET c == cmd[a] IN
     Goto(a, CASE c.op = "find" -> "loop"
               [] c.flight \in Flights /\ seats[c.flight] >= c.num -> "take"
               [] OTHER -> "up")
  /\ UNCHANGED <<ipcVars, sockVars, cmd, sawSock, budget, agentOnly>>

(* The scan of the table.  Only a RESERVE of a flight that exists and has  *)
(* the seats goes on to take them.                                         *)
Check(a) ==
  /\ apc[a] = "check"
  /\ LET c == cmd[a] IN
     Goto(a, IF c.op = "reserve" /\ c.flight \in Flights /\ seats[c.flight] >= c.num
             THEN "take" ELSE "up")
  /\ UNCHANGED <<ipcVars, sockVars, cmd, sawSock, budget, agentOnly>>

Take(a) ==
  /\ apc[a] = "take"
  /\ seats' = [seats EXCEPT ![cmd[a].flight] = @ - cmd[a].num]
  /\ Goto(a, "report")
  /\ UNCHANGED <<sem, ipc, holder, sockVars, cmd, sawSock, budget, agentOnly>>

(* The write of the amount.  On a closed connection the agent dies of      *)
(* SIGPIPE before the sem_up of the error branch.                          *)
Report(a) ==
  /\ apc[a] = "report" /\ srv[a] = "open"
  /\ toServer' = [toServer EXCEPT ![a] = Append(@, cmd[a].num)]
  /\ sold' = [sold EXCEPT ![cmd[a].flight] = @ + cmd[a].num]
  /\ booked' = [booked EXCEPT ![a] = @ + cmd[a].num]
  /\ Goto(a, "confirm")
  /\ UNCHANGED <<ipcVars, file, backlog, srv, sfd, pidState, reply, cmd, sawSock, budget, serverVars, confirmed>>

(* FAULT: the write fails and nobody looks at its result.                  *)
ReportUnchecked(a) ==
  /\ apc[a] = "report" /\ srv[a] = "closed"
  /\ Goto(a, "confirm")
  /\ UNCHANGED <<ipcVars, sockVars, cmd, sawSock, budget, agentOnly>>

ReportKilled(a) ==
  /\ apc[a] = "report" /\ srv[a] = "closed"
  /\ Goto(a, "killed")
  /\ UNCHANGED <<ipcVars, sockVars, cmd, sawSock, budget, agentOnly>>

(* [SUCCESS].  The server may have read the amount, closed the connection  *)
(* and written the file since.                                             *)
Confirm(a) ==
  /\ apc[a] = "confirm"
  /\ confirmed' = [confirmed EXCEPT ![cmd[a].flight] = @ + cmd[a].num]
  /\ Goto(a, "up")
  /\ UNCHANGED <<ipcVars, file, sockVars, cmd, sawSock, budget, serverVars, sold, booked>>

(* sem_up and, back in agent_loop, the socket if select had reported it.   *)
Up(a) ==
  /\ apc[a] = "up" /\ ipc = "live"
  /\ sem' = sem + 1
  /\ holder' = NoAgent
  /\ Goto(a, IF a \in sawSock THEN LeftLoop(a) ELSE "loop")
  /\ UNCHANGED <<seats, ipc, sockVars, cmd, sawSock, budget, agentOnly>>

UpFails(a) ==
  /\ apc[a] = "up" /\ ipc # "live"
  /\ Goto(a, "failed")
  /\ UNCHANGED <<ipcVars, sockVars, cmd, sawSock, budget, agentOnly>>

(* EXIT: send BYE, leave the loop, detach and close.                       *)
Bye(a) ==
  /\ apc[a] = "bye"
  /\ IF srv[a] = "closed"
     THEN Goto(a, "killed") /\ UNCHANGED toServer
     ELSE Goto(a, "exited") /\ toServer' = [toServer EXCEPT ![a] = Append(@, BYE)]
  /\ UNCHANGED <<ipcVars, backlog, srv, sfd, pidState, reply, cmd, sawSock, budget, agentOnly>>

(* A signal from outside; the semaphore has no SEM_UNDO.                   *)
Crash(a) ==
  /\ a \in Crashes /\ apc[a] \in Running
  /\ Goto(a, "killed")
  /\ UNCHANGED <<ipcVars, sockVars, cmd, sawSock, budget, agentOnly>>

-----------------------------------------------------------------------------
(* What an agent does by itself, once scheduled ...                        *)
AgentStep(a) ==
  \/ SendPid(a) \/ ReadReply(a) \/ ReadNoReply(a) \/ Attach(a) \/ ServerGone(a)
  \/ Down(a) \/ DownFails(a) \/ Check(a) \/ Take(a)
  \/ Report(a) \/ ReportKilled(a) \/ Confirm(a) \/ Up(a) \/ UpFails(a) \/ Bye(a)

(* ... and what its user may or may not make it do.                        *)
UserStep(a) == Connect(a) \/ ConnectRefused(a) \/ Command(a) \/ Crash(a)

=============================================================================
