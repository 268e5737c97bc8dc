----------------------------- MODULE AgentArray -----------------------------
(***************************************************************************)
(* The server's table of agents (hw3/server.c, "AGENT ARRAY HANDLING"): a  *)
(* fixed array of agent_t slots in which pid = 0 marks a free slot.  Only  *)
(* the pid of a slot is reset when its agent leaves: socket and seats keep *)
(* their old values until the slot is reused.                              *)
(***************************************************************************)
EXTENDS Integers, FiniteSetsExt

CONSTANTS MaxAgents,   \* max_agents, the server's first argument
          NoPid        \* the pid of a free slot (0 in the code)

ASSUME MaxAgentsAssumption == MaxAgents \in Nat \ {0}

Slots == 0 .. MaxAgents - 1

Occupied(array) == {k \in Slots : array[k].pid # NoPid}

Holding(array, sock) == {k \in Occupied(array) : array[k].socket = sock}

(* malloc'ed, so socket and seats of a free slot hold anything; nothing    *)
(* reads them before an insertion sets them, and 0 stands for that value.  *)
agent_arr_init == [k \in Slots |-> [pid |-> NoPid, socket |-> 0, seats |-> 0]]

(* FAULT: a reused slot starts with its last owner's seats.                *)
insert_keeps_seats(array, sock, pid) ==
  LET free == Slots \ Occupied(array) IN
  IF free = {} THEN array
  ELSE [array EXCEPT ![Min(free)].pid = pid, ![Min(free)].socket = sock]

(* The first free slot takes the agent; a full array stays as it is.       *)
agent_arr_insert(array, sock, pid) ==
  LET free == Slots \ Occupied(array) IN
  IF free = {} THEN array
  ELSE [array EXCEPT ![Min(free)] = [pid |-> pid, socket |-> sock, seats |-> 0]]

(* The index of the occupied slot with this socket, or -1.                 *)
agent_arr_search(array, sock) ==
  IF Holding(array, sock) = {} THEN -1 ELSE Min(Holding(array, sock))

(* FAULT: the wrong field of the slot is reset.                            *)
remove_resets_socket(array, sock) ==
  [k \in Slots |-> IF k \in Holding(array, sock)
                   THEN [array[k] EXCEPT !.socket = -1] ELSE array[k]]

agent_arr_remove(array, sock) ==
  [k \in Slots |-> IF k \in Holding(array, sock)
                   THEN [array[k] EXCEPT !.pid = NoPid] ELSE array[k]]

(* FAULT: the largest descriptor instead of one more.                      *)
largest_fd(array, listenFd) ==
  Max({listenFd} \cup {array[k].socket : k \in Occupied(array)})

(* One more than the largest descriptor select() has to watch.             *)
search_new_nfds(array, listenFd) ==
  Max({listenFd} \cup {array[k].socket : k \in Occupied(array)}) + 1

=============================================================================
