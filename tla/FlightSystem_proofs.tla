------------------------- MODULE FlightSystem_proofs -------------------------
(***************************************************************************)
(* Theorems about FlightSystem for any agents, flights, table size and     *)
(* number of commands, with or without crashes.                            *)
(***************************************************************************)
EXTENDS FlightSystem, LeastElement, FiniteSetTheorems, TLAPS

-----------------------------------------------------------------------------
(* Facts about the operators FlightSystem is built from: least and         *)
(* greatest elements, the fields of a command, and what the agent array    *)
(* operations return and do to who is in the table.                        *)

(* Max is what its name says on bounded sets.                              *)
LEMMA MaxOfInterval ==
  ASSUME NEW n \in Nat, NEW S \in SUBSET (0 .. n), S # {}
  PROVE  Max(S) \in S /\ \A x \in S : x <= Max(S)
<1> DEFINE R == {n - x : x \in S}
<1>1. R \in SUBSET Nat /\ R # {}
  <2>1. ASSUME NEW x \in S PROVE n - x \in Nat
    OBVIOUS
  <2>2. R # {}
    OBVIOUS
  <2> QED BY <2>1, <2>2
<1>2. PICK y \in R : \A z \in R : y <= z
  <2> HIDE DEF R
  <2> QED BY <1>1, Least
<1>3. PICK x \in S : y = n - x
  OBVIOUS
<1>4. ASSUME NEW z \in S PROVE z <= x
  <2>1. n - z \in R
    OBVIOUS
  <2>2. n - x <= n - z
    BY <1>2, <1>3, <2>1
  <2> QED BY <2>2
<1> QED BY <1>4 DEF Max

-----------------------------------------------------------------------------
(* What a user can type.                                                   *)
LEMMA CommandFields ==
  ASSUME NEW c \in Commands
  PROVE  /\ c.op \in {"find", "reserve", "exit"}
         /\ c.flight \in Flights \cup {NoFlight}
         /\ c.num \in Int
<1>1. CASE c \in [op : {"reserve"}, flight : Flights \cup {NoFlight}, num : Amounts]
  BY <1>1, ConstantsAssumption
<1>2. CASE c = [op |-> "find", flight |-> NoFlight, num |-> 0]
  BY <1>2
<1>3. CASE c = [op |-> "exit", flight |-> NoFlight, num |-> 0]
  BY <1>3
<1> QED BY <1>1, <1>2, <1>3 DEF Commands

(* The descriptors are natural numbers with a known bound.                 *)
LEMMA FdsAreNat ==
  /\ AgentFds \subseteq Nat
  /\ AgentFds \cup {0, ListenFd} \subseteq 0 .. ListenFd + 1 + MaxAgents
  /\ ListenFd + 1 + MaxAgents \in Nat
  BY MaxAgentsAssumption DEF AgentFds, ListenFd

SlotRecords == [pid : Pids, socket : AgentFds \cup {0}, seats : Int]
Arrays == [Slots -> SlotRecords]

(* The three operations of the agent array return agent arrays, and adding *)
(* to the seats of a slot does too, even if agent_arr_search returned -1.  *)
LEMMA InsertType ==
  ASSUME NEW array \in Arrays, NEW sock \in AgentFds \cup {0}, NEW pid \in Pids
  PROVE  agent_arr_insert(array, sock, pid) \in Arrays
<1> DEFINE free == Slots \ Occupied(array)
           new == [pid |-> pid, socket |-> sock, seats |-> 0]
<1>1. new \in SlotRecords
  BY DEF SlotRecords
<1>2. free # {} => Min(free) \in Slots
  BY MinOfNat, MaxAgentsAssumption DEF Slots
<1>3. free # {} => [array EXCEPT ![Min(free)] = new] \in Arrays
  BY <1>1, <1>2 DEF Arrays
<1> QED BY <1>3 DEF agent_arr_insert

LEMMA RemoveType ==
  ASSUME NEW array \in Arrays, NEW sock
  PROVE  agent_arr_remove(array, sock) \in Arrays
<1>1. ASSUME NEW k \in Slots PROVE [array[k] EXCEPT !.pid = NoPid] \in SlotRecords
  BY DEF Arrays, SlotRecords, Pids
<1> QED BY <1>1 DEF agent_arr_remove, Arrays

LEMMA FreeSlotType ==
  ASSUME NEW array \in Arrays, NEW k \in Slots
  PROVE  [array EXCEPT ![k].pid = NoPid] \in Arrays
  BY DEF Arrays, SlotRecords, Pids

LEMMA AddSeatsType ==
  ASSUME NEW array \in Arrays, NEW i, NEW n \in Int
  PROVE  [array EXCEPT ![i].seats = @ + n] \in Arrays
<1>1. CASE i \in Slots
  BY <1>1 DEF Arrays, SlotRecords
<1>2. CASE i \notin Slots
  <2>1. \A k \in Slots : [array EXCEPT ![i].seats = @ + n][k] = array[k]
    BY <1>2 DEF Arrays
  <2>2. [array EXCEPT ![i].seats = @ + n] = [k \in Slots |-> array[k]]
    BY <1>2, <2>1 DEF Arrays
  <2> QED BY <2>2 DEF Arrays
<1> QED BY <1>1, <1>2

LEMMA NfdsType ==
  ASSUME NEW array \in Arrays
  PROVE  search_new_nfds(array, ListenFd) \in Int
<1> DEFINE S == {ListenFd} \cup {array[k].socket : k \in Occupied(array)}
<1>1. S \subseteq AgentFds \cup {0, ListenFd}
  BY DEF Arrays, SlotRecords, Occupied
<1>2. Max(S) \in Int
  <2>1. S \in SUBSET (0 .. ListenFd + 1 + MaxAgents) /\ S # {}
    BY <1>1, FdsAreNat
  <2> DEFINE n == ListenFd + 1 + MaxAgents
  <2>2. n \in Nat
    BY FdsAreNat
  <2> HIDE DEF S, n
  <2>3. S \in SUBSET (0 .. n)
    BY <2>1 DEF n
  <2>4. Max(S) \in S
    BY <2>1, <2>2, <2>3, MaxOfInterval
  <2>5. \A x \in S : x \in Int
    BY <2>2, <2>3
  <2> QED BY <2>4, <2>5
<1> QED BY <1>2 DEF search_new_nfds

(* Closing server ends.                                                    *)
LEMMA ClosedType ==
  ASSUME SockTypeOK, NEW S
  PROVE  Closed(S) \in [Agents -> {"none", "queued", "open", "closed"}]
  BY DEF SockTypeOK, Closed

-----------------------------------------------------------------------------
(* Who is in the table: the sockets of the occupied slots.                 *)
SocketsOf(array) == {array[k].socket : k \in Occupied(array)}

OneSlotEach(array) ==
  \A j, k \in Occupied(array) : array[j].socket = array[k].socket => j = k

LEMMA SlotsFinite == IsFiniteSet(Slots) /\ Cardinality(Slots) = MaxAgents
  BY FS_Interval, MaxAgentsAssumption DEF Slots

LEMMA OccupiedFinite ==
  ASSUME NEW array
  PROVE  IsFiniteSet(Occupied(array)) /\ Cardinality(Occupied(array)) \in Nat
<1>1. Occupied(array) \subseteq Slots
  BY DEF Occupied
<1> QED BY <1>1, SlotsFinite, FS_Subset, FS_CardinalityType

(* A new agent gets a free slot, and only that slot changes.               *)
LEMMA InsertOccupied ==
  ASSUME NEW array \in Arrays, NEW sock \in AgentFds, NEW pid \in Pids \ {NoPid},
         OneSlotEach(array), sock \notin SocketsOf(array),
         Cardinality(Occupied(array)) < MaxAgents
  PROVE  LET new == agent_arr_insert(array, sock, pid) IN
         /\ OneSlotEach(new)
         /\ SocketsOf(new) = SocketsOf(array) \cup {sock}
         /\ Cardinality(Occupied(new)) = Cardinality(Occupied(array)) + 1
<1> DEFINE free == Slots \ Occupied(array)
           rec == [pid |-> pid, socket |-> sock, seats |-> 0]
           k == Min(free)
           new == agent_arr_insert(array, sock, pid)
<1>1. free # {}
  <2>1. SUFFICES ASSUME free = {} PROVE FALSE
    OBVIOUS
  <2>2. Occupied(array) = Slots
    BY <2>1 DEF Occupied
  <2> QED BY <2>2, SlotsFinite, MaxAgentsAssumption
<1>2. k \in Slots /\ k \notin Occupied(array)
  BY <1>1, MinOfNat, MaxAgentsAssumption DEF Slots
<1>3. new = [array EXCEPT ![k] = rec]
  BY <1>1 DEF agent_arr_insert
<1> HIDE DEF k
<1>4. \A j \in Slots : new[j] = IF j = k THEN rec ELSE array[j]
  BY <1>2, <1>3 DEF Arrays
<1> HIDE DEF new, free
<1>5. Occupied(new) = Occupied(array) \cup {k}
  BY <1>2, <1>4 DEF Occupied
<1>6. \A j \in Occupied(array) : new[j] = array[j]
  BY <1>2, <1>4 DEF Occupied
<1>7. new[k].socket = sock
  BY <1>2, <1>4
<1>8. OneSlotEach(new)
  BY <1>5, <1>6, <1>7 DEF OneSlotEach, SocketsOf
<1>9. SocketsOf(new) = SocketsOf(array) \cup {sock}
  BY <1>5, <1>6, <1>7 DEF SocketsOf
<1>10. Cardinality(Occupied(new)) = Cardinality(Occupied(array)) + 1
  BY <1>2, <1>5, OccupiedFinite, FS_AddElement
<1> QED BY <1>8, <1>9, <1>10 DEF new

(* Freeing one slot of a table with a slot each.                           *)
LEMMA FreeOccupied ==
  ASSUME NEW array \in Arrays, NEW new \in Arrays, OneSlotEach(array),
         NEW k \in Occupied(array), new[k].pid = NoPid,
         \A j \in Slots \ {k} : new[j] = array[j]
  PROVE  /\ OneSlotEach(new)
         /\ SocketsOf(new) = SocketsOf(array) \ {array[k].socket}
         /\ Cardinality(Occupied(new)) = Cardinality(Occupied(array)) - 1
<1>1. Occupied(new) = Occupied(array) \ {k}
  BY DEF Occupied
<1>2. \A j \in Occupied(new) : new[j] = array[j]
  BY <1>1 DEF Occupied
<1>3. OneSlotEach(new)
  BY <1>1, <1>2 DEF OneSlotEach
<1>4. SocketsOf(new) = SocketsOf(array) \ {array[k].socket}
  BY <1>1, <1>2 DEF OneSlotEach, SocketsOf
<1>5. Cardinality(Occupied(new)) = Cardinality(Occupied(array)) - 1
  BY <1>1, OccupiedFinite, FS_RemoveElement
<1> QED BY <1>3, <1>4, <1>5

(* agent_arr_remove frees the slot of the socket it is given.              *)
LEMMA RemoveOccupied ==
  ASSUME NEW array \in Arrays, OneSlotEach(array), NEW sock \in SocketsOf(array)
  PROVE  LET new == agent_arr_remove(array, sock) IN
         /\ OneSlotEach(new)
         /\ SocketsOf(new) = SocketsOf(array) \ {sock}
         /\ Cardinality(Occupied(new)) = Cardinality(Occupied(array)) - 1
<1> DEFINE new == agent_arr_remove(array, sock)
<1>1. PICK k \in Occupied(array) : array[k].socket = sock
  BY DEF SocketsOf
<1>2. Holding(array, sock) = {k}
  BY <1>1 DEF Holding, OneSlotEach
<1>3. new \in Arrays
  BY RemoveType
<1>4. k \in Slots /\ array[k] \in SlotRecords
  BY DEF Occupied, Arrays
<1>5. new[k].pid = NoPid
  BY <1>2, <1>4 DEF agent_arr_remove, SlotRecords
<1>6. \A j \in Slots \ {k} : new[j] = array[j]
  BY <1>2 DEF agent_arr_remove
<1> HIDE DEF new
<1>7. /\ OneSlotEach(new)
      /\ SocketsOf(new) = SocketsOf(array) \ {sock}
      /\ Cardinality(Occupied(new)) = Cardinality(Occupied(array)) - 1
  BY <1>1, <1>3, <1>5, <1>6, FreeOccupied
<1> QED BY <1>7 DEF new

(* So does agent_arr_clear with the slot it has come to.                   *)
LEMMA ClearOccupied ==
  ASSUME NEW array \in Arrays, OneSlotEach(array), NEW k \in Occupied(array)
  PROVE  LET new == [array EXCEPT ![k].pid = NoPid] IN
         /\ OneSlotEach(new)
         /\ SocketsOf(new) = SocketsOf(array) \ {array[k].socket}
<1> DEFINE new == [array EXCEPT ![k].pid = NoPid]
<1>1. k \in Slots /\ array[k] \in SlotRecords
  BY DEF Occupied, Arrays
<1>2. new \in Arrays
  BY <1>1, FreeSlotType
<1>3. new[k].pid = NoPid
  BY <1>1 DEF Arrays, SlotRecords
<1>4. \A j \in Slots \ {k} : new[j] = array[j]
  BY DEF Arrays
<1> HIDE DEF new
<1>5. OneSlotEach(new) /\ SocketsOf(new) = SocketsOf(array) \ {array[k].socket}
  BY <1>2, <1>3, <1>4, FreeOccupied
<1> QED BY <1>5 DEF new

(* Counting seats changes neither who is in the table nor where.           *)
LEMMA AddSeatsOccupied ==
  ASSUME NEW array \in Arrays, NEW i, NEW n
  PROVE  LET new == [array EXCEPT ![i].seats = @ + n] IN
         /\ Occupied(new) = Occupied(array)
         /\ SocketsOf(new) = SocketsOf(array)
         /\ OneSlotEach(array) => OneSlotEach(new)
<1> DEFINE new == [array EXCEPT ![i].seats = @ + n]
<1>1. \A k \in Slots : new[k].pid = array[k].pid /\ new[k].socket = array[k].socket
  BY DEF Arrays, SlotRecords
<1> HIDE DEF new
<1>2. Occupied(new) = Occupied(array)
  BY <1>1 DEF Occupied
<1>3. \A k \in Occupied(array) : new[k].socket = array[k].socket
  BY <1>1 DEF Occupied
<1>4. SocketsOf(new) = SocketsOf(array) /\ (OneSlotEach(array) => OneSlotEach(new))
  BY <1>2, <1>3 DEF SocketsOf, OneSlotEach
<1> QED BY <1>2, <1>4 DEF new

(* With a slot each, there are as many sockets as occupied slots.          *)
LEMMA CountSockets ==
  ASSUME NEW array \in Arrays, OneSlotEach(array)
  PROVE  Cardinality(SocketsOf(array)) = Cardinality(Occupied(array))
<1> DEFINE f == [k \in Occupied(array) |-> array[k].socket]
<1>1. f \in Bijection(Occupied(array), SocketsOf(array))
  BY DEF OneSlotEach, SocketsOf, Bijection, Injection, Surjection, IsInjective
<1> QED BY <1>1, OccupiedFinite, FS_Bijection DEF ExistsBijection

(* search_new_nfds is above everything select() has to watch.              *)
LEMMA NfdsAbove ==
  ASSUME NEW array \in Arrays, NEW fd \in {Stdin, ListenFd} \cup SocketsOf(array)
  PROVE  fd < search_new_nfds(array, ListenFd)
<1> DEFINE S == {ListenFd} \cup {array[k].socket : k \in Occupied(array)}
           n == ListenFd + 1 + MaxAgents
<1>1. S \subseteq AgentFds \cup {0, ListenFd}
  BY DEF Arrays, SlotRecords, Occupied
<1>2. n \in Nat /\ S \in SUBSET (0 .. n) /\ S # {}
  BY <1>1, FdsAreNat
<1>3. fd = Stdin \/ fd \in S
  BY DEF SocketsOf
<1> HIDE DEF S, n
<1>4. Max(S) \in S /\ \A x \in S : x <= Max(S)
  BY <1>2, MaxOfInterval
<1>5. fd <= Max(S) /\ Max(S) \in Int /\ fd \in Int
  <2>1. \A x \in S : x \in Nat
    BY <1>2
  <2>2. Max(S) \in Nat
    BY <1>4, <2>1
  <2> QED BY <1>3, <1>4, <2>1, <2>2 DEF Stdin
<1>6. search_new_nfds(array, ListenFd) = Max(S) + 1
  BY DEF search_new_nfds, S
<1> QED BY <1>5, <1>6

-----------------------------------------------------------------------------
(* The groups of unchanged variables are expanded everywhere; the types    *)
(* are expanded where they are used.                                       *)
USE DEF serverOnly, agentOnly, ipcVars, sockVars, agentVars, serverVars, history,
        Goto, ServerGoto, AgentPc, ServerPc, Running, Attached, Ended, Critical,
        Serving, Answering, Closing, Unlinked

(* The type invariant needs two facts about the control flow: the server   *)
(* is answering somebody when it answers, and only a reservation of an     *)
(* existing flight gets past the check.                                    *)
ControlOK ==
  /\ spc \in Answering => cur \in Agents
  /\ \A a \in Agents : apc[a] \in {"take", "report", "confirm"} => cmd[a].flight \in Flights

TypeInv == TypeOK /\ ControlOK

LEMMA TypeInit == Init => TypeInv
<1> SUFFICES ASSUME Init PROVE TypeInv
  OBVIOUS
<1> USE DEF Init
<1>1. IpcTypeOK
  BY ConstantsAssumption DEF IpcTypeOK, Flights
<1>2. SockTypeOK
  BY DEF SockTypeOK
<1>3. AgentTypeOK
  BY ConstantsAssumption DEF AgentTypeOK, Commands
<1>4. ServerTypeOK
  BY DEF ServerTypeOK, agent_arr_init, Pids, Descriptors, ListenFd
<1>5. HistoryTypeOK
  BY DEF HistoryTypeOK
<1>6. ControlOK
  BY DEF ControlOK
<1> QED BY <1>1, <1>2, <1>3, <1>4, <1>5, <1>6 DEF TypeInv, TypeOK

-----------------------------------------------------------------------------
(* Actions that touch more than one part of the state: each part has a     *)
(* step of its own.                                                        *)
LEMMA SendPidType == ASSUME TypeInv, NEW a \in Agents, SendPid(a) PROVE TypeInv'
<1> USE DEF SendPid, TypeInv, TypeOK
<1>1. IpcTypeOK' /\ ServerTypeOK' /\ HistoryTypeOK'
  BY DEF IpcTypeOK, ServerTypeOK, HistoryTypeOK
<1>2. SockTypeOK'
  BY DEF SockTypeOK
<1>3. AgentTypeOK' /\ ControlOK'
  BY DEF AgentTypeOK, ControlOK
<1> QED BY <1>1, <1>2, <1>3

LEMMA ReadReplyType == ASSUME TypeInv, NEW a \in Agents, ReadReply(a) PROVE TypeInv'
<1> USE DEF ReadReply, TypeInv, TypeOK
<1>1. IpcTypeOK' /\ ServerTypeOK' /\ HistoryTypeOK'
  BY DEF IpcTypeOK, ServerTypeOK, HistoryTypeOK
<1>2. SockTypeOK'
  BY DEF SockTypeOK
<1>3. AgentTypeOK' /\ ControlOK'
  BY DEF AgentTypeOK, ControlOK
<1> QED BY <1>1, <1>2, <1>3

LEMMA DownType == ASSUME TypeInv, NEW a \in Agents, Down(a) PROVE TypeInv'
<1> USE DEF Down, TypeInv, TypeOK
<1>1. IpcTypeOK' /\ SockTypeOK' /\ ServerTypeOK' /\ HistoryTypeOK'
  BY DEF IpcTypeOK, SockTypeOK, ServerTypeOK, HistoryTypeOK
<1>2. AgentTypeOK' /\ ControlOK'
  BY DEF AgentTypeOK, ControlOK
<1> QED BY <1>1, <1>2

LEMMA TakeType == ASSUME TypeInv, NEW a \in Agents, Take(a) PROVE TypeInv'
<1> USE DEF Take, TypeInv, TypeOK
<1>1. IpcTypeOK'
  BY CommandFields DEF IpcTypeOK, AgentTypeOK, ControlOK
<1>2. SockTypeOK' /\ ServerTypeOK' /\ HistoryTypeOK'
  BY DEF SockTypeOK, ServerTypeOK, HistoryTypeOK
<1>3. AgentTypeOK' /\ ControlOK'
  BY DEF AgentTypeOK, ControlOK
<1> QED BY <1>1, <1>2, <1>3

LEMMA ReportType == ASSUME TypeInv, NEW a \in Agents, Report(a) PROVE TypeInv'
<1> USE DEF Report, TypeInv, TypeOK
<1>1. IpcTypeOK' /\ ServerTypeOK'
  BY DEF IpcTypeOK, ServerTypeOK
<1>2. SockTypeOK'
  BY CommandFields DEF SockTypeOK, AgentTypeOK
<1>3. HistoryTypeOK'
  BY CommandFields DEF HistoryTypeOK, AgentTypeOK, ControlOK
<1>4. AgentTypeOK' /\ ControlOK'
  BY DEF AgentTypeOK, ControlOK
<1> QED BY <1>1, <1>2, <1>3, <1>4

LEMMA ConfirmType == ASSUME TypeInv, NEW a \in Agents, Confirm(a) PROVE TypeInv'
<1> USE DEF Confirm, TypeInv, TypeOK
<1>1. IpcTypeOK' /\ SockTypeOK' /\ ServerTypeOK'
  BY DEF IpcTypeOK, SockTypeOK, ServerTypeOK
<1>2. HistoryTypeOK'
  BY CommandFields DEF HistoryTypeOK, AgentTypeOK, ControlOK
<1>3. AgentTypeOK' /\ ControlOK'
  BY DEF AgentTypeOK, ControlOK
<1> QED BY <1>1, <1>2, <1>3

LEMMA UpType == ASSUME TypeInv, NEW a \in Agents, Up(a) PROVE TypeInv'
<1> USE DEF Up, TypeInv, TypeOK
<1>1. IpcTypeOK' /\ SockTypeOK' /\ ServerTypeOK' /\ HistoryTypeOK'
  BY DEF IpcTypeOK, SockTypeOK, ServerTypeOK, HistoryTypeOK
<1>2. AgentTypeOK' /\ ControlOK'
  BY DEF AgentTypeOK, ControlOK, LeftLoop
<1> QED BY <1>1, <1>2

LEMMA ByeType == ASSUME TypeInv, NEW a \in Agents, Bye(a) PROVE TypeInv'
<1> USE DEF Bye, TypeInv, TypeOK
<1>1. IpcTypeOK' /\ ServerTypeOK' /\ HistoryTypeOK'
  BY DEF IpcTypeOK, ServerTypeOK, HistoryTypeOK
<1>2. SockTypeOK'
  <2>1. BYE \in Int
    BY DEF BYE
  <2>2. Append(toServer[a], BYE) \in Seq(Int)
    BY <2>1 DEF SockTypeOK
  <2>3. toServer' \in [Agents -> Seq(Int)]
    <3>1. CASE srv[a] = "closed"
      BY <3>1 DEF SockTypeOK
    <3>2. CASE srv[a] # "closed"
      BY <2>2, <3>2 DEF SockTypeOK
    <3> QED BY <3>1, <3>2
  <2> QED BY <2>3 DEF SockTypeOK
<1>3. AgentTypeOK' /\ ControlOK'
  BY DEF AgentTypeOK, ControlOK
<1> QED BY <1>1, <1>2, <1>3

LEMMA ConnectType == ASSUME TypeInv, NEW a \in Agents, Connect(a) PROVE TypeInv'
<1> USE DEF Connect, TypeInv, TypeOK
<1>1. IpcTypeOK' /\ ServerTypeOK' /\ HistoryTypeOK'
  BY DEF IpcTypeOK, ServerTypeOK, HistoryTypeOK
<1>2. SockTypeOK'
  BY DEF SockTypeOK
<1>3. AgentTypeOK' /\ ControlOK'
  BY DEF AgentTypeOK, ControlOK
<1> QED BY <1>1, <1>2, <1>3

LEMMA CommandType == ASSUME TypeInv, NEW a \in Agents, Command(a) PROVE TypeInv'
<1> USE DEF Command, TypeInv, TypeOK
<1>1. IpcTypeOK' /\ SockTypeOK' /\ ServerTypeOK' /\ HistoryTypeOK'
  BY DEF IpcTypeOK, SockTypeOK, ServerTypeOK, HistoryTypeOK
<1>2. AgentTypeOK' /\ ControlOK'
  BY CommandFields DEF AgentTypeOK, ControlOK
<1> QED BY <1>1, <1>2

LEMMA ReadAmountType == ASSUME TypeInv, NEW a \in Agents, ReadAmount(a) PROVE TypeInv'
<1> USE DEF ReadAmount, TypeInv, TypeOK
<1>1. IpcTypeOK' /\ AgentTypeOK' /\ HistoryTypeOK' /\ ControlOK'
  BY DEF IpcTypeOK, AgentTypeOK, HistoryTypeOK, ControlOK
<1>2. SockTypeOK'
  BY DEF SockTypeOK
<1>3. ServerTypeOK'
  <2>1. Head(toServer[a]) \in Int
    BY DEF SockTypeOK
  <2>2. agent_array \in Arrays
    BY DEF ServerTypeOK, Arrays, SlotRecords
  <2>3. agent_array' \in Arrays
    BY <2>1, <2>2, AddSeatsType
  <2> QED BY <2>3 DEF ServerTypeOK, Arrays, SlotRecords
<1> QED BY <1>1, <1>2, <1>3

LEMMA DisconnectType == ASSUME TypeInv, NEW a \in Agents, Disconnect(a) PROVE TypeInv'
<1> USE DEF Disconnect, Dismiss, TypeInv, TypeOK
<1>1. IpcTypeOK' /\ AgentTypeOK' /\ HistoryTypeOK' /\ ControlOK'
  BY DEF IpcTypeOK, AgentTypeOK, HistoryTypeOK, ControlOK
<1>2. SockTypeOK'
  BY ClosedType DEF SockTypeOK, SaidBye
<1>3. ServerTypeOK'
  BY RemoveType, NfdsType DEF ServerTypeOK, Arrays, SlotRecords
<1> QED BY <1>1, <1>2, <1>3

LEMMA AcceptType == ASSUME TypeInv, Accept PROVE TypeInv'
<1> USE DEF Accept, TypeInv, TypeOK
<1>1. IpcTypeOK' /\ AgentTypeOK' /\ HistoryTypeOK'
  BY DEF IpcTypeOK, AgentTypeOK, HistoryTypeOK
<1>2. SockTypeOK'
  <2>1. Min(FreeFds) \in AgentFds
    <3>1. FreeFds \subseteq AgentFds
      BY DEF FreeFds
    <3> QED BY <3>1, FdsAreNat, MinOfNat
  <2>2. Head(backlog) \in Agents /\ Tail(backlog) \in Seq(Agents)
    BY DEF SockTypeOK
  <2> QED BY <2>1, <2>2 DEF SockTypeOK
<1>3. ServerTypeOK' /\ ControlOK'
  BY DEF ServerTypeOK, ControlOK, AgentTypeOK, SockTypeOK
<1> QED BY <1>1, <1>2, <1>3

LEMMA ReadPidType == ASSUME TypeInv, ReadPid PROVE TypeInv'
<1> USE DEF ReadPid, TypeInv, TypeOK
<1>1. IpcTypeOK' /\ AgentTypeOK' /\ HistoryTypeOK'
  BY DEF IpcTypeOK, AgentTypeOK, HistoryTypeOK
<1>2. SockTypeOK'
  BY DEF SockTypeOK
<1>3. ControlOK'
  <2>1. cur \in Agents
    BY DEF ControlOK
  <2> QED BY <2>1 DEF ControlOK
<1>4. ServerTypeOK'
  <2>1. cur \in Agents /\ sfd[cur] \in AgentFds \cup {0}
    BY DEF ControlOK, SockTypeOK
  <2>2. PICK pid \in Pids :
          IF agentNum < MaxAgents
          THEN Admit(sfd[cur], pid) /\ ServerGoto("sendipc")
          ELSE ServerGoto("sendfull") /\ UNCHANGED <<agent_array, master, nfds, agentNum>>
    BY <2>1 DEF Pids
  <2>3. CASE agentNum < MaxAgents
    <3>1. agent_array \in Arrays
      BY DEF ServerTypeOK, Arrays, SlotRecords
    <3>2. agent_array' \in Arrays
      BY <2>1, <2>2, <2>3, <3>1, InsertType DEF Admit
    <3>3. sfd[cur] \in Int
      BY <2>1, FdsAreNat
    <3>4. master' \subseteq Descriptors
      BY <2>1, <2>2, <2>3 DEF Admit, ServerTypeOK, Descriptors, Stdin
    <3>5. nfds' \in Int /\ agentNum' \in Int
      BY <2>1, <2>2, <2>3, <3>3 DEF Admit, ServerTypeOK
    <3>6. spc' = "sendipc"
      BY <2>2, <2>3
    <3> QED BY <3>2, <3>4, <3>5, <3>6 DEF ServerTypeOK, Arrays, SlotRecords
  <2>4. CASE ~(agentNum < MaxAgents)
    BY <2>2, <2>4 DEF ServerTypeOK
  <2> QED BY <2>3, <2>4
<1> QED BY <1>1, <1>2, <1>3, <1>4

LEMMA AnswerKilledType == ASSUME TypeInv, AnswerKilled PROVE TypeInv'
<1> USE DEF AnswerKilled, TypeInv, TypeOK
<1>1. IpcTypeOK' /\ AgentTypeOK' /\ HistoryTypeOK'
  BY DEF IpcTypeOK, AgentTypeOK, HistoryTypeOK, ServerDies
<1>2. SockTypeOK'
  BY ClosedType DEF SockTypeOK, ServerDies
<1>3. ServerTypeOK' /\ ControlOK'
  BY DEF ServerTypeOK, ControlOK, AgentTypeOK, ServerDies
<1> QED BY <1>1, <1>2, <1>3

LEMMA ClearSlotType == ASSUME TypeInv, ClearSlot PROVE TypeInv'
<1> USE DEF ClearSlot, TypeInv, TypeOK
<1>1. IpcTypeOK' /\ AgentTypeOK' /\ HistoryTypeOK' /\ ControlOK'
  BY DEF IpcTypeOK, AgentTypeOK, HistoryTypeOK, ControlOK
<1>2. SockTypeOK'
  BY ClosedType DEF SockTypeOK
<1>3. ServerTypeOK'
  BY FreeSlotType, MinOfNat DEF ServerTypeOK, Arrays, SlotRecords, Occupied, Slots
<1> QED BY <1>1, <1>2, <1>3

LEMMA WriteLineType == ASSUME TypeInv, WriteLine PROVE TypeInv'
<1> USE DEF WriteLine, TypeInv, TypeOK
<1>1. IpcTypeOK'
  BY ConstantsAssumption DEF IpcTypeOK, Flights
<1>2. SockTypeOK' /\ AgentTypeOK' /\ ServerTypeOK' /\ HistoryTypeOK' /\ ControlOK'
  BY DEF SockTypeOK, AgentTypeOK, ServerTypeOK, HistoryTypeOK, ControlOK
<1> QED BY <1>1, <1>2

-----------------------------------------------------------------------------
(* Every step keeps the type invariant.                                    *)
LEMMA TypeStep == TypeInv /\ [Next]_vars => TypeInv'
<1> SUFFICES ASSUME TypeInv, [Next]_vars PROVE TypeInv'
  OBVIOUS
<1> USE DEF TypeInv, TypeOK, IpcTypeOK, SockTypeOK, AgentTypeOK, ServerTypeOK,
            HistoryTypeOK, ControlOK
<1>1. ASSUME NEW a \in Agents, ReadNoReply(a) PROVE TypeInv'
  BY <1>1 DEF ReadNoReply
<1>2. ASSUME NEW a \in Agents, Attach(a) PROVE TypeInv'
  BY <1>2 DEF Attach
<1>3. ASSUME NEW a \in Agents, ServerGone(a) PROVE TypeInv'
  BY <1>3 DEF ServerGone, LeftLoop
<1>4. ASSUME NEW a \in Agents, DownFails(a) PROVE TypeInv'
  BY <1>4 DEF DownFails
<1>5. ASSUME NEW a \in Agents, Check(a) PROVE TypeInv'
  BY <1>5 DEF Check
<1>6. ASSUME NEW a \in Agents, ReportKilled(a) PROVE TypeInv'
  BY <1>6 DEF ReportKilled
<1>7. ASSUME NEW a \in Agents, UpFails(a) PROVE TypeInv'
  BY <1>7 DEF UpFails
<1>8. ASSUME NEW a \in Agents, ConnectRefused(a) PROVE TypeInv'
  BY <1>8 DEF ConnectRefused
<1>9. ASSUME NEW a \in Agents, Crash(a) PROVE TypeInv'
  BY <1>9 DEF Crash
<1>10. ASSUME NEW a \in Agents, ReadFails(a) PROVE TypeInv'
  BY <1>10 DEF ReadFails
<1>11. ASSUME Select PROVE TypeInv'
  BY <1>11 DEF Select, Ready
<1>12. ASSUME SendIpc PROVE TypeInv'
  BY <1>12 DEF SendIpc
<1>13. ASSUME SendFull PROVE TypeInv'
  BY ClosedType, <1>13 DEF SendFull
<1>14. ASSUME NextRound PROVE TypeInv'
  BY <1>14 DEF NextRound
<1>15. ASSUME PrintSummary PROVE TypeInv'
  BY <1>15 DEF PrintSummary
<1>16. ASSUME FreeArray PROVE TypeInv'
  BY <1>16 DEF FreeArray
<1>17. ASSUME TruncateFile PROVE TypeInv'
  BY <1>17 DEF TruncateFile
<1>18. ASSUME CloseFile PROVE TypeInv'
  BY <1>18 DEF CloseFile
<1>19. ASSUME CloseListener PROVE TypeInv'
  BY ClosedType, <1>19 DEF CloseListener
<1>20. ASSUME RemoveSem PROVE TypeInv'
  BY <1>20 DEF RemoveSem
<1>21. ASSUME RemoveShm PROVE TypeInv'
  BY <1>21 DEF RemoveShm
<1>22. ASSUME TypeQuit PROVE TypeInv'
  BY <1>22 DEF TypeQuit
<1>23. ASSUME ServerCrash PROVE TypeInv'
  BY ClosedType, <1>23 DEF ServerCrash, ServerDies
<1>24. CASE UNCHANGED vars
  BY <1>24 DEF vars
<1> HIDE DEF TypeInv
<1>25. ASSUME NEW a \in Agents, AgentStep(a) \/ UserStep(a) PROVE TypeInv'
  BY <1>25, <1>1, <1>2, <1>3, <1>4, <1>5, <1>6, <1>7, <1>8, <1>9,
     SendPidType, ReadReplyType, DownType, TakeType, ReportType, ConfirmType, UpType, ByeType,
     ConnectType, CommandType
     DEF AgentStep, UserStep
<1>26. CASE ServerStep \/ TypeQuit \/ ServerCrash
  BY <1>26, <1>10, <1>11, <1>12, <1>13, <1>14, <1>15, <1>16, <1>17, <1>18, <1>19, <1>20, <1>21, <1>22, <1>23,
     ReadAmountType, DisconnectType, AcceptType, ReadPidType, AnswerKilledType, ClearSlotType, WriteLineType
     DEF ServerStep
<1> QED BY <1>24, <1>25, <1>26 DEF Next, Terminated

(* Every variable of the system keeps its type in every execution.         *)
THEOREM TypeCorrect == Spec => []TypeOK
<1>1. TypeInv => TypeOK
  BY DEF TypeInv
<1> QED BY <1>1, TypeInit, TypeStep, PTL DEF Spec

-----------------------------------------------------------------------------
(* The lock.  Server steps never touch the seats, the semaphore's value or *)
(* an agent's own state; most agent steps touch nothing but the agent's    *)
(* program counter and its socket.                                         *)
LEMMA ServerFrame ==
  ServerStep \/ TypeQuit \/ ServerCrash
  => UNCHANGED <<seats, sem, holder, agentVars, history>>
<1> SUFFICES ASSUME ServerStep \/ TypeQuit \/ ServerCrash
             PROVE  UNCHANGED <<seats, sem, holder, agentVars, history>>
  OBVIOUS
<1>1. CASE Select \/ Accept \/ ReadPid \/ SendIpc \/ SendFull \/ AnswerKilled
  BY <1>1 DEF Select, Accept, ReadPid, SendIpc, SendFull, AnswerKilled
<1>2. ASSUME NEW a \in Agents, ReadAmount(a) \/ Disconnect(a) \/ ReadFails(a)
      PROVE  UNCHANGED <<seats, sem, holder, agentVars, history>>
  BY <1>2 DEF ReadAmount, Disconnect, Dismiss, ReadFails
<1>3. CASE NextRound \/ PrintSummary \/ ClearSlot \/ FreeArray
  BY <1>3 DEF NextRound, PrintSummary, ClearSlot, FreeArray
<1>4. CASE TruncateFile \/ WriteLine \/ CloseFile \/ CloseListener
  BY <1>4 DEF TruncateFile, WriteLine, CloseFile, CloseListener
<1>5. CASE RemoveSem \/ RemoveShm \/ TypeQuit \/ ServerCrash
  BY <1>5 DEF RemoveSem, RemoveShm, TypeQuit, ServerCrash
<1> QED BY <1>1, <1>2, <1>3, <1>4, <1>5 DEF ServerStep

(* The steps of an agent that is not inside the critical section, or dies  *)
(* there: it does not enter, and whoever is inside stays.                  *)
QuietStep(a) ==
  \/ SendPid(a) \/ ReadReply(a) \/ ReadNoReply(a) \/ Attach(a) \/ ServerGone(a)
  \/ DownFails(a) \/ ReportKilled(a) \/ UpFails(a) \/ Bye(a)
  \/ Connect(a) \/ ConnectRefused(a) \/ Command(a) \/ Crash(a)

LEMMA QuietFrame ==
  ASSUME TypeInv, NEW a \in Agents, QuietStep(a)
  PROVE  /\ UNCHANGED <<seats, sem, holder, history>>
         /\ apc'[a] \notin Critical
         /\ \A b \in Agents \ {a} : apc'[b] = apc[b] /\ cmd'[b] = cmd[b]
<1> USE DEF TypeInv, TypeOK, AgentTypeOK
<1>1. CASE SendPid(a) \/ Bye(a)
  BY <1>1 DEF SendPid, Bye
<1>2. CASE ReadReply(a) \/ ReadNoReply(a) \/ Attach(a)
  BY <1>2 DEF ReadReply, ReadNoReply, Attach
<1>3. CASE ServerGone(a) \/ DownFails(a) \/ ReportKilled(a) \/ UpFails(a)
  BY <1>3 DEF ServerGone, LeftLoop, DownFails, ReportKilled, UpFails
<1>4. CASE Connect(a) \/ ConnectRefused(a) \/ Command(a) \/ Crash(a)
  BY <1>4 DEF Connect, ConnectRefused, Command, Crash
<1> QED BY <1>1, <1>2, <1>3, <1>4 DEF QuietStep

(* So every step is a server step, a quiet one, or one of seven.           *)
LEMMA StepCases ==
  ASSUME [Next]_vars
  PROVE  \/ ServerStep \/ TypeQuit \/ ServerCrash
         \/ \E a \in Agents : \/ QuietStep(a) \/ Down(a) \/ Check(a) \/ Take(a)
                             \/ Report(a) \/ Confirm(a) \/ Up(a)
         \/ UNCHANGED vars
  BY DEF Next, Terminated, AgentStep, UserStep, QuietStep

LEMMA LockInit == Init => SemaphoreIsLock
  BY DEF Init, SemaphoreIsLock

(* The critical section has at most one agent in it: only sem_down leads   *)
(* in, it needs the semaphore up, and the semaphore is up only when the    *)
(* last to go in has come out.                                             *)
LEMMA LockStep ==
  ASSUME TypeInv, SemaphoreIsLock, [Next]_vars
  PROVE  SemaphoreIsLock'
<1> USE DEF TypeInv, TypeOK, AgentTypeOK, SemaphoreIsLock
<1>1. CASE ServerStep \/ TypeQuit \/ ServerCrash
  BY <1>1, ServerFrame
<1>2. ASSUME NEW a \in Agents, QuietStep(a) PROVE SemaphoreIsLock'
  <2>1. UNCHANGED <<sem, holder>>
    BY <1>2, QuietFrame
  <2>2. \A b \in Agents : apc'[b] \in Critical => apc[b] \in Critical
    BY <1>2, QuietFrame
  <2> QED BY <2>1, <2>2
<1>3. ASSUME NEW a \in Agents, Down(a) PROVE SemaphoreIsLock'
  <2>1. sem = 1 /\ holder = NoAgent
    BY <1>3 DEF Down, IpcTypeOK
  <2>2. sem' = 0 /\ holder' = a /\ holder' # NoAgent
    BY <1>3, <2>1, ConstantsAssumption DEF Down
  <2>3. \A b \in Agents : apc'[b] \in Critical => b = a
    BY <1>3, <2>1, ConstantsAssumption DEF Down
  <2> QED BY <2>2, <2>3
<1>4. ASSUME NEW a \in Agents, Check(a) \/ Take(a) \/ Report(a) \/ Confirm(a)
      PROVE  SemaphoreIsLock'
  <2>1. UNCHANGED <<sem, holder>> /\ apc[a] \in Critical
    BY <1>4 DEF Check, Take, Report, Confirm
  <2>2. \A b \in Agents \ {a} : apc'[b] = apc[b]
    BY <1>4 DEF Check, Take, Report, Confirm
  <2> QED BY <2>1, <2>2
<1>5. ASSUME NEW a \in Agents, Up(a) PROVE SemaphoreIsLock'
  <2>1. holder = a /\ sem = 0
    BY <1>5, ConstantsAssumption DEF Up
  <2>2. sem' = 1 /\ holder' = NoAgent
    BY <1>5, <2>1 DEF Up
  <2>3. \A b \in Agents : apc'[b] \notin Critical
    BY <1>5, <2>1 DEF Up, LeftLoop
  <2> QED BY <2>2, <2>3
<1>6. CASE UNCHANGED vars
  BY <1>6 DEF vars
<1> QED BY <1>1, <1>2, <1>3, <1>4, <1>5, <1>6, StepCases

(* sem_down and sem_up bracket a critical section with one agent in it,    *)
(* whatever crashes and whatever is removed meanwhile.                     *)
THEOREM MutualExclusion == Spec => []SemaphoreIsLock
<1>1. TypeInv /\ SemaphoreIsLock /\ [Next]_vars => TypeInv' /\ SemaphoreIsLock'
  BY TypeStep, LockStep
<1>2. Init => TypeInv /\ SemaphoreIsLock
  BY TypeInit, LockInit
<1> QED BY <1>1, <1>2, PTL DEF Spec

-----------------------------------------------------------------------------
(* The seats.  An agent about to subtract has checked, and the lock keeps  *)
(* the others from subtracting in between.                                 *)
CheckStillHolds ==
  \A a \in Agents : apc[a] = "take" => seats[cmd[a].flight] >= cmd[a].num

SeatInv == TypeInv /\ SemaphoreIsLock /\ NoOversell /\ CheckStillHolds

LEMMA SeatInit == Init => NoOversell /\ CheckStillHolds
  BY ConstantsAssumption DEF Init, NoOversell, CheckStillHolds, Flights

LEMMA SeatStep ==
  ASSUME SeatInv, [Next]_vars
  PROVE  NoOversell' /\ CheckStillHolds'
<1> USE DEF SeatInv, TypeInv, TypeOK, AgentTypeOK, NoOversell, CheckStillHolds
<1>1. CASE ServerStep \/ TypeQuit \/ ServerCrash
  BY <1>1, ServerFrame
<1>2. ASSUME NEW a \in Agents, QuietStep(a) PROVE NoOversell' /\ CheckStillHolds'
  BY <1>2, QuietFrame
<1>3. ASSUME NEW a \in Agents, Down(a) \/ Report(a) \/ Confirm(a) \/ Up(a)
      PROVE  NoOversell' /\ CheckStillHolds'
  <2>1. UNCHANGED <<seats, cmd>> /\ apc'[a] # "take"
    BY <1>3 DEF Down, Report, Confirm, Up, LeftLoop
  <2>2. \A b \in Agents \ {a} : apc'[b] = apc[b]
    BY <1>3 DEF Down, Report, Confirm, Up
  <2> QED BY <2>1, <2>2
<1>4. ASSUME NEW a \in Agents, Check(a) PROVE NoOversell' /\ CheckStillHolds'
  BY <1>4 DEF Check
<1>5. ASSUME NEW a \in Agents, Take(a) PROVE NoOversell' /\ CheckStillHolds'
  <2>1. cmd[a].flight \in Flights /\ cmd[a].num \in Int /\ seats[cmd[a].flight] >= cmd[a].num
    BY <1>5, CommandFields DEF Take, ControlOK
  <2>2. seats' = [seats EXCEPT ![cmd[a].flight] = @ - cmd[a].num]
    BY <1>5 DEF Take
  <2>3. \A f \in Flights : seats[f] \in Int
    BY DEF IpcTypeOK
  <2>4. NoOversell'
    BY <2>1, <2>2, <2>3 DEF IpcTypeOK
  <2>5. \A b \in Agents : apc'[b] # "take"
    <3>1. \A b \in Agents \ {a} : apc[b] # "take"
      BY <1>5 DEF Take, SemaphoreIsLock
    <3> QED BY <1>5, <3>1 DEF Take
  <2> QED BY <2>4, <2>5
<1>6. CASE UNCHANGED vars
  BY <1>6 DEF vars
<1> QED BY <1>1, <1>2, <1>3, <1>4, <1>5, <1>6, StepCases

(* No flight is ever sold below zero.                                      *)
THEOREM NeverOversold == Spec => []NoOversell
<1>1. SeatInv /\ [Next]_vars => SeatInv'
  BY TypeStep, LockStep, SeatStep DEF SeatInv
<1>2. Init => SeatInv
  BY TypeInit, LockInit, SeatInit DEF SeatInv
<1>3. SeatInv => NoOversell
  BY DEF SeatInv
<1> QED BY <1>1, <1>2, <1>3, PTL DEF Spec

-----------------------------------------------------------------------------
(* The accounts.  With no negative amounts, the seats that were sold have  *)
(* left the table and nothing brings them back, and nobody is told of      *)
(* seats that were not sold.                                               *)
AccountInv == SeatInv /\ ConfirmedSeatsAreGone

LEMMA AccountInit == Init => ConfirmedSeatsAreGone
<1> SUFFICES ASSUME Init, NEW f \in Flights
             PROVE  /\ seats[f] + InReport(f) + sold[f] <= InitSeats[f]
                    /\ confirmed[f] + InConfirm(f) <= sold[f]
  BY DEF ConfirmedSeatsAreGone
<1>1. InReport(f) = 0 /\ InConfirm(f) = 0
  BY DEF Init, InReport, InConfirm, InStage
<1>2. sold[f] = 0 /\ confirmed[f] = 0 /\ seats[f] = InitSeats[f] /\ InitSeats[f] \in Nat
  BY ConstantsAssumption DEF Init
<1> QED BY <1>1, <1>2

LEMMA CommandAmount ==
  ASSUME Amounts \subseteq Nat, NEW c \in Commands
  PROVE  c.num \in Nat
<1>1. CASE c \in [op : {"reserve"}, flight : Flights \cup {NoFlight}, num : Amounts]
  BY <1>1
<1>2. CASE c = [op |-> "find", flight |-> NoFlight, num |-> 0]
  BY <1>2
<1>3. CASE c = [op |-> "exit", flight |-> NoFlight, num |-> 0]
  BY <1>3
<1> QED BY <1>1, <1>2, <1>3 DEF Commands

LEMMA InStageIsNat ==
  ASSUME Amounts \subseteq Nat, TypeInv, NEW pc, NEW f
  PROVE  InStage(pc, f) \in Nat
  BY CommandAmount DEF InStage, TypeInv, TypeOK, IpcTypeOK, AgentTypeOK

(* A step that leaves seats, sales and confirmations alone and takes       *)
(* nobody to the report or past it keeps the accounts.                     *)
LEMMA AccountFrame ==
  ASSUME Amounts \subseteq Nat, AccountInv, UNCHANGED <<seats, sold, confirmed>>,
         \A f \in Flights : /\ InReport(f)' \in {0, InReport(f)}
                            /\ InConfirm(f)' \in {0, InConfirm(f)}
  PROVE  ConfirmedSeatsAreGone'
<1> SUFFICES ASSUME NEW f \in Flights
             PROVE  /\ (seats[f] + InReport(f) + sold[f] <= InitSeats[f])'
                    /\ (confirmed[f] + InConfirm(f) <= sold[f])'
  BY DEF ConfirmedSeatsAreGone
<1>1. /\ seats[f] + InReport(f) + sold[f] <= InitSeats[f]
      /\ confirmed[f] + InConfirm(f) <= sold[f]
  BY DEF AccountInv, ConfirmedSeatsAreGone
<1>2. InReport(f) \in Nat /\ InConfirm(f) \in Nat
  BY InStageIsNat DEF AccountInv, SeatInv, InReport, InConfirm
<1>3. seats[f] \in Int /\ sold[f] \in Int /\ confirmed[f] \in Int /\ InitSeats[f] \in Int
  BY ConstantsAssumption DEF AccountInv, SeatInv, TypeInv, TypeOK, IpcTypeOK, HistoryTypeOK
<1>4. seats'[f] = seats[f] /\ sold'[f] = sold[f] /\ confirmed'[f] = confirmed[f]
  OBVIOUS
<1>5. (seats[f] + InReport(f) + sold[f] <= InitSeats[f])'
  BY <1>1, <1>2, <1>3, <1>4
<1>6. (confirmed[f] + InConfirm(f) <= sold[f])'
  BY <1>1, <1>2, <1>3, <1>4
<1> QED BY <1>5, <1>6

(* A reservation of n seats of g goes through the stages: subtracted, sent *)
(* to the server, confirmed.                                               *)
LEMMA AccountMoves ==
  ASSUME Amounts \subseteq Nat, AccountInv, SemaphoreIsLock',
         NEW a \in Agents, Take(a) \/ Report(a) \/ Confirm(a)
  PROVE  ConfirmedSeatsAreGone'
<1> USE DEF AccountInv, SeatInv, TypeInv, TypeOK, AgentTypeOK
<1> DEFINE g == cmd[a].flight
           n == cmd[a].num
<1>1. g \in Flights /\ n \in Int
  BY CommandFields DEF Take, Report, Confirm, ControlOK
<1>2. holder = a /\ holder' = a /\ cmd' = cmd
  BY DEF Take, Report, Confirm, SemaphoreIsLock
<1>3. \A f \in Flights :
        /\ seats[f] \in Int /\ sold[f] \in Int /\ confirmed[f] \in Int /\ InitSeats[f] \in Int
        /\ seats[f] + InReport(f) + sold[f] <= InitSeats[f]
        /\ confirmed[f] + InConfirm(f) <= sold[f]
  BY ConstantsAssumption DEF IpcTypeOK, HistoryTypeOK, ConfirmedSeatsAreGone
<1>4. \A f \in Flights :
        /\ InReport(f) = IF apc[a] = "report" /\ g = f THEN n ELSE 0
        /\ InConfirm(f) = IF apc[a] = "confirm" /\ g = f THEN n ELSE 0
        /\ InReport(f)' = IF apc'[a] = "report" /\ g = f THEN n ELSE 0
        /\ InConfirm(f)' = IF apc'[a] = "confirm" /\ g = f THEN n ELSE 0
  BY <1>2, ConstantsAssumption DEF InReport, InConfirm, InStage
<1>5. CASE Take(a)
  <2>1. apc[a] = "take" /\ apc'[a] = "report"
    BY <1>5 DEF Take
  <2>2. \A f \in Flights : /\ seats'[f] = IF f = g THEN seats[f] - n ELSE seats[f]
                           /\ sold'[f] = sold[f] /\ confirmed'[f] = confirmed[f]
    BY <1>5 DEF Take, IpcTypeOK
  <2> HIDE DEF g, n
  <2>3. \A f \in Flights : /\ (seats[f] + InReport(f) + sold[f] <= InitSeats[f])'
                           /\ (confirmed[f] + InConfirm(f) <= sold[f])'
    BY <1>1, <1>3, <1>4, <2>1, <2>2
  <2> QED BY <2>3 DEF ConfirmedSeatsAreGone
<1>6. CASE Report(a)
  <2>1. apc[a] = "report" /\ apc'[a] = "confirm"
    BY <1>6 DEF Report
  <2>2. \A f \in Flights : /\ seats'[f] = seats[f] /\ confirmed'[f] = confirmed[f]
                           /\ sold'[f] = IF f = g THEN sold[f] + n ELSE sold[f]
    BY <1>6 DEF Report, HistoryTypeOK
  <2> HIDE DEF g, n
  <2>3. \A f \in Flights : /\ (seats[f] + InReport(f) + sold[f] <= InitSeats[f])'
                           /\ (confirmed[f] + InConfirm(f) <= sold[f])'
    BY <1>1, <1>3, <1>4, <2>1, <2>2
  <2> QED BY <2>3 DEF ConfirmedSeatsAreGone
<1>7. CASE Confirm(a)
  <2>1. apc[a] = "confirm" /\ apc'[a] = "up"
    BY <1>7 DEF Confirm
  <2>2. \A f \in Flights : /\ seats'[f] = seats[f] /\ sold'[f] = sold[f]
                           /\ confirmed'[f] = IF f = g THEN confirmed[f] + n ELSE confirmed[f]
    BY <1>7 DEF Confirm, HistoryTypeOK
  <2> HIDE DEF g, n
  <2>3. \A f \in Flights : /\ (seats[f] + InReport(f) + sold[f] <= InitSeats[f])'
                           /\ (confirmed[f] + InConfirm(f) <= sold[f])'
    BY <1>1, <1>3, <1>4, <2>1, <2>2
  <2> QED BY <2>3 DEF ConfirmedSeatsAreGone
<1> QED BY <1>5, <1>6, <1>7

LEMMA AccountStep ==
  ASSUME Amounts \subseteq Nat, AccountInv, SemaphoreIsLock', [Next]_vars
  PROVE  ConfirmedSeatsAreGone'
<1> USE DEF AccountInv, SeatInv, TypeInv, TypeOK, AgentTypeOK
<1>1. CASE ServerStep \/ TypeQuit \/ ServerCrash
  <2>1. UNCHANGED <<seats, holder, apc, cmd, sold, confirmed>>
    BY <1>1, ServerFrame
  <2> QED BY <2>1, AccountFrame DEF InReport, InConfirm, InStage
<1>2. ASSUME NEW a \in Agents, QuietStep(a) PROVE ConfirmedSeatsAreGone'
  <2>1. UNCHANGED <<seats, holder, sold, confirmed>> /\ apc'[a] \notin {"report", "confirm"}
    BY <1>2, QuietFrame
  <2>2. \A f \in Flights : /\ InReport(f)' \in {0, InReport(f)}
                           /\ InConfirm(f)' \in {0, InConfirm(f)}
    BY <1>2, <2>1, QuietFrame DEF InReport, InConfirm, InStage, IpcTypeOK
  <2> QED BY <2>1, <2>2, AccountFrame
<1>3. ASSUME NEW a \in Agents, Down(a) \/ Check(a) \/ Up(a) PROVE ConfirmedSeatsAreGone'
  <2>1. /\ UNCHANGED <<seats, cmd, sold, confirmed>>
        /\ apc'[a] \notin {"report", "confirm"}
    BY <1>3 DEF Down, Check, Up, LeftLoop
  <2>2. holder' \in {NoAgent, a}
    BY <1>3 DEF Down, Check, Up, SemaphoreIsLock
  <2>3. \A f \in Flights : InReport(f)' = 0 /\ InConfirm(f)' = 0
    BY <2>1, <2>2 DEF InReport, InConfirm, InStage
  <2> QED BY <2>1, <2>3, AccountFrame
<1>4. ASSUME NEW a \in Agents, Take(a) \/ Report(a) \/ Confirm(a) PROVE ConfirmedSeatsAreGone'
  BY <1>4, AccountMoves
<1>5. CASE UNCHANGED vars
  <2>1. UNCHANGED <<seats, holder, apc, cmd, sold, confirmed>>
    BY <1>5 DEF vars
  <2> QED BY <2>1, AccountFrame DEF InReport, InConfirm, InStage
<1> QED BY <1>1, <1>2, <1>3, <1>4, <1>5, StepCases

(* If users do not type negative amounts, a seat that was sold is gone for *)
(* good: no later step of any process puts it back into the table          *)
(* (agent.c:353, 356), and no user reads [SUCCESS] (agent.c:360) for a     *)
(* seat that was not sold.                                                 *)
THEOREM ConfirmedSeatsStayGone ==
  ASSUME Amounts \subseteq Nat
  PROVE  Spec => []ConfirmedSeatsAreGone
<1>1. AccountInv /\ [Next]_vars => AccountInv'
  BY TypeStep, LockStep, SeatStep, AccountStep DEF AccountInv, SeatInv
<1>2. Init => AccountInv
  BY TypeInit, LockInit, SeatInit, AccountInit DEF AccountInv, SeatInv
<1>3. AccountInv => ConfirmedSeatsAreGone
  BY DEF AccountInv
<1> QED BY <1>1, <1>2, <1>3, PTL DEF Spec

=============================================================================
