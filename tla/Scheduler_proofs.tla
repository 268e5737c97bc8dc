-------------------------- MODULE Scheduler_proofs --------------------------
(***************************************************************************)
(* Theorems about Scheduler for any set of children and any environment.   *)
(***************************************************************************)
EXTENDS Scheduler, LeastElement

-----------------------------------------------------------------------------
(* What the searches of the process list return, and what is left of it    *)
(* when a node is taken out.                                               *)

(* The running node, if there is one.                                      *)
LEMMA RunningFound ==
  ASSUME NEW list \in Seq(Children), NEW st \in [Children -> Statuses]
  PROVE  LET r == src_running(list, st) IN
         /\ r \in Children \cup {NoChild}
         /\ r # NoChild => st[r] = "RUNNING"
         /\ r = NoChild <=> \A k \in DOMAIN list : st[list[k]] # "RUNNING"
<1> DEFINE R == RunningAt(list, st)
<1>1. R \in SUBSET Nat /\ R \subseteq DOMAIN list
  BY DEF RunningAt
<1>2. CASE R = {}
  BY <1>2 DEF src_running, RunningAt
<1>3. CASE R # {}
  <2>1. Min(R) \in R
    <3> HIDE DEF R
    <3> QED BY <1>1, <1>3, MinOfNat
  <2>2. /\ Min(R) \in DOMAIN list /\ list[Min(R)] \in Children
        /\ st[list[Min(R)]] = "RUNNING"
    BY <2>1, <1>1 DEF RunningAt
  <2>3. src_running(list, st) = list[Min(R)]
    BY <1>3 DEF src_running
  <2> QED BY <2>2, <2>3, NoChildAssumption
<1> QED BY <1>2, <1>3

(* Positions around the circle are positions.                              *)
LEMMA AroundInList ==
  ASSUME NEW list \in Seq(Children), NEW k \in DOMAIN list, NEW d \in 1 .. Len(list) - 1
  PROVE  Around(list, k, d) \in Children
<1>1. (k + d - 1) % Len(list) \in 0 .. Len(list) - 1
  OBVIOUS
<1> QED BY <1>1 DEF Around

(* The node SIGALRM switches to waits, and is a node.                      *)
LEMMA WaitingFound ==
  ASSUME NEW list \in Seq(Children), NEW st \in [Children -> Statuses],
         CanSwitch(list, st)
  PROVE  LET r == src_running(list, st)
             w == src_waiting(list, st)
         IN /\ r \in Children /\ st[r] = "RUNNING"
            /\ w \in Children /\ st[w] = "WAITING"
<1> DEFINE R == RunningAt(list, st)
           k == Min(R)
           W == WaitingAfter(list, st, k)
<1>1. src_running(list, st) \in Children /\ st[src_running(list, st)] = "RUNNING"
  BY RunningFound DEF CanSwitch
<1>2. R \in SUBSET Nat /\ R # {} /\ R \subseteq DOMAIN list
  BY DEF RunningAt, CanSwitch, src_running
<1>3. k \in DOMAIN list
  <2> HIDE DEF R
  <2> QED BY <1>2, MinOfNat
<1>4. W \in SUBSET Nat /\ W # {}
  BY DEF WaitingAfter, CanSwitch, src_waiting
<1>5. Min(W) \in W
  <2> HIDE DEF W
  <2> QED BY <1>4, MinOfNat
<1>6. src_waiting(list, st) = Around(list, k, Min(W))
  BY <1>4 DEF src_waiting
<1>7. Min(W) \in 1 .. Len(list) - 1 /\ st[Around(list, k, Min(W))] = "WAITING"
  <2> HIDE DEF k
  <2> QED BY <1>5 DEF WaitingAfter
<1>8. Around(list, k, Min(W)) \in Children
  <2> HIDE DEF k, W
  <2> QED BY <1>3, <1>7, AroundInList
<1> QED BY <1>1, <1>6, <1>7, <1>8

-----------------------------------------------------------------------------
Without(list, k) == SubSeq(list, 1, k - 1) \o SubSeq(list, k + 1, Len(list))

(* The other nodes stay, in their order.                                   *)
LEMMA WithoutNode ==
  ASSUME NEW S, NEW list \in Seq(S), NEW k \in DOMAIN list
  PROVE  /\ Without(list, k) \in Seq(S)
         /\ DOMAIN Without(list, k) = 1 .. Len(list) - 1
         /\ \A j \in 1 .. Len(list) - 1 :
              Without(list, k)[j] = IF j < k THEN list[j] ELSE list[j + 1]
<1> DEFINE a == SubSeq(list, 1, k - 1)
           b == SubSeq(list, k + 1, Len(list))
<1>1. a \in Seq(S) /\ Len(a) = k - 1 /\ \A j \in 1 .. k - 1 : a[j] = list[j]
  OBVIOUS
<1>2. b \in Seq(S) /\ Len(b) = Len(list) - k /\ \A j \in 1 .. Len(list) - k : b[j] = list[k + j]
  OBVIOUS
<1> HIDE DEF a, b
<1>3. Without(list, k) = a \o b
  BY DEF Without, a, b
<1>4. a \o b \in Seq(S) /\ Len(a \o b) = Len(list) - 1
  BY <1>1, <1>2
<1>5. ASSUME NEW j \in 1 .. Len(list) - 1
      PROVE (a \o b)[j] = IF j < k THEN list[j] ELSE list[j + 1]
  <2>1. CASE j < k
    BY <2>1, <1>1, <1>2
  <2>2. CASE j >= k
    <3>1. j - (k - 1) \in 1 .. Len(list) - k /\ k + (j - (k - 1)) = j + 1
      BY <2>2
    <3>2. (a \o b)[j] = b[j - (k - 1)]
      BY <2>2, <1>1, <1>2
    <3>3. b[j - (k - 1)] = list[k + (j - (k - 1))]
      BY <3>1, <1>2
    <3>4. b[j - (k - 1)] = list[j + 1]
      BY <3>1, <3>3
    <3>5. ~(j < k)
      BY <2>2
    <3> QED BY <3>2, <3>4, <3>5
  <2>3. j < k \/ j >= k
    BY DOMAIN list = 1 .. Len(list)
  <2> QED BY <2>1, <2>2, <2>3
<1> QED BY <1>3, <1>4, <1>5

-----------------------------------------------------------------------------

USE DEF lists, mainVars, handler, kernel, MainPc, Statuses, status_t, ChildStates,
        At, To, ParentRuns

(* The steps of SIGCHLD's handler that have a node in hand.                *)
Marking == {"unblock", "raise", "block", "mark"}

(* The type invariant needs that a command that has a target has one, that *)
(* a handler marks a node, that walks start at the first node, and that    *)
(* SIGCHLD is blocked, and its handler not running, while a process is     *)
(* started.                                                                *)
ControlOK ==
  /\ mpc \in {"fork", "stop", "add", "started"} => "CHLD" \in mask /\ hpc = "none"
  /\ mpc \in {"cont", "term", "start", "fork", "stop", "add"} => target \in Children
  /\ hpc \in Marking => reaped \in Children
  /\ at >= 1

TypeInv == TypeOK /\ ControlOK

(* What holds of every signal: children that have not begun or have been   *)
(* reaped are out of its reach, and it makes nobody one of them.           *)
KeepsEnds(sig) ==
  /\ sig \in [ChildStates -> ChildStates]
  /\ \A s \in ChildStates : (sig[s] = "none" <=> s = "none") /\ (sig[s] = "reaped" <=> s = "reaped")

LEMMA SignalsKeepEnds ==
  KeepsEnds(SIGSTOP) /\ KeepsEnds(SIGCONT) /\ KeepsEnds(SIGTERM) /\ KeepsEnds(SIGKILL)
<1>1. KeepsEnds(SIGSTOP)
  BY DEF KeepsEnds, SIGSTOP
<1>2. KeepsEnds(SIGCONT)
  BY DEF KeepsEnds, SIGCONT
<1>3. KeepsEnds(SIGTERM)
  BY DEF KeepsEnds, SIGTERM
<1>4. KeepsEnds(SIGKILL)
  BY DEF KeepsEnds, SIGKILL, Alive
<1> QED BY <1>1, <1>2, <1>3, <1>4

(* The children that have begun and have not been reaped are the same.     *)
SameEnds ==
  \A c \in Children : /\ child'[c] = "none" <=> child[c] = "none"
                      /\ child'[c] = "reaped" <=> child[c] = "reaped"

LEMMA KillType ==
  ASSUME TypeOK, NEW c \in Children, NEW sig, KeepsEnds(sig), kill(c, sig)
  PROVE  /\ child' \in [Children -> ChildStates]
         /\ pending' \subseteq {"ALRM", "CHLD"}
         /\ SameEnds
<1>1. child \in [Children -> ChildStates] /\ pending \subseteq {"ALRM", "CHLD"}
  BY DEF TypeOK
<1>2. sig[child[c]] \in ChildStates
  BY <1>1 DEF KeepsEnds
<1>3. child' \in [Children -> ChildStates]
  BY <1>1, <1>2 DEF kill
<1>4. pending' \subseteq {"ALRM", "CHLD"}
  BY <1>1 DEF kill, Obituary
<1>5. SameEnds
  BY <1>1 DEF kill, KeepsEnds, SameEnds
<1> QED BY <1>3, <1>4, <1>5

(* A switch exchanges a running and a waiting node, and stops and          *)
(* continues their processes; everything else stays.                       *)
Unmarked == {"WAITING", "RUNNING"}

SwitchOK ==
  /\ status' \in [Children -> Statuses] /\ child' \in [Children -> ChildStates]
  /\ pending' \subseteq {"ALRM", "CHLD"} /\ timer' \in {"armed", "off"}
  /\ \A c \in Children : /\ status'[c] \in Unmarked <=> status[c] \in Unmarked
                         /\ status[c] \notin Unmarked => status'[c] = status[c]
  /\ SameEnds

LEMMA SwitchType == ASSUME TypeOK, sigalrm_handler PROVE SwitchOK
<1>1. /\ process_list \in Seq(Children) /\ status \in [Children -> Statuses]
      /\ child \in [Children -> ChildStates] /\ pending \subseteq {"ALRM", "CHLD"}
  BY DEF TypeOK
<1>2. CASE ~CanSwitch(process_list, status)
  BY <1>1, <1>2 DEF sigalrm_handler, SwitchOK, SameEnds
<1>3. CASE CanSwitch(process_list, status)
  <2> DEFINE r == src_running(process_list, status)
             w == src_waiting(process_list, status)
  <2>1. r \in Children /\ status[r] = "RUNNING" /\ w \in Children /\ status[w] = "WAITING"
    BY <1>1, <1>3, WaitingFound
  <2>2. /\ timer' = "armed"
        /\ status' = [status EXCEPT ![r] = "WAITING", ![w] = "RUNNING"]
        /\ child' = [child EXCEPT ![r] = SIGSTOP[@], ![w] = SIGCONT[@]]
        /\ pending' = (pending \ {"ALRM"}) \cup Obituary(w, SIGCONT)
    BY <1>3 DEF sigalrm_handler
  <2> HIDE DEF r, w
  <2>3. SIGSTOP[child[r]] \in ChildStates /\ SIGCONT[child[w]] \in ChildStates
    BY <1>1, <2>1, SignalsKeepEnds DEF KeepsEnds
  <2>4. status' \in [Children -> Statuses]
    BY <1>1, <2>1, <2>2
  <2>5. child' \in [Children -> ChildStates]
    BY <1>1, <2>1, <2>2, <2>3
  <2>6. pending' \subseteq {"ALRM", "CHLD"}
    BY <1>1, <2>2 DEF Obituary
  <2>7. SameEnds
    BY <1>1, <2>1, <2>2, SignalsKeepEnds DEF SameEnds, KeepsEnds
  <2>8. \A c \in Children : /\ status'[c] \in Unmarked <=> status[c] \in Unmarked
                            /\ status[c] \notin Unmarked => status'[c] = status[c]
    BY <1>1, <2>1, <2>2 DEF Unmarked
  <2> QED BY <2>2, <2>4, <2>5, <2>6, <2>7, <2>8 DEF SwitchOK
<1> QED BY <1>2, <1>3

-----------------------------------------------------------------------------
LEMMA TypeInit == Init => TypeInv
  BY DEF Init, TypeInv, TypeOK, ControlOK, Marking

(* A step of the main program.                                             *)
LEMMA MainType == ASSUME TypeInv, MainStep PROVE TypeInv'
<1> USE DEF TypeInv, TypeOK, ControlOK, Marking
<1>1. CASE EnterFgets
  BY <1>1 DEF EnterFgets
<1>2. CASE TermCont
  BY <1>2, KillType, SignalsKeepEnds DEF TermCont
<1>3. CASE TermTerm
  BY <1>3, KillType, SignalsKeepEnds DEF TermTerm
<1>4. CASE StartBlock \/ StartUnblock
  BY <1>4 DEF StartBlock, StartUnblock
<1>5. CASE Fork
  BY <1>5 DEF Fork
<1>6. CASE ForkFails
  BY <1>6 DEF ForkFails
<1>7. CASE StopNew
  <2>1. CASE src_running(process_list, status) # NoChild
    BY <1>7, <2>1, KillType, SignalsKeepEnds DEF StopNew
  <2>2. CASE src_running(process_list, status) = NoChild
    BY <1>7, <2>2 DEF StopNew
  <2> QED BY <2>1, <2>2
<1>8. CASE process_list_add
  BY <1>8 DEF process_list_add, StatusOfNew
<1>9. CASE PrintBlock \/ PrintUnblock
  <2>1. CASE PrintBlock
    BY <2>1 DEF PrintBlock
  <2>2. CASE PrintUnblock
    BY <2>2 DEF PrintUnblock
  <2> QED BY <1>9, <2>1, <2>2
<1>10. CASE PrintNode
  <2>1. process_list[at] \in Children
    BY <1>10 DEF PrintNode
  <2> QED BY <1>10, <2>1 DEF PrintNode
<1>11. CASE CheckFlag \/ CleanDone \/ TestFlag
  <2>1. CASE CheckFlag
    BY <2>1 DEF CheckFlag
  <2>2. CASE CleanDone
    BY <2>2 DEF CleanDone
  <2>3. CASE TestFlag
    BY <2>3 DEF TestFlag
  <2> QED BY <1>11, <2>1, <2>2, <2>3
<1>12. CASE CleanNode
  <2>1. at \in DOMAIN process_list /\ process_list[at] \in Children
    BY <1>12 DEF CleanNode
  <2>2. Without(process_list, at) \in Seq(Children)
    BY <2>1, WithoutNode
  <2>3. CASE status[process_list[at]] = "DELETE"
    <3>1. /\ process_list' = Without(process_list, at)
          /\ status' = [status EXCEPT ![process_list[at]] = "NONE"]
      BY <1>12, <2>3 DEF CleanNode, Without
    <3> QED BY <1>12, <2>1, <2>2, <2>3, <3>1 DEF CleanNode
  <2>4. CASE status[process_list[at]] # "DELETE"
    BY <1>12, <2>4 DEF CleanNode
  <2> QED BY <2>3, <2>4
<1>13. CASE KillNode
  <2>1. process_list[at] \in Children
    BY <1>13 DEF KillNode
  <2>2. CASE status[process_list[at]] # "DELETE"
    BY <1>13, <2>1, <2>2, KillType, SignalsKeepEnds DEF KillNode
  <2>3. CASE status[process_list[at]] = "DELETE"
    <3>1. UNCHANGED <<child, pending>>
      BY <1>13, <2>3 DEF KillNode
    <3> QED BY <1>13, <3>1 DEF KillNode
  <2> QED BY <2>2, <2>3
<1>14. CASE KilledAll \/ FreeNode \/ Leave
  <2>1. CASE KilledAll
    BY <2>1 DEF KilledAll
  <2>2. CASE FreeNode
    BY <2>2 DEF FreeNode
  <2>3. CASE Leave
    BY <2>3 DEF Leave
  <2> QED BY <1>14, <2>1, <2>2, <2>3
<1> QED BY <1>1, <1>2, <1>3, <1>4, <1>5, <1>6, <1>7, <1>8, <1>9, <1>10, <1>11, <1>12, <1>13, <1>14
        DEF MainStep

(* A step of SIGCHLD's handler, or a whole switch.                         *)
LEMMA HandlerType ==
  ASSUME TypeInv, HandlerStep \/ AlarmDelivered \/ ChldDelivered \/ Crashes PROVE TypeInv'
<1> USE DEF TypeInv, TypeOK, ControlOK, Marking
<1>1. CASE Reap
  <2>1. PICK c \in Children :
          /\ child' = [child EXCEPT ![c] = "reaped"]
          /\ reaped' = src_pid(status, c)
          /\ hpc' = IF src_pid(status, c) = NoChild THEN "none"
                    ELSE IF status[c] = "RUNNING" THEN "unblock" ELSE "mark"
    BY <1>1 DEF Reap
  <2>2. src_pid(status, c) \in {c, NoChild}
    BY DEF src_pid
  <2> QED BY <1>1, <2>1, <2>2 DEF Reap
<1>2. CASE NoneToReap
  BY <1>2 DEF NoneToReap
<1>3. CASE Unblock
  <2>1. CASE "ALRM" \in pending
    BY <1>3, <2>1, SwitchType DEF Unblock, SwitchOK
  <2>2. CASE "ALRM" \notin pending
    <3>1. /\ hpc' = "raise" /\ UNCHANGED <<process_list, status, del_flag, kernel, mainVars, reaped, termsig_flag>>
      BY <1>3, <2>2 DEF Unblock
    <3> QED BY <1>3, <3>1 DEF Unblock
  <2> QED BY <2>1, <2>2
<1>4. CASE Raise
  BY <1>4, SwitchType DEF Raise, SwitchOK
<1>5. CASE Block \/ Mark
  <2>1. CASE Block
    BY <2>1 DEF Block
  <2>2. CASE Mark
    BY <2>2 DEF Mark
  <2> QED BY <1>5, <2>1, <2>2
<1>6. CASE AlarmDelivered
  BY <1>6, SwitchType DEF AlarmDelivered, SwitchOK
<1>7. CASE ChldDelivered
  BY <1>7 DEF ChldDelivered
<1>8. CASE Crashes
  BY <1>8 DEF Crashes
<1> QED BY <1>1, <1>2, <1>3, <1>4, <1>5, <1>6, <1>7, <1>8 DEF HandlerStep

(* The rest of the world.                                                  *)
LEMMA WorldType ==
  ASSUME TypeInv, AlarmExpires \/ Environment \/ Terminated PROVE TypeInv'
<1> USE DEF TypeInv, TypeOK, ControlOK, Marking
<1>1. CASE AlarmExpires
  BY <1>1 DEF AlarmExpires
<1>2. ASSUME NEW c \in Children, NEW cmd \in {"EXEC", "TERM", "LIST", "QUIT", "NONE"}, UserTypes(cmd, c)
      PROVE  TypeInv'
  BY <1>2 DEF UserTypes
<1>3. ASSUME NEW c \in Children, ChildEnds(c) PROVE TypeInv'
  BY <1>3, KillType, SignalsKeepEnds DEF ChildEnds
<1>4. CASE SpuriousChld
  BY <1>4 DEF SpuriousChld
<1>5. ASSUME NEW sig \in TermSignals, TermSignal(sig) PROVE TypeInv'
  BY <1>5 DEF TermSignal
<1>6. CASE Terminated
  BY <1>6 DEF Terminated, vars
<1> QED BY <1>1, <1>2, <1>3, <1>4, <1>5, <1>6 DEF Environment

LEMMA TypeStep == TypeInv /\ [Next]_vars => TypeInv'
<1>1. ASSUME TypeInv, UNCHANGED vars PROVE TypeInv'
  BY <1>1 DEF vars, TypeInv, TypeOK, ControlOK
<1> QED BY <1>1, MainType, HandlerType, WorldType DEF Next

(* Every variable of the scheduler keeps its type, however its signals     *)
(* interleave.                                                             *)
THEOREM SchedulerTypes == Spec => []TypeOK
<1>1. Spec => []TypeInv
  BY TypeInit, TypeStep, PTL DEF Spec
<1> QED BY <1>1, PTL DEF TypeInv

-----------------------------------------------------------------------------
(* The list and the children.  ListInv strengthens OneRunner: a process    *)
(* that is being started has no node yet, and the node in the hands of     *)
(* SIGCHLD's handler is still unmarked.                                    *)
NewProcess == {"stop", "add"}

StartOK ==
  /\ \A c \in Children : child[c] = "none" => status[c] = "NONE"
  /\ mpc \in {"start", "fork"} => child[target] = "none"
  /\ mpc \in NewProcess => status[target] = "NONE"
  /\ hpc \in Marking => status[reaped] \in Unmarked

ListInv == OneRunner /\ StartOK

(* MatchInv extends ListMatchesChildren to the steps in which a process is *)
(* being started, which has begun without a node, or marked, which has     *)
(* been reaped with one.                                                   *)
Begun(c) == child[c] \notin {"none", "reaped"}

MatchOK ==
  /\ \A c \in Children :
       \/ hpc \in Marking /\ c = reaped
       \/ mpc \in NewProcess /\ c = target
       \/ status[c] \in Unmarked <=> Begun(c)
  /\ mpc \in NewProcess => Begun(target)
  /\ hpc \in Marking => child[reaped] = "reaped"

MatchInv == ParentRuns => MatchOK

SchedInv == ListInv /\ MatchInv

(* Most steps leave the list alone, start nothing and mark nothing.        *)
QuietStep ==
  /\ UNCHANGED <<process_list, status>> /\ SameEnds
  /\ mpc' \in {"start", "fork"} => mpc \in {"start", "fork"} /\ target' = target
  /\ mpc' \in NewProcess => mpc \in NewProcess /\ target' = target
  /\ mpc \in NewProcess => mpc' \in NewProcess \/ ~ParentRuns'
  /\ hpc' \in Marking => reaped' = reaped
  /\ hpc' \in Marking <=> hpc \in Marking
  /\ ParentRuns' => ParentRuns

LEMMA QuietKeepsInv == ASSUME TypeInv, SchedInv, QuietStep PROVE SchedInv'
<1>1. OneRunner'
  BY DEF QuietStep, SchedInv, ListInv, OneRunner, InList
<1>2. StartOK'
  BY DEF QuietStep, SchedInv, ListInv, StartOK, SameEnds, TypeInv, ControlOK, NewProcess
<1>3. ASSUME ParentRuns' PROVE MatchOK'
  <2>1. MatchOK
    BY <1>3 DEF QuietStep, SchedInv, MatchInv
  <2>2. mpc' \in NewProcess <=> mpc \in NewProcess
    BY <1>3 DEF QuietStep
  <2>3. \A c \in Children : Begun(c)' <=> Begun(c)
    BY DEF QuietStep, SameEnds, Begun
  <2> QED BY <2>1, <2>2, <2>3 DEF QuietStep, MatchOK, SameEnds, TypeInv, ControlOK, NewProcess
<1> QED BY <1>1, <1>2, <1>3 DEF SchedInv, ListInv, MatchInv

(* A switch keeps one runner, and marks nothing.                           *)
LEMMA SwitchKeepsRunner ==
  ASSUME TypeOK, OneRunner, sigalrm_handler, UNCHANGED process_list PROVE OneRunner'
<1>1. process_list \in Seq(Children) /\ status \in [Children -> Statuses]
  BY DEF TypeOK
<1>2. CASE ~CanSwitch(process_list, status)
  BY <1>2 DEF sigalrm_handler, OneRunner, InList
<1>3. CASE CanSwitch(process_list, status)
  <2> DEFINE r == src_running(process_list, status)
             w == src_waiting(process_list, status)
  <2>1. r \in Children /\ status[r] = "RUNNING" /\ w \in Children /\ status[w] = "WAITING"
    BY <1>1, <1>3, WaitingFound
  <2>2. status' = [status EXCEPT ![r] = "WAITING", ![w] = "RUNNING"]
    BY <1>3 DEF sigalrm_handler
  <2> HIDE DEF r, w
  <2> QED BY <1>1, <2>1, <2>2 DEF OneRunner, InList
<1> QED BY <1>2, <1>3

SwitchStep ==
  /\ sigalrm_handler /\ UNCHANGED <<process_list, mpc, target, reaped>>
  /\ hpc' \in Marking <=> hpc \in Marking

LEMMA SwitchKeepsInv == ASSUME TypeInv, SchedInv, SwitchStep PROVE SchedInv'
<1>1. OneRunner'
  BY SwitchKeepsRunner DEF TypeInv, SchedInv, ListInv, SwitchStep
<1>2. SwitchOK
  BY SwitchType DEF TypeInv, SwitchStep
<1>3. StartOK'
  BY <1>2 DEF SwitchStep, SwitchOK, SchedInv, ListInv, StartOK, SameEnds, TypeInv, ControlOK,
              NewProcess, Unmarked
<1>4. ASSUME ParentRuns' PROVE MatchOK'
  <2>1. MatchOK
    BY <1>4 DEF SwitchStep, SchedInv, MatchInv
  <2>2. \A c \in Children : Begun(c)' <=> Begun(c)
    BY <1>2 DEF SwitchOK, SameEnds, Begun
  <2>3. \A c \in Children : status'[c] \in Unmarked <=> status[c] \in Unmarked
    BY <1>2 DEF SwitchOK
  <2> QED BY <1>2, <2>1, <2>2, <2>3
          DEF SwitchStep, SwitchOK, MatchOK, SameEnds, TypeInv, ControlOK, NewProcess
<1> QED BY <1>1, <1>3, <1>4 DEF SchedInv, ListInv, MatchInv

-----------------------------------------------------------------------------
(* Steps of the main program that are quiet.                               *)
LEMMA QuietMain ==
  ASSUME TypeInv, MainStep, ~Fork, ~process_list_add, ~CleanNode PROVE QuietStep
<1> USE DEF QuietStep, SameEnds, NewProcess, Marking
<1>1. CASE EnterFgets
  BY <1>1 DEF EnterFgets
<1>2. CASE TermCont
  BY <1>2, KillType, SignalsKeepEnds DEF TermCont, TypeInv, ControlOK
<1>3. CASE TermTerm
  BY <1>3, KillType, SignalsKeepEnds DEF TermTerm, TypeInv, ControlOK
<1>4. CASE StartBlock
  BY <1>4 DEF StartBlock
<1>5. CASE StartUnblock
  BY <1>5 DEF StartUnblock
<1>6. CASE ForkFails
  BY <1>6 DEF ForkFails
<1>7. CASE StopNew
  <2>1. CASE src_running(process_list, status) # NoChild
    BY <1>7, <2>1, KillType, SignalsKeepEnds DEF StopNew, TypeInv, ControlOK
  <2>2. CASE src_running(process_list, status) = NoChild
    BY <1>7, <2>2 DEF StopNew
  <2> QED BY <2>1, <2>2
<1>8. CASE PrintBlock
  BY <1>8 DEF PrintBlock
<1>9. CASE PrintNode
  BY <1>9 DEF PrintNode
<1>10. CASE PrintUnblock
  BY <1>10 DEF PrintUnblock
<1>11. CASE CheckFlag
  BY <1>11 DEF CheckFlag
<1>12. CASE CleanDone
  BY <1>12 DEF CleanDone
<1>13. CASE TestFlag
  BY <1>13 DEF TestFlag
<1>14. CASE KillNode
  <2>1. process_list[at] \in Children
    BY <1>14 DEF KillNode, TypeInv, TypeOK, ControlOK
  <2>2. CASE status[process_list[at]] # "DELETE"
    BY <1>14, <2>1, <2>2, KillType, SignalsKeepEnds DEF KillNode, TypeInv
  <2>3. CASE status[process_list[at]] = "DELETE"
    <3>1. UNCHANGED <<child, pending>>
      BY <1>14, <2>3 DEF KillNode
    <3> QED BY <1>14, <3>1 DEF KillNode
  <2> QED BY <2>2, <2>3
<1>15. CASE KilledAll
  BY <1>15 DEF KilledAll
<1>16. CASE FreeNode
  BY <1>16 DEF FreeNode
<1>17. CASE Leave
  BY <1>17 DEF Leave
<1> QED BY <1>1, <1>2, <1>3, <1>4, <1>5, <1>6, <1>7, <1>8, <1>9, <1>10, <1>11, <1>12, <1>13,
           <1>14, <1>15, <1>16, <1>17 DEF MainStep

(* fork: the child has begun, and its node is still to come.               *)
LEMMA ForkKeepsInv == ASSUME TypeInv, SchedInv, Fork PROVE SchedInv'
<1> USE DEF Fork, TypeInv, ControlOK
<1>1. child \in [Children -> ChildStates] /\ target \in Children
  BY DEF TypeOK
<1>2. /\ child' = [child EXCEPT ![target] = "run"] /\ mpc = "fork" /\ mpc' = "stop"
      /\ hpc = "none" /\ hpc' = "none"
      /\ UNCHANGED <<process_list, status, target, reaped>>
  OBVIOUS
<1>3. OneRunner'
  BY <1>2 DEF SchedInv, ListInv, OneRunner, InList
<1>4. StartOK'
  BY <1>1, <1>2 DEF SchedInv, ListInv, StartOK, NewProcess, Marking
<1>5. MatchOK'
  BY <1>1, <1>2 DEF SchedInv, ListInv, StartOK, MatchInv, MatchOK, Begun, NewProcess, Marking
<1> QED BY <1>3, <1>4, <1>5 DEF SchedInv, ListInv, MatchInv

(* The new node is the only one of its process, and runs if no other does. *)
LEMMA AddKeepsInv == ASSUME TypeInv, SchedInv, process_list_add PROVE SchedInv'
<1> DEFINE new == StatusOfNew(process_list, status)
<1>1. /\ process_list \in Seq(Children) /\ status \in [Children -> Statuses]
      /\ target \in Children /\ status[target] = "NONE"
  BY DEF process_list_add, TypeInv, TypeOK, ControlOK, SchedInv, ListInv, StartOK, NewProcess
<1>2. /\ process_list' = Append(process_list, target)
      /\ status' = [status EXCEPT ![target] = new]
      /\ mpc = "add" /\ mpc' = "started" /\ hpc = "none" /\ hpc' = "none"
      /\ UNCHANGED <<child, target, reaped>>
  BY DEF process_list_add
<1>3. new \in Unmarked
  BY DEF StatusOfNew, Unmarked
<1>4. new = "RUNNING" => \A c \in Children : status[c] # "RUNNING"
  <2>1. SUFFICES ASSUME new = "RUNNING", NEW c \in Children, status[c] = "RUNNING" PROVE FALSE
    OBVIOUS
  <2>2. src_running(process_list, status) = NoChild
    BY <2>1 DEF StatusOfNew
  <2>3. PICK k \in DOMAIN process_list : process_list[k] = c
    BY <2>1 DEF SchedInv, ListInv, OneRunner, InList
  <2> QED BY <1>1, <2>1, <2>2, <2>3, RunningFound
<1> HIDE DEF new
<1>5. /\ DOMAIN process_list' = 1 .. Len(process_list) + 1
      /\ \A k \in 1 .. Len(process_list) : process_list'[k] = process_list[k]
      /\ process_list'[Len(process_list) + 1] = target
      /\ DOMAIN process_list = 1 .. Len(process_list) /\ Len(process_list) \in Nat
  BY <1>1, <1>2
<1>6. OneRunner'
  <2>1. \A c, d \in Children : status'[c] = "RUNNING" /\ status'[d] = "RUNNING" => c = d
    BY <1>1, <1>2, <1>4 DEF SchedInv, ListInv, OneRunner
  <2>2. \A k \in 1 .. Len(process_list) : process_list[k] # target
    BY <1>1, <1>5 DEF SchedInv, ListInv, OneRunner, InList
  <2>3. \A j, k \in DOMAIN process_list' : process_list'[j] = process_list'[k] => j = k
    BY <1>5, <2>2 DEF SchedInv, ListInv, OneRunner
  <2>4. InList' = InList \cup {target}
    BY <1>5 DEF InList
  <2>5. \A c \in Children : c \in InList' <=> status'[c] # "NONE"
    BY <1>1, <1>2, <1>3, <2>4 DEF SchedInv, ListInv, OneRunner, Unmarked
  <2> QED BY <2>1, <2>3, <2>5 DEF OneRunner
<1>7. ParentRuns /\ MatchOK
  BY <1>2 DEF SchedInv, MatchInv
<1>8. Begun(target)
  BY <1>2, <1>7 DEF MatchOK, NewProcess
<1>9. StartOK'
  BY <1>1, <1>2, <1>3, <1>8 DEF SchedInv, ListInv, StartOK, NewProcess, Marking, Begun
<1>10. MatchOK'
  BY <1>1, <1>2, <1>3, <1>7, <1>8 DEF MatchOK, NewProcess, Marking, Begun
<1> QED BY <1>6, <1>9, <1>10 DEF SchedInv, ListInv, MatchInv

(* Taking out a marked node leaves the others.                             *)
LEMMA CleanKeepsInv == ASSUME TypeInv, SchedInv, CleanNode PROVE SchedInv'
<1> DEFINE list == process_list
           dead == process_list[at]
<1>1. /\ list \in Seq(Children) /\ status \in [Children -> Statuses] /\ at \in DOMAIN list
      /\ dead \in Children /\ DOMAIN list = 1 .. Len(list) /\ Len(list) \in Nat
  BY DEF CleanNode, TypeInv, TypeOK, ControlOK
<1>2. /\ mpc = "clean" /\ mpc' = mpc /\ hpc = "none" /\ hpc' = hpc
      /\ UNCHANGED <<child, target, reaped>>
  BY DEF CleanNode
<1>3. CASE status[dead] # "DELETE"
  <2>1. UNCHANGED <<process_list, status>>
    BY <1>3 DEF CleanNode
  <2>2. QuietStep
    BY <1>2, <2>1 DEF QuietStep, SameEnds, NewProcess, Marking
  <2> QED BY <2>2, QuietKeepsInv
<1>4. CASE status[dead] = "DELETE"
  <2>1. process_list' = Without(list, at) /\ status' = [status EXCEPT ![dead] = "NONE"]
    BY <1>4 DEF CleanNode, Without
  <2>2. /\ DOMAIN process_list' = 1 .. Len(list) - 1
        /\ \A j \in 1 .. Len(list) - 1 :
             process_list'[j] = IF j < at THEN list[j] ELSE list[j + 1]
    <3> HIDE DEF list
    <3> QED BY <1>1, <2>1, WithoutNode
  <2>3. \A c, d \in Children : status'[c] = "RUNNING" /\ status'[d] = "RUNNING" => c = d
    BY <1>1, <2>1 DEF SchedInv, ListInv, OneRunner
  <2>4. \A j, k \in DOMAIN list : list[j] = list[k] => j = k
    BY DEF SchedInv, ListInv, OneRunner
  <2>5. \A j, k \in DOMAIN process_list' : process_list'[j] = process_list'[k] => j = k
    <3> DEFINE pos(j) == IF j < at THEN j ELSE j + 1
    <3>1. \A j \in 1 .. Len(list) - 1 : pos(j) \in 1 .. Len(list) /\ process_list'[j] = list[pos(j)]
      BY <1>1, <2>2
    <3>2. \A j, k \in 1 .. Len(list) - 1 : pos(j) = pos(k) => j = k
      BY <1>1
    <3> HIDE DEF pos, list
    <3> QED BY <1>1, <2>2, <2>4, <3>1, <3>2
  <2>6. InList' = InList \ {dead}
    <3>1. ASSUME NEW j \in 1 .. Len(list) - 1 PROVE process_list'[j] \in InList \ {dead}
      <4>1. CASE j < at
        BY <4>1, <1>1, <2>2, <2>4 DEF InList
      <4>2. CASE ~(j < at)
        BY <4>2, <1>1, <2>2, <2>4 DEF InList
      <4> QED BY <4>1, <4>2
    <3>2. ASSUME NEW k \in DOMAIN list, k # at PROVE list[k] \in InList'
      <4>1. CASE k < at
        <5>1. k \in 1 .. Len(list) - 1 /\ process_list'[k] = list[k]
          BY <4>1, <1>1, <2>2
        <5> QED BY <5>1, <2>2 DEF InList
      <4>2. CASE k > at
        <5>1. k - 1 \in 1 .. Len(list) - 1 /\ ~(k - 1 < at) /\ (k - 1) + 1 = k
          BY <4>2, <1>1
        <5>2. process_list'[k - 1] = list[k]
          BY <5>1, <2>2
        <5> QED BY <5>1, <5>2, <2>2 DEF InList
      <4> QED BY <4>1, <4>2, <3>2, <1>1
    <3> QED BY <3>1, <3>2, <2>2 DEF InList
  <2>7. \A c \in Children : c \in InList' <=> status'[c] # "NONE"
    BY <1>1, <2>1, <2>6 DEF SchedInv, ListInv, OneRunner
  <2>8. OneRunner'
    BY <2>3, <2>5, <2>7 DEF OneRunner
  <2>9. StartOK'
    BY <1>1, <1>2, <2>1 DEF SchedInv, ListInv, StartOK, NewProcess, Marking
  <2>10. MatchOK'
    BY <1>1, <1>2, <1>4, <2>1 DEF SchedInv, MatchInv, MatchOK, NewProcess, Marking, Begun, Unmarked
  <2> QED BY <2>8, <2>9, <2>10 DEF SchedInv, ListInv, MatchInv
<1> QED BY <1>3, <1>4

-----------------------------------------------------------------------------
(* waitpid: the process reaped has a node that is not marked, for SIGCHLD  *)
(* is blocked while a process has begun and has none.                      *)
LEMMA ReapKeepsInv == ASSUME TypeInv, SchedInv, Reap PROVE SchedInv'
<1>1. PICK c \in Children :
        /\ child[c] = "zombie"
        /\ child' = [child EXCEPT ![c] = "reaped"]
        /\ reaped' = src_pid(status, c)
        /\ hpc' = IF src_pid(status, c) = NoChild THEN "none"
                  ELSE IF status[c] = "RUNNING" THEN "unblock" ELSE "mark"
  BY DEF Reap
<1>2. /\ hpc = "reap" /\ ParentRuns /\ child \in [Children -> ChildStates]
      /\ UNCHANGED <<process_list, status, mpc, target>> /\ mpc \notin NewProcess
  BY DEF Reap, TypeInv, TypeOK, ControlOK, NewProcess
<1>3. MatchOK
  BY <1>2 DEF SchedInv, MatchInv
<1>4. status[c] \in Unmarked
  BY <1>1, <1>2, <1>3 DEF MatchOK, Begun, Marking
<1>5. reaped' = c /\ hpc' \in Marking
  BY <1>1, <1>4, NoChildAssumption DEF src_pid, Unmarked, Marking
<1>6. OneRunner'
  BY <1>2 DEF SchedInv, ListInv, OneRunner, InList
<1>7. StartOK'
  <2>1. \A d \in Children : child'[d] = "none" => status'[d] = "NONE"
    BY <1>1, <1>2 DEF SchedInv, ListInv, StartOK
  <2>2. mpc' \in {"start", "fork"} => child'[target'] = "none"
    BY <1>1, <1>2 DEF SchedInv, ListInv, StartOK, TypeInv, ControlOK
  <2>3. mpc' \notin NewProcess /\ status'[reaped'] \in Unmarked
    BY <1>2, <1>4, <1>5
  <2> QED BY <2>1, <2>2, <2>3 DEF StartOK
<1>8. MatchOK'
  <2>1. ASSUME NEW d \in Children, d # c PROVE status'[d] \in Unmarked <=> Begun(d)'
    BY <1>1, <1>2, <1>3, <2>1 DEF MatchOK, Begun, Marking
  <2>2. child'[reaped'] = "reaped"
    BY <1>1, <1>2, <1>5
  <2> QED BY <1>2, <1>5, <2>1, <2>2 DEF MatchOK
<1> QED BY <1>6, <1>7, <1>8 DEF SchedInv, ListInv, MatchInv

(* Marking the reaped process takes it out of the nodes that count.        *)
LEMMA MarkKeepsInv == ASSUME TypeInv, SchedInv, Mark PROVE SchedInv'
<1>1. /\ hpc = "mark" /\ hpc' = "none" /\ ParentRuns /\ reaped \in Children
      /\ status' = [status EXCEPT ![reaped] = "DELETE"] /\ status \in [Children -> Statuses]
      /\ UNCHANGED <<process_list, mpc, target, child>>
  BY DEF Mark, TypeInv, TypeOK, ControlOK, Marking
<1>2. status[reaped] \in Unmarked
  BY <1>1 DEF SchedInv, ListInv, StartOK, Marking
<1>3. MatchOK /\ child[reaped] = "reaped"
  BY <1>1 DEF SchedInv, MatchInv, MatchOK, Marking
<1>4. OneRunner'
  BY <1>1, <1>2 DEF SchedInv, ListInv, OneRunner, InList, Unmarked
<1>5. mpc \notin NewProcess
  BY <1>1 DEF TypeInv, ControlOK, NewProcess
<1>6. StartOK'
  BY <1>1, <1>3, <1>5 DEF SchedInv, ListInv, StartOK, Marking
<1>7. MatchOK'
  BY <1>1, <1>3, <1>5 DEF MatchOK, Marking, Begun, Unmarked
<1> QED BY <1>4, <1>6, <1>7 DEF SchedInv, ListInv, MatchInv

(* A step of a handler.                                                    *)
LEMMA HandlerKeepsInv ==
  ASSUME TypeInv, SchedInv, HandlerStep \/ AlarmDelivered \/ ChldDelivered \/ Crashes
  PROVE  SchedInv'
<1> USE DEF Marking
<1>1. CASE NoneToReap \/ Block \/ ChldDelivered
  <2>1. QuietStep
    BY <1>1 DEF NoneToReap, Block, ChldDelivered, QuietStep, SameEnds, NewProcess
  <2> QED BY <2>1, QuietKeepsInv
<1>2. CASE Crashes
  <2>1. QuietStep
    BY <1>2 DEF Crashes, ReadsFreed, QuietStep, SameEnds, NewProcess
  <2> QED BY <2>1, QuietKeepsInv
<1>3. CASE Unblock
  <2>1. CASE "ALRM" \in pending
    <3>1. SwitchStep
      BY <1>3, <2>1 DEF Unblock, SwitchStep
    <3> QED BY <3>1, SwitchKeepsInv
  <2>2. CASE "ALRM" \notin pending
    <3>1. /\ hpc = "unblock" /\ hpc' = "raise"
          /\ UNCHANGED <<process_list, status, kernel, mainVars, reaped>>
      BY <1>3, <2>2 DEF Unblock
    <3>2. QuietStep
      BY <3>1 DEF QuietStep, SameEnds, NewProcess
    <3> QED BY <3>2, QuietKeepsInv
  <2> QED BY <2>1, <2>2
<1>4. CASE Raise
  <2>1. SwitchStep
    BY <1>4 DEF Raise, SwitchStep
  <2> QED BY <2>1, SwitchKeepsInv
<1>5. CASE AlarmDelivered
  <2>1. SwitchStep
    BY <1>5 DEF AlarmDelivered, SwitchStep
  <2> QED BY <2>1, SwitchKeepsInv
<1> QED BY <1>1, <1>2, <1>3, <1>4, <1>5, ReapKeepsInv, MarkKeepsInv DEF HandlerStep

(* A command: only EXEC has a new process in view, and it has not begun.   *)
LEMMA CommandKeepsInv ==
  ASSUME TypeInv, SchedInv, NEW c \in Children, NEW cmd, UserTypes(cmd, c) PROVE SchedInv'
<1>1. /\ mpc = "fgets" /\ hpc = "none" /\ hpc' = "none"
      /\ UNCHANGED <<process_list, status, child, reaped>>
      /\ mpc' \in {"start", "cont", "list", "check"}
      /\ mpc' = "start" => child[c] = "none" /\ target' = c
  BY DEF UserTypes
<1>2. OneRunner'
  BY <1>1 DEF SchedInv, ListInv, OneRunner, InList
<1>3. StartOK'
  BY <1>1 DEF SchedInv, ListInv, StartOK, NewProcess, Marking
<1>4. MatchOK'
  BY <1>1 DEF SchedInv, MatchInv, MatchOK, NewProcess, Marking, Begun
<1> QED BY <1>2, <1>3, <1>4 DEF SchedInv, ListInv, MatchInv

(* The rest of the world.                                                  *)
LEMMA WorldKeepsInv ==
  ASSUME TypeInv, SchedInv, AlarmExpires \/ Environment \/ Terminated PROVE SchedInv'
<1> USE DEF Marking, NewProcess
<1>1. CASE AlarmExpires
  <2>1. QuietStep
    BY <1>1 DEF AlarmExpires, QuietStep, SameEnds
  <2> QED BY <2>1, QuietKeepsInv
<1>2. ASSUME NEW c \in Children, ChildEnds(c) PROVE SchedInv'
  <2>1. QuietStep
    BY <1>2, KillType, SignalsKeepEnds DEF ChildEnds, QuietStep, TypeInv
  <2> QED BY <2>1, QuietKeepsInv
<1>3. CASE SpuriousChld
  <2>1. QuietStep
    BY <1>3 DEF SpuriousChld, QuietStep, SameEnds
  <2> QED BY <2>1, QuietKeepsInv
<1>4. ASSUME NEW sig \in TermSignals, TermSignal(sig) PROVE SchedInv'
  <2>1. QuietStep
    BY <1>4 DEF TermSignal, WaitpidBlocks, QuietStep, SameEnds
  <2> QED BY <2>1, QuietKeepsInv
<1>5. CASE Terminated
  <2>1. QuietStep
    BY <1>5 DEF Terminated, vars, QuietStep, SameEnds
  <2> QED BY <2>1, QuietKeepsInv
<1> QED BY <1>1, <1>2, <1>3, <1>4, <1>5, CommandKeepsInv DEF Environment

-----------------------------------------------------------------------------
LEMMA SchedInit == Init => SchedInv
<1> SUFFICES ASSUME Init PROVE SchedInv
  OBVIOUS
<1>1. OneRunner
  BY DEF Init, OneRunner, InList
<1>2. StartOK
  BY DEF Init, StartOK, NewProcess, Marking
<1>3. MatchOK
  BY DEF Init, MatchOK, NewProcess, Marking, Begun, Unmarked
<1> QED BY <1>1, <1>2, <1>3 DEF SchedInv, ListInv, MatchInv

LEMMA SchedStep == TypeInv /\ SchedInv /\ [Next]_vars => SchedInv'
<1> SUFFICES ASSUME TypeInv, SchedInv, [Next]_vars PROVE SchedInv'
  OBVIOUS
<1>1. CASE MainStep
  <2>1. CASE ~Fork /\ ~process_list_add /\ ~CleanNode
    BY <1>1, <2>1, QuietMain, QuietKeepsInv
  <2> QED BY <2>1, ForkKeepsInv, AddKeepsInv, CleanKeepsInv
<1>2. CASE UNCHANGED vars
  <2>1. QuietStep
    BY <1>2 DEF vars, QuietStep, SameEnds
  <2> QED BY <2>1, QuietKeepsInv
<1> QED BY <1>1, <1>2, HandlerKeepsInv, WorldKeepsInv DEF Next

LEMMA SchedInvAlways == Spec => [](TypeInv /\ SchedInv)
  BY TypeInit, TypeStep, SchedInit, SchedStep, PTL DEF Spec

(* At most one node is running, a process has one node at most, and the    *)
(* nodes are the pids in the list: the switch, the insertion, the marking  *)
(* and the deletion keep this at every point where a signal may be handled.*)
THEOREM OneRunnerAlways == Spec => []OneRunner
<1>1. SchedInv => OneRunner
  BY DEF SchedInv, ListInv
<1> QED BY <1>1, SchedInvAlways, PTL

(* No process is lost and none is signalled after it has been reaped: the  *)
(* unmarked nodes are the children that have begun and are not reaped,     *)
(* outside the windows in which SIGCHLD is blocked or its handler runs.    *)
THEOREM ListAlwaysMatches == Spec => []ListMatchesChildren
<1>1. TypeInv /\ SchedInv => ListMatchesChildren
  <2> SUFFICES ASSUME TypeInv, SchedInv,
                      ParentRuns, hpc \in {"none", "reap"}, mpc \notin NewProcess
               PROVE  {c \in Children : status[c] \in Unmarked}
                        = {c \in Children : child[c] \in Alive \cup {"zombie"}}
    BY DEF ListMatchesChildren, NewProcess, Unmarked
  <2>1. \A c \in Children : status[c] \in Unmarked <=> Begun(c)
    BY DEF SchedInv, MatchInv, MatchOK, Marking
  <2>2. \A c \in Children : Begun(c) <=> child[c] \in Alive \cup {"zombie"}
    BY DEF TypeInv, TypeOK, Begun, Alive
  <2> QED BY <2>1, <2>2
<1> QED BY <1>1, SchedInvAlways, PTL

-----------------------------------------------------------------------------
(* Which signals the main program has blocked depends on where it is.  A   *)
(* listing holds off SIGALRM and SIGCHLD, and no handler runs during one;  *)
(* nothing else holds off SIGALRM.  Only a failed fork leaves SIGCHLD      *)
(* blocked, and the program kills its children then and leaves.            *)
Ending == {"killall", "destroy", "leave", "exited", "killed"}

MaskOK ==
  /\ mpc = "print" => mask = {"ALRM", "CHLD"} /\ hpc = "none"
  /\ mpc # "print" => "ALRM" \notin mask
  /\ mpc \notin {"print", "fork", "stop", "add", "started"} \cup Ending => mask = {}

LEMMA MaskInit == Init => MaskOK
  BY DEF Init, MaskOK

LEMMA MaskMain == ASSUME TypeInv, MaskOK, MainStep PROVE MaskOK'
<1> USE DEF MaskOK, Ending
<1>1. CASE EnterFgets \/ TermCont \/ TermTerm
  BY <1>1 DEF EnterFgets, TermCont, TermTerm
<1>2. CASE StartBlock \/ Fork \/ ForkFails \/ StopNew
  BY <1>2 DEF StartBlock, Fork, ForkFails, StopNew
<1>3. CASE process_list_add
  BY <1>3 DEF process_list_add
<1>4. CASE StartUnblock
  <2>1. mask \subseteq {"ALRM", "CHLD"} /\ "ALRM" \notin mask
    BY <1>4 DEF StartUnblock, TypeInv, TypeOK
  <2> QED BY <1>4, <2>1 DEF StartUnblock
<1>5. CASE PrintBlock \/ PrintNode \/ PrintUnblock
  BY <1>5 DEF PrintBlock, PrintNode, PrintUnblock
<1>6. CASE CheckFlag \/ CleanDone \/ TestFlag
  BY <1>6 DEF CheckFlag, CleanDone, TestFlag
<1>7. CASE CleanNode
  BY <1>7 DEF CleanNode
<1>8. CASE KillNode \/ KilledAll \/ FreeNode \/ Leave
  BY <1>8 DEF KillNode, KilledAll, FreeNode, Leave
<1> QED BY <1>1, <1>2, <1>3, <1>4, <1>5, <1>6, <1>7, <1>8 DEF MainStep

LEMMA MaskStep == TypeInv /\ MaskOK /\ [Next]_vars => MaskOK'
<1> SUFFICES ASSUME TypeInv, MaskOK, [Next]_vars PROVE MaskOK'
  OBVIOUS
<1> USE DEF MaskOK, Ending
<1>1. CASE HandlerStep
  BY <1>1 DEF HandlerStep, Reap, NoneToReap, Unblock, Raise, Block, Mark
<1>2. CASE AlarmDelivered \/ ChldDelivered
  BY <1>2 DEF AlarmDelivered, ChldDelivered
<1>3. CASE Crashes
  BY <1>3 DEF Crashes, ReadsFreed
<1>4. CASE AlarmExpires \/ SpuriousChld
  BY <1>4 DEF AlarmExpires, SpuriousChld
<1>5. ASSUME NEW c \in Children, NEW cmd, UserTypes(cmd, c) PROVE MaskOK'
  BY <1>5 DEF UserTypes
<1>6. ASSUME NEW c \in Children, ChildEnds(c) PROVE MaskOK'
  BY <1>6 DEF ChildEnds
<1>7. ASSUME NEW sig, TermSignal(sig) PROVE MaskOK'
  BY <1>7 DEF TermSignal, StartWindow
<1>8. CASE Terminated \/ UNCHANGED vars
  BY <1>8 DEF Terminated, vars
<1> QED BY <1>1, <1>2, <1>3, <1>4, <1>5, <1>6, <1>7, <1>8, MaskMain DEF Next, Environment

-----------------------------------------------------------------------------
(* What a signal leaves of the children.                                   *)
LEMMA KillChild ==
  ASSUME TypeOK, NEW c \in Children, NEW sig, kill(c, sig)
  PROVE  \A d \in Children : child'[d] = IF d = c THEN sig[child[c]] ELSE child[d]
  BY DEF kill, TypeOK

LEMMA SignalResults ==
  ASSUME NEW s \in ChildStates
  PROVE  /\ SIGSTOP[s] # "run" /\ SIGTERM[s] # "run"
         /\ SIGCONT[s] \notin {"stopped", "doomed"}
         /\ SIGTERM[s] \in {"stopped", "doomed"} => s \in {"stopped", "doomed"}
         /\ SIGKILL[s] \notin Alive /\ (s \notin Alive => SIGKILL[s] = s)
         /\ \A sig \in {SIGSTOP, SIGCONT, SIGTERM} : sig[s] \in Alive => s \in Alive
  BY DEF SIGSTOP, SIGCONT, SIGTERM, SIGKILL, Alive

(* What a switch leaves of the runner and of the others.                   *)
Held == {"stopped", "doomed"}

LEMMA SwitchChild ==
  ASSUME TypeOK, sigalrm_handler
  PROVE  /\ (\E c \in Children : status[c] = "RUNNING") <=> (\E c \in Children : status'[c] = "RUNNING")
         /\ \A c \in Children :
              \/ status'[c] = status[c] /\ child'[c] = child[c]
              \/ status[c] \in Unmarked /\ status'[c] = "WAITING" /\ child'[c] # "run"
              \/ status[c] \in Unmarked /\ status'[c] = "RUNNING" /\ child'[c] \notin Held
         /\ \A c \in Children : child'[c] \in Alive => child[c] \in Alive
<1>1. /\ process_list \in Seq(Children) /\ status \in [Children -> Statuses]
      /\ child \in [Children -> ChildStates]
  BY DEF TypeOK
<1>2. CASE ~CanSwitch(process_list, status)
  BY <1>1, <1>2 DEF sigalrm_handler
<1>3. CASE CanSwitch(process_list, status)
  <2> DEFINE r == src_running(process_list, status)
             w == src_waiting(process_list, status)
  <2>1. r \in Children /\ status[r] = "RUNNING" /\ w \in Children /\ status[w] = "WAITING"
    BY <1>1, <1>3, WaitingFound
  <2>2. /\ status' = [status EXCEPT ![r] = "WAITING", ![w] = "RUNNING"]
        /\ child' = [child EXCEPT ![r] = SIGSTOP[@], ![w] = SIGCONT[@]]
    BY <1>3 DEF sigalrm_handler
  <2> HIDE DEF r, w
  <2>3. /\ status'[r] = "WAITING" /\ status'[w] = "RUNNING"
        /\ child'[r] = SIGSTOP[child[r]] /\ child'[w] = SIGCONT[child[w]]
        /\ \A c \in Children \ {r, w} : status'[c] = status[c] /\ child'[c] = child[c]
    BY <1>1, <2>1, <2>2
  <2>4. SIGSTOP[child[r]] # "run" /\ SIGCONT[child[w]] \notin Held
    BY <1>1, <2>1, SignalResults DEF Held
  <2>5. /\ SIGSTOP[child[r]] \in Alive => child[r] \in Alive
        /\ SIGCONT[child[w]] \in Alive => child[w] \in Alive
    BY <1>1, <2>1, SignalResults
  <2> QED BY <2>1, <2>3, <2>4, <2>5 DEF Unmarked
<1> QED BY <1>2, <1>3

-----------------------------------------------------------------------------
(* OnlyTheRunnerRuns, and what it needs of a process being started: it is  *)
(* not stopped before start_process has looked for a runner, and when its  *)
(* node is added it is in the state of the node it will get.  The alarm    *)
(* may strike in between, but a switch leaves a runner where there was one.*)
Runner == \E c \in Children : status[c] = "RUNNING"

RunnerOK ==
  /\ \A c \in Children : status[c] = "RUNNING" => child[c] \notin Held
  /\ \A c \in Children : status[c] = "WAITING" /\ child[c] = "run" => mpc = "term" /\ c = target
  /\ mpc = "stop" => child[target] \notin Held
  /\ mpc = "add" => IF Runner THEN child[target] # "run" ELSE child[target] \notin Held

LEMMA RunnerInit == Init => RunnerOK
  BY DEF Init, RunnerOK

(* Most steps leave the nodes alone, and at most end a child.              *)
CalmStep ==
  /\ UNCHANGED status
  /\ \A c \in Children : child'[c] = child[c] \/ child'[c] \notin Alive
  /\ mpc' \in {"stop", "add"} => mpc' = mpc /\ target' = target
  /\ mpc = "term" => mpc' = "term" /\ target' = target

LEMMA CalmKeepsRunner == ASSUME TypeInv, RunnerOK, CalmStep PROVE RunnerOK'
<1>1. \A c \in Children : /\ child'[c] \in Held => child[c] \in Held
                          /\ child'[c] = "run" => child[c] = "run"
  BY DEF CalmStep, Held, Alive
<1>2. Runner' <=> Runner
  BY DEF CalmStep, Runner
<1>3. mpc \in {"stop", "add"} => target \in Children
  BY DEF TypeInv, ControlOK
<1> QED BY <1>1, <1>2, <1>3 DEF CalmStep, RunnerOK

(* src_running finds a runner if there is one.                             *)
LEMMA RunnerIsFound ==
  ASSUME TypeOK, OneRunner
  PROVE  src_running(process_list, status) = NoChild <=> ~Runner
<1>1. process_list \in Seq(Children) /\ status \in [Children -> Statuses]
  BY DEF TypeOK
<1>2. src_running(process_list, status) = NoChild
        <=> \A k \in DOMAIN process_list : status[process_list[k]] # "RUNNING"
  BY <1>1, RunningFound
<1>3. (\A k \in DOMAIN process_list : status[process_list[k]] # "RUNNING") <=> ~Runner
  BY <1>1 DEF OneRunner, InList, Runner
<1> QED BY <1>2, <1>3

(* The three steps of TERM and of start_process that signal a child.       *)
LEMMA TermKeepsRunner == ASSUME TypeInv, RunnerOK, TermCont \/ TermTerm PROVE RunnerOK'
<1>1. TypeOK /\ target \in Children /\ child[target] \in ChildStates
  BY DEF TypeInv, TypeOK, ControlOK, TermCont, TermTerm
<1>2. CASE TermCont
  <2>1. /\ mpc = "cont" /\ mpc' = "term" /\ kill(target, SIGCONT) /\ UNCHANGED <<status, target>>
    BY <1>2 DEF TermCont
  <2>2. \A d \in Children : child'[d] = IF d = target THEN SIGCONT[child[target]] ELSE child[d]
    BY <1>1, <2>1, KillChild
  <2>3. SIGCONT[child[target]] \notin Held
    BY <1>1, SignalResults DEF Held
  <2> QED BY <2>1, <2>2, <2>3 DEF RunnerOK
<1>3. CASE TermTerm
  <2>1. /\ mpc = "term" /\ mpc' = "check" /\ kill(target, SIGTERM) /\ UNCHANGED <<status, target>>
    BY <1>3 DEF TermTerm
  <2>2. \A d \in Children : child'[d] = IF d = target THEN SIGTERM[child[target]] ELSE child[d]
    BY <1>1, <2>1, KillChild
  <2>3. /\ SIGTERM[child[target]] # "run"
        /\ SIGTERM[child[target]] \in Held => child[target] \in Held
    BY <1>1, SignalResults DEF Held
  <2> QED BY <2>1, <2>2, <2>3 DEF RunnerOK
<1> QED BY <1>2, <1>3

LEMMA StartKeepsRunner ==
  ASSUME TypeInv, SchedInv, RunnerOK, Fork \/ StopNew \/ process_list_add PROVE RunnerOK'
<1>1. /\ TypeOK /\ OneRunner /\ target \in Children /\ child[target] \in ChildStates
      /\ status \in [Children -> Statuses] /\ child \in [Children -> ChildStates]
  BY DEF TypeInv, TypeOK, ControlOK, SchedInv, ListInv, Fork, StopNew, process_list_add
<1>2. CASE Fork
  <2>1. /\ mpc = "fork" /\ mpc' = "stop" /\ child' = [child EXCEPT ![target] = "run"]
        /\ UNCHANGED <<status, target>> /\ status[target] = "NONE"
    BY <1>1, <1>2 DEF Fork, SchedInv, ListInv, StartOK
  <2> QED BY <1>1, <2>1 DEF RunnerOK, Held
<1>3. CASE StopNew
  <2>1. mpc = "stop" /\ mpc' = "add" /\ UNCHANGED <<status, target>> /\ status[target] = "NONE"
    BY <1>3 DEF StopNew, SchedInv, ListInv, StartOK, NewProcess
  <2>2. Runner' <=> Runner
    BY <2>1 DEF Runner
  <2>3. CASE Runner
    <3>1. kill(target, SIGSTOP)
      BY <1>1, <1>3, <2>3, RunnerIsFound DEF StopNew
    <3>2. \A d \in Children : child'[d] = IF d = target THEN SIGSTOP[child[target]] ELSE child[d]
      BY <1>1, <3>1, KillChild
    <3>3. SIGSTOP[child[target]] # "run"
      BY <1>1, SignalResults
    <3> QED BY <1>1, <2>1, <2>2, <2>3, <3>2, <3>3 DEF RunnerOK
  <2>4. CASE ~Runner
    <3>1. child' = child
      BY <1>1, <1>3, <2>4, RunnerIsFound DEF StopNew
    <3> QED BY <2>1, <2>2, <2>4, <3>1 DEF RunnerOK
  <2> QED BY <2>3, <2>4
<1>4. CASE process_list_add
  <2>1. /\ mpc = "add" /\ mpc' = "started" /\ UNCHANGED <<child, target>>
        /\ status' = [status EXCEPT ![target] = StatusOfNew(process_list, status)]
    BY <1>4 DEF process_list_add
  <2>2. StatusOfNew(process_list, status) = IF Runner THEN "WAITING" ELSE "RUNNING"
    BY <1>1, RunnerIsFound DEF StatusOfNew
  <2>3. \A c \in Children : status'[c] = IF c = target THEN (IF Runner THEN "WAITING" ELSE "RUNNING")
                                         ELSE status[c]
    BY <1>1, <2>1, <2>2
  <2>4. CASE Runner
    BY <2>1, <2>3, <2>4 DEF RunnerOK
  <2>5. CASE ~Runner
    BY <2>1, <2>3, <2>5 DEF RunnerOK
  <2> QED BY <2>4, <2>5
<1> QED BY <1>2, <1>3, <1>4

(* A switch stops the one it makes wait and continues the one it runs.     *)
LEMMA SwitchKeepsRunning ==
  ASSUME TypeInv, SchedInv, RunnerOK, sigalrm_handler, UNCHANGED <<mpc, target>> PROVE RunnerOK'
<1>1. TypeOK /\ (mpc \in NewProcess => target \in Children /\ status[target] = "NONE")
  BY DEF TypeInv, ControlOK, SchedInv, ListInv, StartOK, NewProcess
<1>2. /\ Runner' <=> Runner
      /\ \A c \in Children :
           \/ status'[c] = status[c] /\ child'[c] = child[c]
           \/ status[c] \in Unmarked /\ status'[c] = "WAITING" /\ child'[c] # "run"
           \/ status[c] \in Unmarked /\ status'[c] = "RUNNING" /\ child'[c] \notin Held
  BY <1>1, SwitchChild DEF Runner
<1>3. mpc \in NewProcess => child'[target] = child[target]
  BY <1>1, <1>2 DEF Unmarked
<1> QED BY <1>2, <1>3 DEF RunnerOK, NewProcess

LEMMA NodesKeepRunner ==
  ASSUME TypeInv, RunnerOK, CleanNode \/ Mark PROVE RunnerOK'
<1>1. status \in [Children -> Statuses]
  BY DEF TypeInv, TypeOK
<1>2. /\ UNCHANGED <<child, mpc, target>> /\ mpc \notin NewProcess
      /\ \A c \in Children : status'[c] = status[c] \/ status'[c] \in {"NONE", "DELETE"}
  <2>1. CASE CleanNode
    BY <1>1, <2>1 DEF CleanNode, NewProcess
  <2>2. CASE Mark
    BY <1>1, <2>2 DEF Mark, NewProcess, TypeInv, ControlOK
  <2> QED BY <2>1, <2>2
<1> QED BY <1>2 DEF RunnerOK, NewProcess

LEMMA RunnerStep ==
  TypeInv /\ SchedInv /\ MaskOK /\ RunnerOK /\ [Next]_vars => RunnerOK'
<1> SUFFICES ASSUME TypeInv, SchedInv, MaskOK, RunnerOK, [Next]_vars PROVE RunnerOK'
  OBVIOUS
<1> USE DEF CalmStep
<1>1. CASE EnterFgets \/ StartBlock \/ ForkFails \/ StartUnblock \/ PrintBlock \/ PrintNode
           \/ PrintUnblock \/ CheckFlag \/ CleanDone \/ TestFlag \/ KilledAll \/ FreeNode \/ Leave
  <2>1. CalmStep
    BY <1>1 DEF EnterFgets, StartBlock, ForkFails, StartUnblock, PrintBlock, PrintNode,
                PrintUnblock, CheckFlag, CleanDone, TestFlag, KilledAll, FreeNode, Leave
  <2> QED BY <2>1, CalmKeepsRunner
<1>2. CASE KillNode
  <2>1. /\ mpc = "killall" /\ mpc' = mpc /\ UNCHANGED status
        /\ UNCHANGED child \/ kill(process_list[at], SIGKILL)
        /\ process_list[at] \in Children
    BY <1>2 DEF KillNode, TypeInv, TypeOK, ControlOK
  <2>2. \A c \in Children : child'[c] = child[c] \/ child'[c] \notin Alive
    BY <2>1, KillChild, SignalResults DEF TypeInv, TypeOK
  <2> QED BY <2>1, <2>2, CalmKeepsRunner
<1>3. CASE Reap
  <2>1. /\ hpc = "reap" /\ UNCHANGED <<status, mpc, target>>
        /\ \E c \in Children : child' = [child EXCEPT ![c] = "reaped"]
    BY <1>3 DEF Reap
  <2>2. \A c \in Children : child'[c] = child[c] \/ child'[c] \notin Alive
    BY <2>1 DEF TypeInv, TypeOK, Alive
  <2> QED BY <2>1, <2>2, CalmKeepsRunner
<1>4. CASE NoneToReap \/ Block \/ ChldDelivered \/ AlarmExpires \/ SpuriousChld
  <2>1. CalmStep
    BY <1>4 DEF NoneToReap, Block, ChldDelivered, AlarmExpires, SpuriousChld
  <2> QED BY <2>1, CalmKeepsRunner
<1>5. CASE Unblock \/ Raise \/ AlarmDelivered
  <2>1. UNCHANGED <<mpc, target>> /\ (sigalrm_handler \/ UNCHANGED <<status, child>>)
    BY <1>5 DEF Unblock, Raise, AlarmDelivered
  <2>2. CASE sigalrm_handler
    BY <2>1, <2>2, SwitchKeepsRunning
  <2>3. CASE UNCHANGED <<status, child>>
    BY <2>1, <2>3, CalmKeepsRunner
  <2> QED BY <2>1, <2>2, <2>3
<1>6. CASE Crashes
  <2>1. CalmStep
    BY <1>6 DEF Crashes, ReadsFreed
  <2> QED BY <2>1, CalmKeepsRunner
<1>7. ASSUME NEW c \in Children, NEW cmd, UserTypes(cmd, c) PROVE RunnerOK'
  <2>1. CalmStep
    BY <1>7 DEF UserTypes
  <2> QED BY <2>1, CalmKeepsRunner
<1>8. ASSUME NEW c \in Children, ChildEnds(c) PROVE RunnerOK'
  <2>1. UNCHANGED <<status, mpc, target>> /\ kill(c, SIGKILL)
    BY <1>8 DEF ChildEnds
  <2>2. \A d \in Children : child'[d] = child[d] \/ child'[d] \notin Alive
    BY <2>1, KillChild, SignalResults DEF TypeInv, TypeOK
  <2> QED BY <2>1, <2>2, CalmKeepsRunner
<1>9. ASSUME NEW sig, TermSignal(sig) PROVE RunnerOK'
  <2>1. mpc = "term" => mask = {}
    BY DEF MaskOK, Ending
  <2>2. CalmStep
    BY <1>9, <2>1 DEF TermSignal, StartWindow
  <2> QED BY <2>2, CalmKeepsRunner
<1>10. CASE Terminated \/ UNCHANGED vars
  <2>1. CalmStep
    BY <1>10 DEF Terminated, vars
  <2> QED BY <2>1, CalmKeepsRunner
<1> QED BY <1>1, <1>2, <1>3, <1>4, <1>5, <1>6, <1>7, <1>8, <1>9, <1>10,
           TermKeepsRunner, StartKeepsRunner, NodesKeepRunner
        DEF Next, MainStep, HandlerStep, Environment

-----------------------------------------------------------------------------
(* NobodyOutlivesQuit, node by node: nobody before the node the program is *)
(* about to kill is alive, and whoever is alive is still on the list, for  *)
(* the nodes that are marked stand for children that have been reaped.     *)
KillOK ==
  /\ mpc = "killall" => \A k \in DOMAIN process_list : k < at => child[process_list[k]] \notin Alive
  /\ mpc \in {"destroy", "leave", "exited"} => \A c \in Children : child[c] \notin Alive

LEMMA KillInit == Init => KillOK
  BY DEF Init, KillOK

(* A step that neither starts nor ends the killing, and revives nobody.    *)
DeadStep ==
  /\ mpc' \in {"killall", "destroy", "leave", "exited"} => mpc' = mpc
  /\ mpc' = "killall" => UNCHANGED <<process_list, at>>
  /\ mpc \in Ending => \A c \in Children : child'[c] \in Alive => child[c] \in Alive

LEMMA DeadKeepsKilled == ASSUME TypeInv, KillOK, DeadStep PROVE KillOK'
<1>1. \A k \in DOMAIN process_list : process_list[k] \in Children
  BY DEF TypeInv, TypeOK
<1> QED BY <1>1 DEF DeadStep, KillOK, Ending

LEMMA KillNodeKilled ==
  ASSUME TypeInv, SchedInv, KillOK, KillNode PROVE KillOK'
<1>1. /\ TypeOK /\ at \in Nat /\ at \in DOMAIN process_list /\ process_list[at] \in Children
      /\ process_list \in Seq(Children) /\ status \in [Children -> Statuses]
      /\ child \in [Children -> ChildStates] /\ hpc = "none"
  BY DEF KillNode, TypeInv, TypeOK, ControlOK
<1>2. /\ mpc = "killall" /\ mpc' = "killall" /\ at' = at + 1 /\ UNCHANGED process_list
  BY DEF KillNode
<1>3. \A k \in DOMAIN process_list : k < at => child[process_list[k]] \notin Alive
  BY <1>2 DEF KillOK
<1>4. /\ \A c \in Children : child'[c] \in Alive => child[c] \in Alive
      /\ child'[process_list[at]] \notin Alive
  <2>1. CASE status[process_list[at]] # "DELETE"
    <3>1. kill(process_list[at], SIGKILL)
      BY <2>1 DEF KillNode
    <3>2. \A d \in Children : child'[d] = IF d = process_list[at] THEN SIGKILL[child[process_list[at]]]
                                          ELSE child[d]
      BY <1>1, <3>1, KillChild
    <3> QED BY <1>1, <3>2, SignalResults
  <2>2. CASE status[process_list[at]] = "DELETE"
    <3>1. child' = child
      BY <2>2 DEF KillNode
    <3>2. ~Begun(process_list[at])
      BY <1>1, <1>2, <2>2 DEF SchedInv, MatchInv, MatchOK, Marking, NewProcess, Unmarked
    <3> QED BY <3>1, <3>2 DEF Begun, Alive
  <2> QED BY <2>1, <2>2
<1>5. ASSUME NEW k \in DOMAIN process_list, k < at + 1 PROVE child'[process_list[k]] \notin Alive
  <2>1. k \in Nat /\ process_list[k] \in Children /\ (k < at \/ k = at)
    BY <1>1, <1>5
  <2> QED BY <1>3, <1>4, <2>1
<1> QED BY <1>2, <1>5 DEF KillOK

(* When the walk is over it has passed every child that may be alive.      *)
LEMMA KilledAllKilled ==
  ASSUME TypeInv, SchedInv, KillOK, KilledAll PROVE KillOK'
<1>1. /\ mpc = "killall" /\ mpc' = "destroy" /\ hpc = "none" /\ UNCHANGED child
      /\ process_list \in Seq(Children) /\ at \in Nat /\ at > Len(process_list)
  BY DEF KilledAll, TypeInv, TypeOK
<1>2. ASSUME NEW c \in Children, child[c] \in Alive PROVE FALSE
  <2>1. status[c] \in Unmarked
    BY <1>1, <1>2 DEF SchedInv, MatchInv, MatchOK, Marking, NewProcess, Begun, Alive
  <2>2. PICK k \in DOMAIN process_list : process_list[k] = c
    BY <2>1 DEF SchedInv, ListInv, OneRunner, InList, Unmarked
  <2>3. k < at
    BY <1>1
  <2> QED BY <1>1, <1>2, <2>2, <2>3 DEF KillOK
<1> QED BY <1>1, <1>2 DEF KillOK

LEMMA KillStep == TypeInv /\ SchedInv /\ KillOK /\ [Next]_vars => KillOK'
<1> SUFFICES ASSUME TypeInv, SchedInv, KillOK, [Next]_vars PROVE KillOK'
  OBVIOUS
<1> USE DEF DeadStep, Ending
<1>1. CASE EnterFgets \/ StartBlock \/ StartUnblock \/ PrintBlock \/ PrintNode
           \/ PrintUnblock \/ CheckFlag \/ CleanDone
  BY <1>1, DeadKeepsKilled DEF EnterFgets, StartBlock, StartUnblock, PrintBlock, PrintNode,
           PrintUnblock, CheckFlag, CleanDone
<1>2. CASE TermCont \/ TermTerm \/ Fork \/ StopNew \/ process_list_add \/ CleanNode
  <2>1. DeadStep
    BY <1>2 DEF TermCont, TermTerm, Fork, StopNew, process_list_add, CleanNode
  <2> QED BY <2>1, DeadKeepsKilled
<1>3. CASE ForkFails \/ TestFlag
  <2>1. CASE mpc' = "killall"
    <3>1. at' = 1 /\ UNCHANGED process_list
      BY <1>3 DEF ForkFails, TestFlag
    <3>2. \A k \in DOMAIN process_list' : ~(k < at')
      BY <3>1 DEF TypeInv, TypeOK
    <3> QED BY <2>1, <3>2 DEF KillOK
  <2>2. CASE mpc' # "killall"
    <3>1. mpc' = "loop"
      BY <1>3, <2>2 DEF ForkFails, TestFlag
    <3> QED BY <3>1 DEF KillOK
  <2> QED BY <2>1, <2>2
<1>4. CASE FreeNode \/ Leave
  <2>1. /\ mpc \in {"destroy", "leave"} /\ mpc' \in {"destroy", "leave", "exited"} /\ UNCHANGED child
    BY <1>4 DEF FreeNode, Leave
  <2> QED BY <2>1 DEF KillOK
<1>5. CASE Reap
  <2>1. UNCHANGED <<mpc, process_list, at>> /\ \E c \in Children : child' = [child EXCEPT ![c] = "reaped"]
    BY <1>5 DEF Reap
  <2>2. \A c \in Children : child'[c] \in Alive => child[c] \in Alive
    BY <2>1 DEF TypeInv, TypeOK, Alive
  <2> QED BY <2>1, <2>2, DeadKeepsKilled
<1>6. CASE NoneToReap \/ Block \/ Mark \/ ChldDelivered \/ AlarmExpires \/ SpuriousChld
  <2>1. DeadStep
    BY <1>6 DEF NoneToReap, Block, Mark, ChldDelivered, AlarmExpires, SpuriousChld
  <2> QED BY <2>1, DeadKeepsKilled
<1>7. CASE Unblock \/ Raise \/ AlarmDelivered
  <2>1. UNCHANGED <<mpc, process_list, at>> /\ (sigalrm_handler \/ UNCHANGED child)
    BY <1>7 DEF Unblock, Raise, AlarmDelivered
  <2>2. \A c \in Children : child'[c] \in Alive => child[c] \in Alive
    BY <2>1, SwitchChild DEF TypeInv
  <2> QED BY <2>1, <2>2, DeadKeepsKilled
<1>8. CASE Crashes
  BY <1>8, DeadKeepsKilled DEF Crashes
<1>9. ASSUME NEW c \in Children, NEW cmd, UserTypes(cmd, c) PROVE KillOK'
  BY <1>9, DeadKeepsKilled DEF UserTypes
<1>10. ASSUME NEW c \in Children, ChildEnds(c) PROVE KillOK'
  <2>1. UNCHANGED <<mpc, process_list, at>> /\ kill(c, SIGKILL)
    BY <1>10 DEF ChildEnds
  <2>2. \A d \in Children : child'[d] \in Alive => child[d] \in Alive
    BY <2>1, KillChild, SignalResults DEF TypeInv, TypeOK
  <2> QED BY <2>1, <2>2, DeadKeepsKilled
<1>11. ASSUME NEW sig, TermSignal(sig) PROVE KillOK'
  BY <1>11, DeadKeepsKilled DEF TermSignal
<1>12. CASE Terminated \/ UNCHANGED vars
  BY <1>12, DeadKeepsKilled DEF Terminated, vars
<1> QED BY <1>1, <1>2, <1>3, <1>4, <1>5, <1>6, <1>7, <1>8, <1>9, <1>10, <1>11, <1>12,
           KillNodeKilled, KilledAllKilled
        DEF Next, MainStep, HandlerStep, Environment

-----------------------------------------------------------------------------
(* ListShowsOneRunner: what a listing has shown so far is the runner of    *)
(* the moment, because nothing writes a status while the signals are shut  *)
(* out; afterwards it is what the listing showed.                          *)
ShownOK ==
  /\ ListShowsOneRunner
  /\ mpc = "print" => \A c \in shown : status[c] = "RUNNING"

LEMMA ShownInit == Init => ShownOK
  BY DEF Init, ShownOK, ListShowsOneRunner

LEMMA ShownStep ==
  TypeInv /\ SchedInv /\ MaskOK /\ ShownOK /\ [Next]_vars => ShownOK'
<1> SUFFICES ASSUME TypeInv, SchedInv, MaskOK, ShownOK, [Next]_vars PROVE ShownOK'
  OBVIOUS
<1> DEFINE Leaves == UNCHANGED shown /\ (mpc' = "print" => mpc = "print" /\ UNCHANGED status)
<1>1. CASE Leaves
  BY <1>1 DEF ShownOK, ListShowsOneRunner
<1>2. mpc = "print" => hpc = "none" /\ "ALRM" \in mask /\ "CHLD" \in mask
  BY DEF MaskOK
<1>3. CASE PrintBlock \/ CheckFlag
  <2>1. shown' = {}
    BY <1>3 DEF PrintBlock, CheckFlag
  <2> QED BY <2>1 DEF ShownOK, ListShowsOneRunner
<1>4. CASE PrintNode
  <2>1. /\ mpc = "print" /\ UNCHANGED <<mpc, status>> /\ process_list[at] \in Children
        /\ shown \subseteq Children
        /\ shown' = IF status[process_list[at]] = "RUNNING" THEN shown \cup {process_list[at]} ELSE shown
    BY <1>4 DEF PrintNode, TypeInv, TypeOK, ControlOK
  <2>2. \A c \in shown' : c \in Children /\ status[c] = "RUNNING"
    BY <2>1 DEF ShownOK
  <2>3. \A c, d \in shown' : c = d
    BY <2>2 DEF SchedInv, ListInv, OneRunner
  <2> QED BY <2>1, <2>2, <2>3 DEF ShownOK, ListShowsOneRunner
<1>5. CASE EnterFgets \/ TermCont \/ TermTerm \/ StartBlock \/ Fork \/ ForkFails \/ StopNew
           \/ process_list_add \/ StartUnblock \/ PrintUnblock
  <2>1. Leaves
    BY <1>5 DEF EnterFgets, TermCont, TermTerm, StartBlock, Fork, ForkFails, StopNew,
                process_list_add, StartUnblock, PrintUnblock
  <2> QED BY <2>1, <1>1
<1>6. CASE CleanNode \/ CleanDone \/ TestFlag \/ KillNode \/ KilledAll \/ FreeNode \/ Leave
  <2>1. Leaves
    BY <1>6 DEF CleanNode, CleanDone, TestFlag, KillNode, KilledAll, FreeNode, Leave
  <2> QED BY <2>1, <1>1
<1>7. CASE HandlerStep \/ AlarmDelivered \/ ChldDelivered
  <2>1. UNCHANGED <<shown, mpc>> /\ mpc # "print"
    BY <1>2, <1>7 DEF HandlerStep, Reap, NoneToReap, Unblock, Raise, Block, Mark,
                      AlarmDelivered, ChldDelivered
  <2> QED BY <2>1, <1>1
<1>8. CASE Crashes \/ AlarmExpires \/ SpuriousChld
  BY <1>1, <1>8 DEF Crashes, AlarmExpires, SpuriousChld
<1>9. ASSUME NEW c \in Children, NEW cmd, UserTypes(cmd, c) PROVE ShownOK'
  BY <1>1, <1>9 DEF UserTypes
<1>10. ASSUME NEW c \in Children, ChildEnds(c) PROVE ShownOK'
  BY <1>1, <1>10 DEF ChildEnds
<1>11. ASSUME NEW sig, TermSignal(sig) PROVE ShownOK'
  BY <1>1, <1>11 DEF TermSignal
<1>12. CASE Terminated \/ UNCHANGED vars
  BY <1>1, <1>12 DEF Terminated, vars
<1> QED BY <1>3, <1>4, <1>5, <1>6, <1>7, <1>8, <1>9, <1>10, <1>11, <1>12
        DEF Next, MainStep, Environment

-----------------------------------------------------------------------------
ChildrenInv == MaskOK /\ RunnerOK /\ KillOK /\ ShownOK

LEMMA ChildrenInvAlways == Spec => [](SchedInv /\ ChildrenInv)
<1>1. Init => ChildrenInv
  BY MaskInit, RunnerInit, KillInit, ShownInit DEF ChildrenInv
<1>2. TypeInv /\ SchedInv /\ ChildrenInv /\ [Next]_vars => ChildrenInv'
  BY MaskStep, RunnerStep, KillStep, ShownStep DEF ChildrenInv
<1> QED BY <1>1, <1>2, SchedInvAlways, PTL DEF Spec

(* SIGSTOP and SIGCONT agree with the list: a process whose node waits is  *)
(* stopped and the running node's is not, through every switch, start and  *)
(* deletion; only TERM's SIGCONT makes an exception, until its SIGTERM.    *)
THEOREM StoppedIffWaiting == Spec => []OnlyTheRunnerRuns
<1>1. ChildrenInv => OnlyTheRunnerRuns
  BY DEF ChildrenInv, RunnerOK, OnlyTheRunnerRuns, Held
<1> QED BY <1>1, ChildrenInvAlways, PTL

(* A listing that takes many steps shows one running process at most,      *)
(* however the alarm and dying children press (hw4.c:479-482).             *)
THEOREM OneShown == Spec => []ListShowsOneRunner
<1>1. ChildrenInv => ListShowsOneRunner
  BY DEF ChildrenInv, ShownOK
<1> QED BY <1>1, ChildrenInvAlways, PTL

(* When the list is freed, and for good, no child is alive: the walk meets *)
(* every child that has begun, and SIGKILL ends even the stopped ones.     *)
THEOREM AllChildrenKilled == Spec => []NobodyOutlivesQuit
<1>1. ChildrenInv => NobodyOutlivesQuit
  BY DEF ChildrenInv, KillOK, NobodyOutlivesQuit
<1> QED BY <1>1, ChildrenInvAlways, PTL

=============================================================================
