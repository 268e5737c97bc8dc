------------------------------ MODULE Scheduler ------------------------------
(***************************************************************************)
(* hw4.c: a shell that runs its children in turns.  The main program reads *)
(* commands and deletes marked nodes; the handlers of SIGALRM (switch),    *)
(* SIGCHLD (reap and mark) and SIGTERM/SIGINT (set a flag) interrupt it    *)
(* between any two steps.  A signal that is pending twice is pending once. *)
(*                                                                         *)
(* sigalrm_handler runs with every signal it could be interrupted by       *)
(* blocked, except the flag-setting ones, so it is one step.  SIGCHLD's    *)
(* handler unblocks SIGALRM half way, so its steps are separate.  SIGUSR1  *)
(* is left out: its handler changes nothing here, and a child it kills is  *)
(* a child that exits.  So are a failing malloc and the pids of others.    *)
(***************************************************************************)
EXTENDS ProcessList

CONSTANTS
  MayKill,     \* bound: the children somebody else may kill, stopped or not
  TimerRaces,  \* bound: whether the timer may expire inside SIGCHLD's handler
  Spurious,    \* bound: whether somebody else may send a SIGCHLD
  TermSignals  \* bound: the termination signals that may arrive

ASSUME SchedulerAssumption ==
  /\ MayKill \subseteq Children
  /\ TimerRaces \in BOOLEAN /\ Spurious \in BOOLEAN
  /\ TermSignals \subseteq {"INT", "TERM"}

VARIABLES
  process_list,  \* pids, in the order of the next pointers
  status,        \* of each pid's node
  del_flag, termsig_flag,
  mpc,           \* where the main program is
  command, target,  \* what the user wants, and of whom
  at,            \* the position of a walk along the list
  shown,         \* what process_list_print has marked (R) so far
  hpc, reaped,   \* where SIGCHLD's handler is, and its reaped_process
  mask,          \* signals the main program has blocked
  pending,       \* signals pending for the scheduler
  timer,         \* alarm()
  child          \* the state of each child in the kernel

lists    == <<process_list, status, del_flag>>
mainVars == <<mpc, command, target, at, shown, mask>>
handler  == <<hpc, reaped>>
kernel   == <<pending, timer, child>>
vars     == <<lists, mainVars, handler, kernel, termsig_flag>>

-----------------------------------------------------------------------------
(* Children and the signals they are sent.  "doomed" is stopped with a     *)
(* SIGTERM pending; a child that is reaped receives nothing.               *)
ChildStates == {"none", "run", "stopped", "doomed", "zombie", "reaped"}
Alive       == {"run", "stopped", "doomed"}

SIGSTOP == [s \in ChildStates |-> IF s = "run" THEN "stopped" ELSE s]
SIGCONT == [s \in ChildStates |-> CASE s = "stopped" -> "run" [] s = "doomed" -> "zombie" [] OTHER -> s]
SIGTERM == [s \in ChildStates |-> CASE s = "run" -> "zombie" [] s = "stopped" -> "doomed" [] OTHER -> s]
SIGKILL == [s \in ChildStates |-> IF s \in Alive THEN "zombie" ELSE s]

(* A child that ends makes SIGCHLD pending.                                *)
Obituary(c, sig) == IF child[c] \in Alive /\ sig[child[c]] = "zombie" THEN {"CHLD"} ELSE {}

kill(c, sig) ==
  /\ child' = [child EXCEPT ![c] = sig[@]]
  /\ pending' = pending \cup Obituary(c, sig)

-----------------------------------------------------------------------------
(* FAULT: the timer is set again only after a switch.                      *)
switch_only ==
  IF CanSwitch(process_list, status)
  THEN LET running == src_running(process_list, status)
           next    == src_waiting(process_list, status)
       IN /\ status' = [status EXCEPT ![running] = "WAITING", ![next] = "RUNNING"]
          /\ child' = [child EXCEPT ![running] = SIGSTOP[@], ![next] = SIGCONT[@]]
          /\ pending' = (pending \ {"ALRM"}) \cup Obituary(next, SIGCONT)
          /\ timer' = "armed"
  ELSE UNCHANGED <<status, child, timer>> /\ pending' = pending \ {"ALRM"}

(* sigalrm_handler: always sets the timer again, and switches if somebody  *)
(* runs and somebody else waits.                                           *)
sigalrm_handler ==
  /\ timer' = "armed"
  /\ IF CanSwitch(process_list, status)
     THEN LET running == src_running(process_list, status)
              next    == src_waiting(process_list, status)
          IN /\ status' = [status EXCEPT ![running] = "WAITING", ![next] = "RUNNING"]
             /\ child' = [child EXCEPT ![running] = SIGSTOP[@], ![next] = SIGCONT[@]]
             /\ pending' = (pending \ {"ALRM"}) \cup Obituary(next, SIGCONT)
     ELSE UNCHANGED <<status, child>> /\ pending' = pending \ {"ALRM"}

(* Nodes of the list have been freed, and a handler that walks it reads    *)
(* freed memory: it may find the old contents, or not survive.             *)
ReadsFreed == mpc = "leave" \/ (mpc = "destroy" /\ at > 1)

ParentRuns == mpc \notin {"exited", "killed"}

AlarmDelivered ==
  /\ ParentRuns /\ "ALRM" \in pending
  /\ IF hpc = "none" THEN "ALRM" \notin mask ELSE hpc \in {"raise", "block"}
  /\ sigalrm_handler
  /\ UNCHANGED <<process_list, del_flag, mainVars, handler, termsig_flag>>

(* Of two pending signals the one with the lower number, SIGALRM, goes     *)
(* first.                                                                  *)
ChldDelivered ==
  /\ ParentRuns /\ hpc = "none" /\ "CHLD" \in pending \ mask
  /\ "ALRM" \in pending => "ALRM" \in mask
  /\ hpc' = "reap"
  /\ pending' = pending \ {"CHLD"}
  /\ UNCHANGED <<lists, mainVars, reaped, timer, child, termsig_flag>>

Crashes ==
  /\ ReadsFreed /\ (hpc # "none" \/ "ALRM" \in pending \ mask)
  /\ mpc' = "killed"
  /\ UNCHANGED <<lists, command, target, at, shown, mask, handler, kernel, termsig_flag>>

-----------------------------------------------------------------------------
(* sigchld_handler *)

(* waitpid(-1): any zombie; blocks while there are only live children.     *)
Reap ==
  /\ hpc = "reap" /\ ParentRuns
  /\ \E c \in Children :
       /\ child[c] = "zombie"
       /\ child' = [child EXCEPT ![c] = "reaped"]
       /\ reaped' = src_pid(status, c)
       /\ hpc' = IF src_pid(status, c) = NoChild THEN "none"
                 ELSE IF status[c] = "RUNNING" THEN "unblock" ELSE "mark"
  /\ UNCHANGED <<lists, mainVars, pending, timer, termsig_flag>>

NoneToReap ==
  /\ hpc = "reap" /\ ParentRuns /\ \A c \in Children : child[c] \in {"none", "reaped"}
  /\ hpc' = "none"
  /\ UNCHANGED <<lists, mainVars, reaped, kernel, termsig_flag>>

(* A SIGALRM that became pending meanwhile is delivered at once.           *)
Unblock ==
  /\ hpc = "unblock" /\ ParentRuns
  /\ hpc' = "raise"
  /\ IF "ALRM" \in pending THEN sigalrm_handler ELSE UNCHANGED <<status, kernel>>
  /\ UNCHANGED <<process_list, del_flag, mainVars, reaped, termsig_flag>>

Raise ==
  /\ hpc = "raise" /\ ParentRuns
  /\ hpc' = "block"
  /\ sigalrm_handler
  /\ UNCHANGED <<process_list, del_flag, mainVars, reaped, termsig_flag>>

Block ==
  /\ hpc = "block" /\ ParentRuns
  /\ hpc' = "mark"
  /\ UNCHANGED <<lists, mainVars, reaped, kernel, termsig_flag>>

Mark ==
  /\ hpc = "mark" /\ ParentRuns
  /\ status' = [status EXCEPT ![reaped] = "DELETE"]
  /\ del_flag' = 1
  /\ hpc' = "none" /\ reaped' = NoChild
  /\ UNCHANGED <<process_list, mainVars, kernel, termsig_flag>>

-----------------------------------------------------------------------------
(* main.  Its steps run only while no handler does.                        *)
At(pc) == mpc = pc /\ hpc = "none"
To(pc) == mpc' = pc

(* The loop enters fgets, and a line arrives there.                        *)
EnterFgets ==
  /\ At("loop") /\ To("fgets")
  /\ command' = "NONE"
  /\ UNCHANGED <<lists, target, at, shown, mask, handler, kernel, termsig_flag>>

UserTypes(cmd, c) ==
  /\ At("fgets")
  /\ \/ cmd = "EXEC" /\ child[c] = "none" /\ To("start")
     \/ cmd = "TERM" /\ child[c] # "none" /\ To("cont")
     \/ cmd = "LIST" /\ To("list")
     \/ cmd \in {"QUIT", "NONE"} /\ To("check")   \* NONE: SIG, or no command at all
  /\ command' = cmd
  /\ target' = IF cmd \in {"EXEC", "TERM"} THEN c ELSE NoChild
  /\ UNCHANGED <<lists, at, shown, mask, handler, kernel, termsig_flag>>

(* TERM: the target is continued, so that it receives the SIGTERM.         *)
TermCont ==
  /\ At("cont") /\ To("term")
  /\ kill(target, SIGCONT)
  /\ UNCHANGED <<lists, command, target, at, shown, mask, handler, timer, termsig_flag>>

TermTerm ==
  /\ At("term") /\ To("check")
  /\ kill(target, SIGTERM)
  /\ UNCHANGED <<lists, command, target, at, shown, mask, handler, timer, termsig_flag>>

(* FAULTS: SIGCHLD is not blocked; -1 is taken for a pid; the new process  *)
(* is not stopped.                                                         *)
StartUnblocked ==
  /\ At("start") /\ To("fork")
  /\ UNCHANGED <<lists, command, target, at, shown, mask, handler, kernel, termsig_flag>>

ForkUnchecked ==
  /\ At("fork") /\ To("stop")
  /\ target' = -1
  /\ UNCHANGED <<lists, command, at, shown, mask, handler, kernel, termsig_flag>>

StopNobody ==
  /\ At("stop") /\ To("add")
  /\ UNCHANGED <<lists, command, target, at, shown, mask, handler, kernel, termsig_flag>>

(* start_process *)
StartBlock ==
  /\ At("start") /\ To("fork")
  /\ mask' = mask \cup {"CHLD"}
  /\ UNCHANGED <<lists, command, target, at, shown, handler, kernel, termsig_flag>>

Fork ==
  /\ At("fork") /\ To("stop")
  /\ child' = [child EXCEPT ![target] = "run"]
  /\ UNCHANGED <<lists, command, target, at, shown, mask, handler, pending, timer, termsig_flag>>

ForkFails ==
  /\ At("fork") /\ To("killall")
  /\ at' = 1
  /\ UNCHANGED <<lists, command, target, shown, mask, handler, kernel, termsig_flag>>

StopNew ==
  /\ At("stop") /\ To("add")
  /\ IF src_running(process_list, status) # NoChild
     THEN kill(target, SIGSTOP) ELSE UNCHANGED <<child, pending>>
  /\ UNCHANGED <<lists, command, target, at, shown, mask, handler, timer, termsig_flag>>

process_list_add ==
  /\ At("add") /\ To("started")
  /\ process_list' = Append(process_list, target)
  /\ status' = [status EXCEPT ![target] = StatusOfNew(process_list, status)]
  /\ UNCHANGED <<del_flag, command, target, at, shown, mask, handler, kernel, termsig_flag>>

StartUnblock ==
  /\ At("started") /\ To("check")
  /\ mask' = mask \ {"CHLD"}
  /\ UNCHANGED <<lists, command, target, at, shown, handler, kernel, termsig_flag>>

(* FAULT: the list is printed with the signals open.                       *)
PrintUnblocked ==
  /\ At("list") /\ To("print")
  /\ at' = 1 /\ shown' = {}
  /\ UNCHANGED <<lists, command, target, mask, handler, kernel, termsig_flag>>

(* process_list_print, a node at a time *)
PrintBlock ==
  /\ At("list") /\ To("print")
  /\ mask' = {"ALRM", "CHLD"} /\ at' = 1 /\ shown' = {}
  /\ UNCHANGED <<lists, command, target, handler, kernel, termsig_flag>>

PrintNode ==
  /\ At("print") /\ at <= Len(process_list)
  /\ at' = at + 1
  /\ shown' = IF status[process_list[at]] = "RUNNING" THEN shown \cup {process_list[at]} ELSE shown
  /\ UNCHANGED <<lists, mpc, command, target, mask, handler, kernel, termsig_flag>>

PrintUnblock ==
  /\ At("print") /\ at > Len(process_list) /\ To("check")
  /\ mask' = {}
  /\ UNCHANGED <<lists, command, target, at, shown, handler, kernel, termsig_flag>>

(* After every command: the list is cleaned if the flag is up.             *)
CheckFlag ==
  /\ At("check") /\ To(IF del_flag = 1 THEN "clean" ELSE "test")
  /\ at' = 1 /\ shown' = {} /\ target' = NoChild
  /\ UNCHANGED <<lists, command, mask, handler, kernel, termsig_flag>>

CleanNode ==
  /\ At("clean") /\ at <= Len(process_list)
  /\ IF status[process_list[at]] = "DELETE"
     THEN /\ process_list' = SubSeq(process_list, 1, at - 1)
                               \o SubSeq(process_list, at + 1, Len(process_list))
          /\ status' = [status EXCEPT ![process_list[at]] = "NONE"]
          /\ UNCHANGED at
     ELSE at' = at + 1 /\ UNCHANGED <<process_list, status>>
  /\ UNCHANGED <<del_flag, mpc, command, target, shown, mask, handler, kernel, termsig_flag>>

CleanDone ==
  /\ At("clean") /\ at > Len(process_list) /\ To("test")
  /\ del_flag' = 0 /\ at' = 1
  /\ UNCHANGED <<process_list, status, command, target, shown, mask, handler, kernel, termsig_flag>>

TestFlag ==
  /\ At("test") /\ To(IF termsig_flag = 1 \/ command = "QUIT" THEN "killall" ELSE "loop")
  /\ at' = 1
  /\ UNCHANGED <<lists, command, target, shown, mask, handler, kernel, termsig_flag>>

(* FAULT: SIGTERM, which a stopped process does not receive.               *)
TerminateNode ==
  /\ At("killall") /\ at <= Len(process_list)
  /\ at' = at + 1
  /\ IF status[process_list[at]] # "DELETE"
     THEN kill(process_list[at], SIGTERM) ELSE UNCHANGED <<child, pending>>
  /\ UNCHANGED <<lists, mpc, command, target, shown, mask, handler, timer, termsig_flag>>

(* kill_all_children and process_list_destroy *)
KillNode ==
  /\ At("killall") /\ at <= Len(process_list)
  /\ at' = at + 1
  /\ IF status[process_list[at]] # "DELETE"
     THEN kill(process_list[at], SIGKILL) ELSE UNCHANGED <<child, pending>>
  /\ UNCHANGED <<lists, mpc, command, target, shown, mask, handler, timer, termsig_flag>>

KilledAll ==
  /\ At("killall") /\ at > Len(process_list) /\ To("destroy")
  /\ at' = 1
  /\ UNCHANGED <<lists, command, target, shown, mask, handler, kernel, termsig_flag>>

FreeNode ==
  /\ At("destroy")
  /\ IF at <= Len(process_list) THEN at' = at + 1 /\ UNCHANGED mpc
     ELSE To("leave") /\ UNCHANGED at
  /\ UNCHANGED <<lists, command, target, shown, mask, handler, kernel, termsig_flag>>

Leave ==
  /\ At("leave") /\ To("exited")
  /\ UNCHANGED <<lists, command, target, at, shown, mask, handler, kernel, termsig_flag>>

-----------------------------------------------------------------------------
(* The rest of the world *)

ChildEnds(c) ==
  /\ child[c] = "run" \/ (c \in MayKill /\ child[c] \in Alive)
  /\ kill(c, SIGKILL)
  /\ UNCHANGED <<lists, mainVars, handler, timer, termsig_flag>>

AlarmExpires ==
  /\ timer = "armed" /\ ParentRuns
  /\ TimerRaces \/ hpc = "none"
  /\ timer' = "off"
  /\ pending' = pending \cup {"ALRM"}
  /\ UNCHANGED <<lists, mainVars, handler, child, termsig_flag>>

SpuriousChld ==
  /\ Spurious /\ ParentRuns
  /\ pending' = pending \cup {"CHLD"}
  /\ UNCHANGED <<lists, mainVars, handler, timer, child, termsig_flag>>

(* start_process gives SIGTERM its default action from where it blocks     *)
(* SIGCHLD to where it unblocks it; a failed fork never gives it back.     *)
StartWindow == mask = {"CHLD"}

(* The flag goes up, and a call that blocks returns EINTR: fgets, or the   *)
(* waitpid of the handler, which then finds no node; unless the signal is  *)
(* handled just before waitpid is called, which blocks all the same.       *)
WaitpidBlocks == hpc = "reap" /\ \A c \in Children : child[c] # "zombie"

TermSignal(sig) ==
  /\ ParentRuns
  /\ IF sig = "TERM" /\ StartWindow
     THEN To("killed") /\ UNCHANGED <<termsig_flag, hpc>>
     ELSE /\ termsig_flag' = 1
          /\ IF At("fgets") THEN To("check") ELSE UNCHANGED mpc
          /\ hpc' \in IF WaitpidBlocks THEN {"none", hpc} ELSE {hpc}
  /\ UNCHANGED <<lists, command, target, at, shown, mask, reaped, kernel>>

-----------------------------------------------------------------------------
Init ==
  /\ process_list = <<>> /\ status = [c \in Children |-> "NONE"]
  /\ del_flag = 0 /\ termsig_flag = 0
  /\ mpc = "loop" /\ command = "NONE" /\ target = NoChild /\ at = 1 /\ shown = {}
  /\ hpc = "none" /\ reaped = NoChild
  /\ mask = {} /\ pending = {} /\ timer = "armed"
  /\ child = [c \in Children |-> "none"]

MainStep ==
  \/ EnterFgets \/ TermCont \/ TermTerm
  \/ StartBlock \/ Fork \/ ForkFails \/ StopNew \/ process_list_add \/ StartUnblock
  \/ PrintBlock \/ PrintNode \/ PrintUnblock
  \/ CheckFlag \/ CleanNode \/ CleanDone \/ TestFlag
  \/ KillNode \/ KilledAll \/ FreeNode \/ Leave

HandlerStep == Reap \/ NoneToReap \/ Unblock \/ Raise \/ Block \/ Mark

Environment ==
  \/ \E c \in Children, cmd \in {"EXEC", "TERM", "LIST", "QUIT", "NONE"} : UserTypes(cmd, c)
  \/ \E c \in Children : ChildEnds(c)
  \/ SpuriousChld
  \/ \E sig \in TermSignals : TermSignal(sig)

Terminated == ~ParentRuns /\ UNCHANGED vars

Next ==
  \/ MainStep \/ HandlerStep \/ AlarmDelivered \/ ChldDelivered \/ Crashes
  \/ AlarmExpires \/ Environment \/ Terminated

Spec == Init /\ [][Next]_vars

(* The scheduler runs when it can, the timer expires, and the kernel       *)
(* delivers a pending signal that keeps being unblocked.  Children and     *)
(* users may do what they like.                                            *)
Fairness ==
  /\ WF_vars(MainStep) /\ WF_vars(HandlerStep) /\ WF_vars(AlarmExpires)
  /\ SF_vars(AlarmDelivered) /\ SF_vars(ChldDelivered)

FairSpec == Spec /\ Fairness

-----------------------------------------------------------------------------
MainPc == {"loop", "fgets", "cont", "term", "start", "fork", "stop", "add", "started",
           "list", "print", "check", "clean", "test", "killall", "destroy", "leave",
           "exited", "killed"}

(* Every variable keeps its type.                                          *)
TypeOK ==
  /\ process_list \in Seq(Children) /\ status \in [Children -> Statuses]
  /\ del_flag \in {0, 1} /\ termsig_flag \in {0, 1}
  /\ mpc \in MainPc /\ command \in {"EXEC", "TERM", "LIST", "QUIT", "NONE"}
  /\ target \in Children \cup {NoChild} /\ at \in Nat /\ shown \subseteq Children
  /\ hpc \in {"none", "reap", "unblock", "raise", "block", "mark"}
  /\ reaped \in Children \cup {NoChild}
  /\ mask \subseteq {"ALRM", "CHLD"} /\ pending \subseteq {"ALRM", "CHLD"}
  /\ timer \in {"armed", "off"} /\ child \in [Children -> ChildStates]

InList == {process_list[k] : k \in DOMAIN process_list}

(* No two nodes are running (the switch, process_list_add and the marking  *)
(* of a dead process all write the status), and a pid has one node at most.*)
OneRunner ==
  /\ \A c, d \in Children : status[c] = "RUNNING" /\ status[d] = "RUNNING" => c = d
  /\ \A j, k \in DOMAIN process_list : process_list[j] = process_list[k] => j = k
  /\ \A c \in Children : c \in InList <=> status[c] # "NONE"

(* Between the window of start_process (which blocks SIGCHLD for this) and *)
(* the marking of a reaped process, the nodes that are not marked are the  *)
(* children that are not reaped: no process is lost, none signalled after  *)
(* it has been reaped.                                                     *)
ListMatchesChildren ==
  ParentRuns /\ hpc \in {"none", "reap"} /\ mpc \notin {"stop", "add"} =>
    {c \in Children : status[c] \in {"WAITING", "RUNNING"}}
      = {c \in Children : child[c] \in Alive \cup {"zombie"}}

(* A child whose node is waiting is stopped, one whose node runs is not,   *)
(* but for the child that TERM has just continued.                         *)
OnlyTheRunnerRuns ==
  \A c \in Children \ (IF mpc = "term" THEN {target} ELSE {}) :
    /\ status[c] = "WAITING" => child[c] # "run"
    /\ status[c] = "RUNNING" => child[c] \notin {"stopped", "doomed"}

(* hw4.c:479-482: a listing never shows two processes as running.          *)
ListShowsOneRunner == \A c, d \in shown : c = d

(* Whenever the main program comes to free the list no child is left       *)
(* alive, stopped ones included.                                           *)
NobodyOutlivesQuit ==
  mpc \in {"destroy", "leave", "exited"} => \A c \in Children : child[c] \notin Alive

(* hw4.c:314-315: if the list is not empty and nobody runs, what is left   *)
(* are processes to delete.                                                *)
SomeoneRuns ==
  hpc = "none" /\ src_running(process_list, status) = NoChild =>
    \A c \in Children : status[c] # "WAITING"

(* A waiting process gets its turn, whoever dies before it and however the *)
(* deaths coalesce, if no SIGALRM comes inside sigchld_handler (see        *)
(* SomeoneRuns) and no SIGCHLD from elsewhere (see HandlerReturns).        *)
TurnComes == \A c \in Children : status[c] = "WAITING" ~> (status[c] # "WAITING" \/ ~ParentRuns)

(* hw4.c:266-269: a SIGCHLD that nobody died for, such as one that another *)
(* process sends, finds no node, and the handler returns, so that SIGALRM, *)
(* which it blocks, is never shut out for good.                            *)
HandlerReturns == hpc # "none" ~> (hpc = "none" \/ ~ParentRuns)

=============================================================================
