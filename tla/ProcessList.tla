----------------------------- MODULE ProcessList -----------------------------
(***************************************************************************)
(* The scheduler's circular list of processes (hw4/hw4.c): a sequence of   *)
(* pids behind the sentinel node, and the status of the node of each pid.  *)
(* A pid that has no node has status NONE.                                 *)
(***************************************************************************)
EXTENDS Integers, Sequences, FiniteSetsExt

CONSTANTS Children,   \* the child processes, by pid
          NoChild     \* a NULL node

ASSUME NoChildAssumption == NoChild \notin Children

status_t == {"WAITING", "RUNNING", "DELETE"}
Statuses == status_t \cup {"NONE"}

(* process_list_src(SRC_RUNNING): the first running node, or NULL.         *)
RunningAt(list, status) == {k \in DOMAIN list : status[list[k]] = "RUNNING"}

src_running(list, status) ==
  IF RunningAt(list, status) = {} THEN NoChild ELSE list[Min(RunningAt(list, status))]

(* process_list_src(SRC_WAITING): the first waiting node after position k, *)
(* once around the circle.                                                 *)
Around(list, k, d) == list[((k + d - 1) % Len(list)) + 1]

WaitingAfter(list, status, k) ==
  {d \in 1 .. Len(list) - 1 : status[Around(list, k, d)] = "WAITING"}

src_waiting(list, status) ==
  LET k == Min(RunningAt(list, status)) IN
  IF WaitingAfter(list, status, k) = {} THEN NoChild
  ELSE Around(list, k, Min(WaitingAfter(list, status, k)))

(* process_list_src(SRC_PID): a node that is not marked for deletion.      *)
src_pid(status, pid) == IF status[pid] \in {"WAITING", "RUNNING"} THEN pid ELSE NoChild

(* FAULT: a new process always runs.                                       *)
AlwaysRunning(list, status) == "RUNNING"

(* process_list_add: at the end; it runs if nobody does.                   *)
StatusOfNew(list, status) ==
  IF src_running(list, status) = NoChild THEN "RUNNING" ELSE "WAITING"

(* Whether SIGALRM makes the running process give way.                     *)
CanSwitch(list, status) ==
  /\ Len(list) > 1
  /\ src_running(list, status) # NoChild
  /\ src_waiting(list, status) # NoChild

=============================================================================
