---------------------------- MODULE ArchiveParent ----------------------------
(***************************************************************************)
(* hw2.c: the parent makes the pipes, forks the stages one after the       *)
(* other, closes what each takes over, waits for all, and kills them when  *)
(* something fails.                                                        *)
(***************************************************************************)
EXTENDS ArchiveState, FiniteSets

(* FAULT: the parent keeps the end of dir_pipe that dirlist writes.        *)
create_keeps_end ==
  << [child |-> {<<1, "r">>} \cup ({2} \X {"r", "w"}), parent |-> {},                 tested |-> 1],
     [child |-> {<<2, "r">>},                          parent |-> {<<1, "r">>, <<2, "w">>}, tested |-> 2],
     [child |-> {},                                    parent |-> {<<2, "r">>},       tested |-> 2] >>

(* For each fork: the ends the child closes, the ends the parent closes    *)
(* once the child has them, the entry of processes that is tested for a    *)
(* fork that failed.  dir_pipe is pipe 1, arch_pipe is pipe 2.             *)
create_encr_archive ==
  << [child |-> {<<1, "r">>} \cup ({2} \X {"r", "w"}), parent |-> {<<1, "w">>},       tested |-> 1],
     [child |-> {<<2, "r">>},                          parent |-> {<<1, "r">>, <<2, "w">>}, tested |-> 2],
     [child |-> {},                                    parent |-> {<<2, "r">>},       tested |-> 2] >>

(* unarch_pipe is pipe 1.                                                  *)
extract_encr_data ==
  << [child |-> {<<1, "r">>}, parent |-> {<<1, "w">>}, tested |-> 1],
     [child |-> {},           parent |-> {<<1, "r">>}, tested |-> 2] >>

Plan == IF mode = "create" THEN create_encr_archive ELSE extract_encr_data

-----------------------------------------------------------------------------
(* FAULT: empty places of the table are given to kill.                     *)
targets_unchecked(table, n, lives) ==
  LET Gone == {k \in 1 .. n : table[k] > 0 /\ lives[k] = "reaped"}
  IN {k \in 1 .. n : \A j \in Gone : k <= j}

(* The entries kill is called for: the ones in use, up to the first that   *)
(* names nobody any more, where kill fails and kill_all_children gives up. *)
Targets(table, n, lives) ==
  LET Gone == {k \in 1 .. n : table[k] > 0 /\ lives[k] = "reaped"}
  IN {k \in 1 .. n : table[k] # 0 /\ \A j \in Gone : k <= j}

(* SIGKILL to each; the pid -1 means everybody.  Then the command has      *)
(* failed, and the parent ends.                                            *)
kill_all_children(table, n, lives) ==
  LET hit    == Targets(table, n, lives)
      all    == \E k \in hit : table[k] = -1
      killed == {k \in Stages : lives[k] \in {"forked", "runs"} /\ (all \/ k \in hit)}
  IN /\ life' = [k \in Stages |-> IF k \in killed THEN "dead" ELSE lives[k]]
     /\ how' = [k \in Stages |-> IF k \in killed THEN "signal" ELSE how[k]]
     /\ fds' = [p \in 0 .. 3 |-> IF p = 0 \/ p \in killed THEN {} ELSE fds[p]]
     /\ signalled' = signalled \cup {table[k] : k \in hit}
     /\ missed' = missed \cup {k \in hit : table[k] > 0 /\ lives[k] = "reaped"}

GiveUp(table, n, lives) ==
  /\ kill_all_children(table, n, lives)
  /\ processes' = table
  /\ pc' = "done" /\ result' = "failure"
  /\ UNCHANGED <<at, magic, data, pipe, todo>>

-----------------------------------------------------------------------------
Refuses == IF mode = "create" THEN magic # "absent" ELSE magic # "present"

(* The archive is opened (it must not exist yet, or must exist and carry   *)
(* the magic number), the pipes are made.                                  *)
SetUp ==
  /\ pc = "open"
  /\ IF Refuses
     THEN pc' = "done" /\ result' = "refused" /\ UNCHANGED <<magic, fds>>
     ELSE /\ pc' = "fork" /\ magic' = "present" /\ UNCHANGED result
          /\ fds' = [fds EXCEPT ![0] = (IF mode = "create" THEN {1, 2} ELSE {1}) \X {"r", "w"}]
  /\ UNCHANGED <<data, pipe, life, how, todo, at, processes, waits, history>>

(* A new archive whose magic number could not be written stays behind.     *)
SetUpFails ==
  /\ pc = "open" /\ ParentMayFail
  /\ pc' = "done" /\ result' = "failure"
  /\ magic' \in IF Refuses \/ mode = "extract" THEN {magic} ELSE {"absent", "missing", "present"}
  /\ UNCHANGED <<data, children, at, processes, waits, history>>

my_fork ==
  /\ pc = "fork"
  /\ life' = [life EXCEPT ![at] = "forked"]
  /\ fds' = [fds EXCEPT ![at] = fds[0]]
  /\ processes' = [processes EXCEPT ![at] = at]
  /\ pc' = "close"
  /\ UNCHANGED <<data, pipe, how, todo, at, waits, result, magic, history>>

(* The entry that is tested is the one before, for the third fork.         *)
my_fork_fails ==
  /\ pc = "fork" /\ ParentMayFail
  /\ LET table == [processes EXCEPT ![at] = -1] IN
       IF table[Plan[at].tested] < 0
       THEN GiveUp(table, at - 1, life)
       ELSE /\ processes' = table /\ pc' = "close"
            /\ UNCHANGED <<data, children, at, result, magic, history>>
  /\ UNCHANGED waits

(* FAULT: the child closes the end it writes as well.                      *)
exec_closes_all(k, input) ==
  /\ life[k] = "forked"
  /\ life' = [life EXCEPT ![k] = "runs"]
  /\ fds' = [fds EXCEPT ![k] = {}]
  /\ todo' = [todo EXCEPT ![k] = input]
  /\ UNCHANGED <<data, pipe, how, parent, history>>

(* In the child: close what it does not use, dup what it uses, exec a      *)
(* program with its input; a failure of any of them is a stage that fails. *)
redirected_exec(k, input) ==
  /\ life[k] = "forked"
  /\ life' = [life EXCEPT ![k] = "runs"]
  /\ fds' = [fds EXCEPT ![k] = @ \ Plan[k].child]
  /\ todo' = [todo EXCEPT ![k] = input]
  /\ UNCHANGED <<data, pipe, how, parent, history>>

(* In the parent, after each fork.                                         *)
close_multiple_fd ==
  /\ pc = "close"
  /\ fds' = [fds EXCEPT ![0] = @ \ Plan[at].parent]
  /\ IF at < StageCount THEN at' = at + 1 /\ pc' = "fork" ELSE pc' = "wait" /\ UNCHANGED at
  /\ UNCHANGED <<data, pipe, life, how, todo, processes, waits, result, magic, history>>

(* FAULT: the stage just forked is forgotten.                              *)
close_fails_one_less ==
  /\ pc = "close" /\ ParentMayFail
  /\ GiveUp(processes, at - 1, life) /\ UNCHANGED waits

(* A close that fails ends the command.                                    *)
close_fails ==
  /\ pc = "close" /\ ParentMayFail
  /\ GiveUp(processes, at, life) /\ UNCHANGED waits

-----------------------------------------------------------------------------
(* FAULT: the exit status is not looked at.                                *)
WaitedWhatever(k) ==
  /\ life[k] = "dead" /\ waits' = waits + 1
  /\ life' = [life EXCEPT ![k] = "reaped"]
  /\ processes' = [j \in Stages |-> IF processes[j] = k THEN 0 ELSE processes[j]]
  /\ IF waits + 1 = StageCount
     THEN pc' = "done" /\ result' = "success" /\ fds' = [fds EXCEPT ![0] = {}]
     ELSE UNCHANGED <<pc, result, fds>>
  /\ UNCHANGED <<at, magic, data, pipe, how, todo, history>>

(* wait_all_processes takes the children in the order in which they end.   *)
(* A pid leaves the table when the child has exited; the branch for a      *)
(* child ended by a signal leaves it in.                                   *)
Waited(k) ==
  LET lives == [life EXCEPT ![k] = "reaped"]
      table == [j \in Stages |-> IF processes[j] = k /\ how[k] # "signal" THEN 0 ELSE processes[j]]
  IN /\ life[k] = "dead" /\ waits' = waits + 1
     /\ IF how[k] = "ok"
        THEN /\ life' = lives /\ processes' = table
             /\ IF waits + 1 = StageCount
                THEN pc' = "done" /\ result' = "success" /\ fds' = [fds EXCEPT ![0] = {}]
                ELSE UNCHANGED <<pc, result, fds>>
             /\ UNCHANGED <<at, magic, data, pipe, how, todo, history>>
        ELSE GiveUp(table, StageCount, lives)

(* waitpid fails when there is no child left to wait for.                  *)
NobodyToWait ==
  /\ \A k \in Stages : ~Alive(k) /\ life[k] # "dead"
  /\ GiveUp(processes, StageCount, life) /\ UNCHANGED waits

wait_all_processes ==
  /\ pc = "wait"
  /\ (\E k \in Stages : Waited(k)) \/ NobodyToWait

ParentStep == SetUp \/ my_fork \/ close_multiple_fd \/ wait_all_processes

ParentFails == SetUpFails \/ my_fork_fails \/ close_fails
=============================================================================
